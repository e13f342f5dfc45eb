-------------------------------- MODULE Env --------------------------------
(***************************************************************************)
(* The kernel's environment table, scheduler and blocking IPC on several   *)
(* CPUs: kern/env.c, kern/sched.c, the trap path of kern/trap.c and the    *)
(* system calls of kern/syscall.c that change an environment's status.     *)
(*                                                                         *)
(* Everything between lock_kernel() in trap() and unlock_kernel() in       *)
(* env_run() runs under the big kernel lock with interrupts off, so each   *)
(* handler is one action.  The two windows outside the lock are steps of   *)
(* their own: user mode, and the tail of env_run() that loads env_cr3 and  *)
(* pops the trap frame after the lock is released.                         *)
(*                                                                         *)
(* An environment is its slot in envs[]; an envid_t is <<slot, generation>>*)
(* and 0 is Self.  env_free_list is the sequence of slots on the list.     *)
(***************************************************************************)
EXTENDS Integers, Sequences, FiniteSets

CONSTANTS
  NENV,       \* slots of envs[]
  NCPU,       \* idle environments: slot c < NCPU is the one of CPU c
  ncpu,       \* CPUs that mp_init found
  NUSER,      \* user environments that i386_init creates after the idle ones
  GenLimit,   \* generations before the int32_t of env_alloc turns negative
  MaxGen      \* bound: the last generation the model lets a slot reach

ASSUME EnvAssumption ==
  /\ NCPU \in Nat /\ ncpu \in 1 .. NCPU /\ NUSER \in Nat \ {0}
  /\ NENV \in Nat /\ NCPU + NUSER <= NENV /\ NENV > 2
  /\ GenLimit \in Nat /\ MaxGen \in Nat /\ 1 <= MaxGen /\ MaxGen <= GenLimit

VARIABLES
  env_status,      \* [Env -> Status]
  env_id,          \* [Env -> 0..MaxGen], the generation part of env_id
  env_parent_id,   \* [Env -> EnvId]
  env_ipc_recving, \* [Env -> BOOLEAN]
  env_free_list,   \* Seq(Env), head first
  cpu_env,         \* [CPU -> Env or NULL], curenv of each CPU
  kernel_lock,     \* the CPU that holds the big kernel lock, or NULL
  pc,              \* [CPU -> Pc], where each CPU is
  started,         \* history: [Env -> BOOLEAN], made RUNNABLE since its creation
  orphan           \* history: [Env -> BOOLEAN], its creator was freed

vars == <<env_status, env_id, env_parent_id, env_ipc_recving, env_free_list,
          cpu_env, kernel_lock, pc, started, orphan>>
\* What a handler leaves to its own conjuncts: all but the outcome of the scheduler.
table == <<env_id, env_parent_id, env_ipc_recving, env_free_list, started, orphan>>

Env == 0 .. NENV - 1
CPU == 0 .. ncpu - 1
NULL == -1
Status == {"FREE", "DYING", "RUNNABLE", "RUNNING", "NOT_RUNNABLE"}
Pc == {"boot", "user", "kernel", "exit", "monitor", "wild"}
EnvId == Env \X (0 .. MaxGen)
Self == <<0, 0>>
IdOf(e) == <<e, env_id[e]>>
IsIdle(e) == e < NCPU

-----------------------------------------------------------------------------
(* env_init and i386_init: the idle environments, then the user ones, then *)
(* free slots in table order.  CPU 0 holds the lock until its first        *)
(* env_run; the other CPUs spin in mp_main.                                *)
Init ==
  /\ env_status = [e \in Env |-> IF e < NCPU + NUSER THEN "RUNNABLE" ELSE "FREE"]
  /\ env_id = [e \in Env |-> IF e < NCPU + NUSER THEN 1 ELSE 0]
  /\ env_parent_id = [e \in Env |-> Self]
  /\ env_ipc_recving = [e \in Env |-> FALSE]
  /\ env_free_list = [i \in 1 .. (NENV - (NCPU + NUSER)) |-> NCPU + NUSER + i - 1]
  /\ cpu_env = [c \in CPU |-> NULL]
  /\ kernel_lock = 0
  /\ pc = [c \in CPU |-> "boot"]
  /\ started = [e \in Env |-> e < NCPU + NUSER]
  /\ orphan = [e \in Env |-> FALSE]

-----------------------------------------------------------------------------
(* The end of a handler.  st is env_status as the handler left it and cur  *)
(* its curenv, NULL after an env_free of the current environment.          *)

\* Step 1 of env_run: a current environment still RUNNING goes back to RUNNABLE.
\* Mutant: the old environment stays RUNNING.
DescheduledNot(st, cur) == st
Descheduled(st, cur) ==
  [e \in Env |-> IF e = cur /\ st[e] = "RUNNING" THEN "RUNNABLE" ELSE st[e]]

env_run(c, e, st, cur) ==
  /\ env_status' = [Descheduled(st, cur) EXCEPT ![e] = "RUNNING"]
  /\ cpu_env' = [cpu_env EXCEPT ![c] = e]
  /\ kernel_lock' = NULL
  /\ pc' = [pc EXCEPT ![c] = "exit"]

\* The scan of sched_yield starts one after the current slot, or at slot 2
\* when there is none, and visits NENV - 1 slots.  k wraps when k++ makes it
\* NENV; started from the last slot it is NENV already and runs past envs[].
\* Mutant: every scan starts at slot 2.
ScanStartFixed(cur) == 1
ScanStart(cur) == IF cur = NULL THEN 1 ELSE cur
PastTable(cur) == ScanStart(cur) = NENV - 1
\* Mutant: the scan walks the table downwards.
ScannedDown(cur, j) == (ScanStart(cur) + NENV - j) % NENV
Scanned(cur, j) == (ScanStart(cur) + j) % NENV
\* Mutants: any CPU may run an idle environment; a RUNNING one is taken over.
EligibleIdle(st, e) == st[e] = "RUNNABLE"
EligibleRunning(st, e) == st[e] \in {"RUNNABLE", "RUNNING"} /\ ~IsIdle(e)
Eligible(st, e) == st[e] = "RUNNABLE" /\ ~IsIdle(e)

ScanPicks(st, cur, j) ==
  /\ ~PastTable(cur)
  /\ Eligible(st, Scanned(cur, j))
  /\ \A i \in 1 .. j - 1 : ~Eligible(st, Scanned(cur, i))

ScanFindsNone(st, cur) ==
  \/ PastTable(cur)
  \/ \A j \in 1 .. NENV - 1 : ~Eligible(st, Scanned(cur, j))

KeepsCurrent(st, cur) == cur # NULL /\ st[cur] = "RUNNING"

AnyUserEnv(st) ==
  \E e \in Env : ~IsIdle(e) /\ st[e] \in {"RUNNABLE", "RUNNING"}

\* while (1) monitor(NULL): the CPU keeps the lock and its curenv.
EnterMonitor(c, st, cur) ==
  /\ env_status' = st
  /\ cpu_env' = [cpu_env EXCEPT ![c] = cur]
  /\ pc' = [pc EXCEPT ![c] = "monitor"]
  /\ kernel_lock' = c

\* The words past envs[] look like a runnable Env and env_run is called on them.
RunPastTable(c, st, cur) ==
  /\ env_status' = Descheduled(st, cur)
  /\ cpu_env' = [cpu_env EXCEPT ![c] = NULL]
  /\ pc' = [pc EXCEPT ![c] = "wild"]
  /\ kernel_lock' = NULL

sched_yield(c, st, cur) ==
  \/ \E j \in 1 .. NENV - 1 :
       ScanPicks(st, cur, j) /\ env_run(c, Scanned(cur, j), st, cur)
  \/ PastTable(cur) /\ RunPastTable(c, st, cur)
  \/ /\ ScanFindsNone(st, cur)
     /\ KeepsCurrent(st, cur)
     /\ env_run(c, cur, st, cur)
  \/ /\ ScanFindsNone(st, cur)
     /\ ~KeepsCurrent(st, cur)
     /\ ~AnyUserEnv(st)
     /\ EnterMonitor(c, st, cur)
  \/ /\ ScanFindsNone(st, cur)
     /\ ~KeepsCurrent(st, cur)
     /\ AnyUserEnv(st)
     /\ st[c] \in {"RUNNABLE", "RUNNING"}    \* otherwise panic: no idle environment
     /\ env_run(c, c, st, cur)

\* The end of trap(): back to the current environment if that makes sense.
trap_return(c, st) ==
  IF st[cpu_env[c]] = "RUNNING"
  THEN env_run(c, cpu_env[c], st, cpu_env[c])
  ELSE sched_yield(c, st, cpu_env[c])

-----------------------------------------------------------------------------
(* Steps outside the handlers.                                             *)

\* The end of i386_init on CPU 0, which holds the lock, and of mp_main on the others.
Boot(c) ==
  /\ pc[c] = "boot"
  /\ kernel_lock \in {c, NULL}
  /\ sched_yield(c, env_status, NULL)
  /\ UNCHANGED table

\* lcr3(curenv->env_cr3); env_pop_tf(): after unlock_kernel().
EnterUser(c) ==
  /\ pc[c] = "exit"
  /\ pc' = [pc EXCEPT ![c] = "user"]
  /\ UNCHANGED <<table, env_status, cpu_env, kernel_lock>>

\* spin_lock(&kernel_lock): the xchg loop ends when the lock is free.
lock_kernel(c) == kernel_lock = NULL /\ kernel_lock' = c

\* A trap from user mode: lock_kernel() at the head of trap().
Trap(c) ==
  /\ pc[c] = "user"
  /\ lock_kernel(c)
  /\ pc' = [pc EXCEPT ![c] = "kernel"]
  /\ UNCHANGED <<table, env_status, cpu_env>>

\* The monitor loop never gives the CPU back; a CPU that ran past the table is lost.
Stopped(c) == pc[c] \in {"monitor", "wild"} /\ UNCHANGED vars

-----------------------------------------------------------------------------
(* Handlers, with the lock held.                                           *)

InKernel(c) == pc[c] = "kernel"
Dispatch(c) == InKernel(c) /\ env_status[cpu_env[c]] # "DYING"
UserDispatch(c) == Dispatch(c) /\ ~IsIdle(cpu_env[c])

\* env_free on the table: the slot is FREE, at the head of the list.  Its
\* children keep a parent id that no longer names a live environment.
Freed(e) == [env_status EXCEPT ![e] = "FREE"]
env_free(e) ==
  /\ env_free_list' = <<e>> \o env_free_list
  /\ orphan' = [x \in Env |-> orphan[x] \/ env_parent_id[x] = IdOf(e)]
  /\ UNCHANGED <<env_id, env_parent_id, env_ipc_recving, started>>

env_destroy(c, e) ==
  LET dying == env_status[e] = "RUNNING" /\ cpu_env[c] # e
  IN  \/ /\ dying
         /\ trap_return(c, [env_status EXCEPT ![e] = "DYING"])
         /\ UNCHANGED table
      \/ /\ ~dying /\ cpu_env[c] # e
         /\ env_free(e)
         /\ trap_return(c, Freed(e))
      \/ /\ ~dying /\ cpu_env[c] = e
         /\ env_free(e)
         /\ sched_yield(c, Freed(e), NULL)

\* trap() collects a current environment that another CPU marked DYING.
CollectZombie(c) ==
  /\ InKernel(c)
  /\ env_status[cpu_env[c]] = "DYING"
  /\ env_free(cpu_env[c])
  /\ sched_yield(c, Freed(cpu_env[c]), NULL)

\* The timer interrupt, another IRQ and sys_yield all call sched_yield.
Yield(c) ==
  /\ Dispatch(c)
  /\ sched_yield(c, env_status, cpu_env[c])
  /\ UNCHANGED table

\* A divide error, a page fault without an upcall or an unexpected trap.
Fault(c) == UserDispatch(c) /\ env_destroy(c, cpu_env[c])

\* The slot envid names, or NULL for -E_BAD_ENV.
envid2env(c, envid, checkperm) ==
  LET e == envid[1]
  IN  IF envid = Self THEN cpu_env[c]
      ELSE IF env_status[e] = "FREE" \/ env_id[e] # envid[2] THEN NULL
      ELSE IF checkperm /\ e # cpu_env[c] /\ env_parent_id[e] # IdOf(cpu_env[c]) THEN NULL
      ELSE e

\* A system call that fails, or that changes nothing of this module.
Fails(c) ==
  /\ trap_return(c, env_status)
  /\ UNCHANGED table

sys_env_destroy(c, envid) ==
  LET e == envid2env(c, envid, TRUE)
  IN  /\ UserDispatch(c)
      /\ IF e = NULL THEN Fails(c) ELSE env_destroy(c, e)

\* Mutants of NextGeneration: a step of two generations; no step for a used slot.
NextGenerationByTwo(g) == g + 2
NextGenerationKept(g) == IF g = 0 THEN 1 ELSE g
NextGeneration(g) == IF g + 1 > GenLimit THEN 1 ELSE g + 1

\* Bound: no slot is used more than MaxGen times, unless its ids wrap before.
GenBounded(e) == env_id[e] < MaxGen \/ GenLimit <= MaxGen

\* Mutant of FreeListPopped: env_alloc does not commit the allocation.
FreeListNotPopped(l) == l
\* The list after env_alloc took its head: env_free_list = e->env_link.
FreeListPopped(l) == Tail(l)

\* sys_exofork: env_alloc of the head of the list, then NOT_RUNNABLE.
ExoforkOk(c) ==
  LET e == Head(env_free_list)
  IN  /\ UserDispatch(c)
      /\ env_free_list # <<>>
      /\ GenBounded(e)
      /\ env_free_list' = FreeListPopped(env_free_list)
      /\ env_id' = [env_id EXCEPT ![e] = NextGeneration(@)]
      /\ env_parent_id' = [env_parent_id EXCEPT ![e] = IdOf(cpu_env[c])]
      /\ env_ipc_recving' = [env_ipc_recving EXCEPT ![e] = FALSE]
      /\ orphan' = [orphan EXCEPT ![e] = FALSE]
      /\ started' = [started EXCEPT ![e] = FALSE]
      /\ trap_return(c, [env_status EXCEPT ![e] = "NOT_RUNNABLE"])

\* env_alloc fails: no free slot, or env_setup_vm is out of memory.
ExoforkFails(c) == UserDispatch(c) /\ Fails(c)

sys_exofork(c) == ExoforkOk(c) \/ ExoforkFails(c)

sys_env_set_status(c, envid, status) ==
  LET e == envid2env(c, envid, TRUE)
  IN  /\ UserDispatch(c)
      /\ IF e = NULL THEN Fails(c)
         ELSE /\ started' = [started EXCEPT ![e] = @ \/ status = "RUNNABLE"]
              /\ trap_return(c, [env_status EXCEPT ![e] = status])
              /\ UNCHANGED <<env_id, env_parent_id, env_ipc_recving, env_free_list, orphan>>

\* Blocks: the caller is not RUNNING any more when trap() ends.
sys_ipc_recv(c) ==
  LET e == cpu_env[c]
  IN  /\ UserDispatch(c)
      /\ env_ipc_recving' = [env_ipc_recving EXCEPT ![e] = TRUE]
      /\ trap_return(c, [env_status EXCEPT ![e] = "NOT_RUNNABLE"])
      /\ UNCHANGED <<env_id, env_parent_id, env_free_list, started, orphan>>

\* Mutant of RecvDone: the flag is left set, "to block future sends" is forgotten.
RecvDoneKept(dst) == env_ipc_recving
RecvDone(dst) == [env_ipc_recving EXCEPT ![dst] = FALSE]

\* pageOk is FALSE when the page transfer fails, after env_ipc_recving is
\* cleared: srcva has no page table, or page_insert is out of memory.
sys_ipc_try_send(c, envid, pageOk) ==
  LET dst == envid2env(c, envid, FALSE)
  IN  /\ UserDispatch(c)
      /\ IF dst = NULL \/ ~env_ipc_recving[dst] THEN Fails(c)
         ELSE /\ env_ipc_recving' = RecvDone(dst)
              /\ trap_return(c, IF pageOk THEN [env_status EXCEPT ![dst] = "RUNNABLE"]
                                ELSE env_status)
              /\ UNCHANGED <<env_id, env_parent_id, env_free_list, started, orphan>>

-----------------------------------------------------------------------------
(* LibNext is the kernel under the callers of lib/ and user/: fork and     *)
(* spawn make RUNNABLE only the child they have just created, and nothing  *)
(* destroys an environment that is already dying.  The kernel does not     *)
(* impose this; AnyStatusNext lifts the first restriction.                 *)

EnvIds == Env \X (1 .. MaxGen) \cup {Self}

SchedSteps(c) ==
  \/ Boot(c) \/ EnterUser(c) \/ Trap(c) \/ Stopped(c) \/ Yield(c) \/ sys_ipc_recv(c)
  \/ \E envid \in EnvIds : sys_ipc_try_send(c, envid, TRUE)

Steps(c) ==
  \/ SchedSteps(c) \/ CollectZombie(c) \/ Fault(c) \/ sys_exofork(c)
  \/ \E envid \in EnvIds : sys_ipc_try_send(c, envid, FALSE)

AnySetStatus(c) ==
  \E envid \in EnvIds, status \in {"RUNNABLE", "NOT_RUNNABLE"} :
    sys_env_set_status(c, envid, status)

LibDestroy(c) ==
  \E envid \in EnvIds :
    /\ UserDispatch(c)
    /\ LET e == envid2env(c, envid, TRUE) IN e # NULL => env_status[e] # "DYING"
    /\ sys_env_destroy(c, envid)

LibSetStatus(c) ==
  \E envid \in EnvIds :
    /\ UserDispatch(c)
    /\ LET e == envid2env(c, envid, TRUE) IN e # NULL => ~started[e]
    /\ sys_env_set_status(c, envid, "RUNNABLE")

LibNext == \E c \in CPU : Steps(c) \/ LibDestroy(c) \/ LibSetStatus(c)
AnyStatusNext == \E c \in CPU : Steps(c) \/ LibDestroy(c) \/ AnySetStatus(c)
SchedNext == \E c \in CPU : SchedSteps(c)

LibSpec == Init /\ [][LibNext]_vars
AnyStatusSpec == Init /\ [][AnyStatusNext]_vars

(* Some CPU always makes progress, and timer interrupts keep arriving:     *)
(* infinitely often some CPU in the kernel takes the Yield branch.  Nothing*)
(* is assumed of which CPU wins the (unfair) spinlock.                     *)
TimerTicks == SF_vars(\E c \in CPU : Yield(c))
FairSchedSpec == Init /\ [][SchedNext]_vars /\ WF_vars(SchedNext) /\ TimerTicks

-----------------------------------------------------------------------------
(* Correctness.                                                            *)

TypeOK ==
  /\ env_status \in [Env -> Status]
  /\ env_id \in [Env -> 0 .. MaxGen]
  /\ env_parent_id \in [Env -> EnvId]
  /\ env_ipc_recving \in [Env -> BOOLEAN]
  /\ env_free_list \in Seq(Env)
  /\ cpu_env \in [CPU -> Env \cup {NULL}]
  /\ kernel_lock \in CPU \cup {NULL}
  /\ pc \in [CPU -> Pc]
  /\ started \in [Env -> BOOLEAN]
  /\ orphan \in [Env -> BOOLEAN]

\* A CPU that runs, or is about to run, or has trapped from an environment.
OnCpu(c) == pc[c] \in {"user", "kernel", "exit"}

\* sched_yield never gives one environment to two CPUs, and what a CPU runs
\* (also between unlock_kernel() and iret in env_run) is never freed or
\* blocked under it by another CPU: it is RUNNING, or DYING until its next trap.
RunsOnOneCpu ==
  /\ \A c \in CPU : OnCpu(c) => /\ cpu_env[c] # NULL
                                /\ env_status[cpu_env[c]] \in {"RUNNING", "DYING"}
  /\ \A c, d \in CPU : OnCpu(c) /\ OnCpu(d) /\ cpu_env[c] = cpu_env[d] => c = d

\* A RUNNING or DYING environment is on some CPU, which will reschedule or
\* free it: env_run and env_destroy leave no such status behind.
RunningHasCpu ==
  \A e \in Env : env_status[e] \in {"RUNNING", "DYING"} =>
    \E c \in CPU : OnCpu(c) /\ cpu_env[c] = e

\* env_free_list holds exactly the FREE slots, each once, through every
\* interleaving of env_alloc, env_free and the delayed free of zombies.
FreeListExact ==
  /\ \A e \in Env : env_status[e] = "FREE" <=> \E i \in DOMAIN env_free_list : env_free_list[i] = e
  /\ \A i, j \in DOMAIN env_free_list : env_free_list[i] = env_free_list[j] => i = j

\* env_ipc_recving is set only while its owner sleeps (or in a slot that was
\* freed asleep), so the blind env_status = ENV_RUNNABLE of sys_ipc_try_send
\* can neither run an environment twice nor revive a zombie.
RecvingSleeps ==
  \A e \in Env : env_ipc_recving[e] => env_status[e] \in {"NOT_RUNNABLE", "FREE"}

\* The permission check of envid2env never accepts a stranger: an
\* environment whose creator is gone has a parent id no live slot carries.
ParentIdNotStale ==
  \A e, p \in Env :
    env_status[e] # "FREE" /\ env_status[p] # "FREE" /\ env_parent_id[e] = IdOf(p) => ~orphan[e]

\* Only the idle CPU's own scheduler runs its idle environment, which is
\* therefore always there for sched_yield's last resort (no panic).
IdleReady ==
  \A c \in CPU : /\ env_status[c] \in {"RUNNABLE", "RUNNING"}
                 /\ \A d \in CPU : OnCpu(d) /\ cpu_env[d] = c => d = c

\* The second half of RunsOnOneCpu, which sched.c states as "Never choose an
\* environment that's currently running on another CPU".
NeverTwoCpus ==
  \A c, d \in CPU : OnCpu(c) /\ OnCpu(d) /\ cpu_env[c] = cpu_env[d] => c = d

\* Whoever sleeps in sys_ipc_recv can still be sent to: a failed
\* sys_ipc_try_send leaves its target as it was.
SleeperCanBeSentTo ==
  \A e \in Env : env_status[e] = "NOT_RUNNABLE" /\ started[e] => env_ipc_recving[e]

\* A yielding CPU switches to the first runnable user environment in circular
\* order after the one it was running, whenever there is one.
Distance(a, b) == (b - a - 1) % NENV
YieldTakesNext ==
  [][\A c \in CPU, e \in Env : Yield(c) /\ Eligible(env_status, e) =>
       /\ cpu_env'[c] # NULL
       /\ Eligible(env_status, cpu_env'[c])
       /\ Distance(cpu_env[c], cpu_env'[c]) <= Distance(cpu_env[c], e)]_vars

\* While nobody exits, the round robin of sched_yield starves nobody: a
\* runnable user environment gets a CPU.
RunnableRuns ==
  \A e \in NCPU .. NENV - 1 : env_status[e] = "RUNNABLE" ~> env_status[e] # "RUNNABLE"
=============================================================================
