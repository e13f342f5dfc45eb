----------------------------- MODULE EnvProofs -----------------------------
(***************************************************************************)
(* Proofs about module Env for any number of CPUs and environments: the    *)
(* table, the scheduler and the blocking IPC keep their invariants under   *)
(* the callers of lib/ (LibSpec).                                          *)
(*                                                                         *)
(* Every handler ends in the scheduler, so the argument is in two parts.   *)
(* Sane says what a handler hands to the scheduler (the status table st it *)
(* leaves and the current environment cur it still has); the lemma         *)
(* SchedulerOutcome shows that from there sched_yield and trap_return      *)
(* reach a state that is correct for every CPU.  Each action then only has *)
(* to establish Sane and to look after the parts of the table it writes.   *)
(***************************************************************************)
EXTENDS Env, TLAPS

Live == {"RUNNABLE", "RUNNING"}

\* The scheduler only moves an environment between RUNNABLE and RUNNING.
SameKind(a, b) == a = b \/ (a \in Live /\ b \in Live)

\* Only the holder of the lock is in the kernel; a CPU that boots runs nothing.
LockInv ==
  \A c \in CPU : /\ pc[c] \in {"kernel", "monitor"} => kernel_lock = c
                 /\ pc[c] = "boot" => cpu_env[c] = NULL

\* A child its creator has not started sleeps, and not in sys_ipc_recv.
StartedInv ==
  \A e \in Env : ~started[e] =>
    /\ env_status[e] \in {"NOT_RUNNABLE", "FREE"}
    /\ env_status[e] = "NOT_RUNNABLE" => ~env_ipc_recving[e]

\* i386_init created the idle environments: no environment is their parent, so
\* the permission check of envid2env keeps them out of reach.
IdleParent == \A c \in CPU : env_parent_id[c] = Self

CpuInv == RunsOnOneCpu /\ RunningHasCpu /\ IdleReady /\ LockInv
IInv == TypeOK /\ CpuInv /\ FreeListExact /\ RecvingSleeps /\ StartedInv /\ IdleParent

\* What a handler on CPU c hands to the scheduler.
Sane(c, st, cur) ==
  /\ st \in [Env -> Status]
  /\ cur \in Env \cup {NULL}
  /\ cur # NULL => st[cur] # "DYING"
  /\ \A d \in CPU : /\ d # c => pc[d] \notin {"kernel", "monitor"}
                    /\ d # c /\ pc[d] = "boot" => cpu_env[d] = NULL
  /\ \A d \in CPU : d # c /\ OnCpu(d) =>
       /\ cpu_env[d] \in Env /\ cpu_env[d] # cur
       /\ st[cpu_env[d]] \in {"RUNNING", "DYING"}
  /\ \A d, f \in CPU :
       d # c /\ f # c /\ OnCpu(d) /\ OnCpu(f) /\ cpu_env[d] = cpu_env[f] => d = f
  /\ \A e \in Env : st[e] \in {"RUNNING", "DYING"} =>
       e = cur \/ \E d \in CPU : d # c /\ OnCpu(d) /\ cpu_env[d] = e
  /\ \A x \in CPU : /\ st[x] \in Live
                    /\ cur = x => x = c
                    /\ \A d \in CPU : d # c /\ OnCpu(d) /\ cpu_env[d] = x => d = x

CpuTypes ==
  /\ env_status \in [Env -> Status]
  /\ cpu_env \in [CPU -> Env \cup {NULL}]
  /\ kernel_lock \in CPU \cup {NULL}
  /\ pc \in [CPU -> Pc]

\* An environment that env_run may be given.
Runnable(c, e, st, cur) ==
  /\ e \in Env
  /\ \/ st[e] = "RUNNABLE" /\ ~IsIdle(e)
     \/ e = cur /\ st[e] = "RUNNING"
     \/ e = c

\* What the scheduler leaves, when it was given the status table st.
Outcome(st) == /\ CpuTypes' /\ CpuInv'
               /\ \A x \in Env : SameKind(st[x], env_status'[x])

\* The rest of the type invariant and of IInv, over a status table st, a free
\* list l, and the flags r (receiving) and s (started).
TableInv ==
  /\ IdleParent
  /\ env_id \in [Env -> 0 .. MaxGen]
  /\ env_parent_id \in [Env -> EnvId]
  /\ env_ipc_recving \in [Env -> BOOLEAN]
  /\ env_free_list \in Seq(Env)
  /\ started \in [Env -> BOOLEAN]
  /\ orphan \in [Env -> BOOLEAN]

ListExact(st, l) ==
  /\ \A e \in Env : st[e] = "FREE" <=> \E i \in DOMAIN l : l[i] = e
  /\ \A i, j \in DOMAIN l : l[i] = l[j] => i = j

Sleeping(st, r, s) ==
  \A e \in Env :
    /\ r[e] => st[e] \in {"NOT_RUNNABLE", "FREE"}
    /\ ~s[e] => /\ st[e] \in {"NOT_RUNNABLE", "FREE"}
                /\ st[e] = "NOT_RUNNABLE" => ~r[e]

\* The CPUs index their idle environments in envs[], and NULL is neither.
LEMMA Slots == CPU \subseteq Env /\ NULL \notin Env /\ NULL \notin CPU
  BY EnvAssumption DEF CPU, Env, NULL

\* env_run of a runnable environment, or of the current one, ends a handler well.
LEMMA EnvRunOutcome ==
  ASSUME NEW c \in CPU, NEW st, NEW cur, NEW e, CpuTypes, Sane(c, st, cur),
         Runnable(c, e, st, cur), env_run(c, e, st, cur)
  PROVE  Outcome(st)
  <1> USE Slots
  <1>1. e \in Env /\ st[e] \in Live
    BY DEF Runnable, Sane, Live
  <1>2. \A d \in CPU : d # c /\ OnCpu(d) => cpu_env[d] # e
    BY DEF Runnable, Sane
  <1>3. env_status' = [x \in Env |-> IF x = e THEN "RUNNING"
                                     ELSE IF x = cur /\ st[x] = "RUNNING" THEN "RUNNABLE"
                                     ELSE st[x]]
    BY DEF env_run, Descheduled
  <1>4. \A x \in Env : SameKind(st[x], env_status'[x])
    BY <1>1, <1>3 DEF SameKind, Live
  <1>5. CpuTypes'
    <2>1. env_status' \in [Env -> Status]
      BY <1>3 DEF Sane, Status
    <2>2. cpu_env' \in [CPU -> Env \cup {NULL}] /\ kernel_lock' = NULL
      BY <1>1 DEF CpuTypes, env_run
    <2>3. pc' \in [CPU -> Pc]
      BY DEF CpuTypes, env_run, Pc
    <2>4. QED
      BY <2>1, <2>2, <2>3 DEF CpuTypes
  <1>6. \A d \in CPU : d # c => pc'[d] = pc[d] /\ cpu_env'[d] = cpu_env[d]
    BY DEF CpuTypes, env_run
  <1>7. pc'[c] = "exit" /\ cpu_env'[c] = e
    BY DEF CpuTypes, env_run
  <1>8. RunsOnOneCpu'
    BY <1>1, <1>2, <1>3, <1>6, <1>7 DEF RunsOnOneCpu, OnCpu, Sane
  <1>9. RunningHasCpu'
    BY <1>1, <1>2, <1>3, <1>6, <1>7 DEF RunningHasCpu, OnCpu, Sane
  <1>10. IdleReady'
    <2>1. \A x \in CPU : env_status'[x] \in {"RUNNABLE", "RUNNING"}
      BY <1>3 DEF Sane, Live
    <2>2. \A x \in CPU : e = x => x = c
      BY EnvAssumption DEF Runnable, Sane, IsIdle, CPU
    <2>3. QED
      BY <1>6, <1>7, <2>1, <2>2 DEF IdleReady, OnCpu, Sane
  <1>11. LockInv'
    BY <1>6, <1>7 DEF LockInv, Sane
  <1>12. QED
    BY <1>4, <1>5, <1>8, <1>9, <1>10, <1>11 DEF CpuInv, Outcome

\* The same for a CPU that stops in the monitor or beyond the table.
LEMMA StoppedOutcome ==
  ASSUME NEW c \in CPU, NEW st, NEW cur, CpuTypes, Sane(c, st, cur),
         env_status' = [x \in Env |-> IF x = cur /\ st[x] = "RUNNING" THEN "RUNNABLE"
                                      ELSE st[x]],
         \A d \in CPU : d # c => pc'[d] = pc[d] /\ cpu_env'[d] = cpu_env[d],
         \/ EnterMonitor(c, st, cur)
         \/ RunPastTable(c, st, cur)
  PROVE  Outcome(st)
  <1> USE Slots
  <1>1. \/ pc'[c] = "monitor" /\ kernel_lock' = c
        \/ pc'[c] = "wild" /\ kernel_lock' = NULL
    BY DEF CpuTypes, EnterMonitor, RunPastTable
  <1>2. \A x \in Env : SameKind(st[x], env_status'[x])
    BY DEF SameKind, Live
  <1>3. CpuTypes'
    <2>1. env_status' \in [Env -> Status]
      BY DEF Sane, Status
    <2>2. cpu_env' \in [CPU -> Env \cup {NULL}]
      BY DEF CpuTypes, EnterMonitor, RunPastTable, Sane
    <2>3. pc' \in [CPU -> Pc]
      BY DEF CpuTypes, EnterMonitor, RunPastTable, Pc
    <2>4. QED
      BY <1>1, <2>1, <2>2, <2>3 DEF CpuTypes
  <1>4. RunsOnOneCpu'
    BY <1>1 DEF RunsOnOneCpu, OnCpu, Sane
  <1>5. RunningHasCpu'
    BY <1>1 DEF RunningHasCpu, OnCpu, Sane
  <1>6. IdleReady'
    BY <1>1 DEF IdleReady, OnCpu, Sane, Live
  <1>7. LockInv'
    BY <1>1 DEF LockInv, Sane
  <1>8. QED
    BY <1>2, <1>3, <1>4, <1>5, <1>6, <1>7 DEF CpuInv, Outcome

\* Every exit of sched_yield ends a handler well: the scan, the current
\* environment, the monitor and the idle environment.
LEMMA SchedYieldOutcome ==
  ASSUME NEW c \in CPU, NEW st, NEW cur, CpuTypes, Sane(c, st, cur),
         sched_yield(c, st, cur)
  PROVE  Outcome(st)
  <1> USE Slots
  <1>1. ASSUME NEW j \in 1 .. NENV - 1,
               ScanPicks(st, cur, j), env_run(c, Scanned(cur, j), st, cur)
        PROVE  Outcome(st)
    <2>1. Scanned(cur, j) \in Env
      BY EnvAssumption DEF Sane, Scanned, ScanStart, Env, NULL
    <2>2. Runnable(c, Scanned(cur, j), st, cur)
      BY <1>1, <2>1 DEF Runnable, ScanPicks, Eligible
    <2>3. QED
      BY <1>1, <2>2, EnvRunOutcome
  <1>2. ASSUME RunPastTable(c, st, cur)
        PROVE  Outcome(st)
    <2>1. env_status' = [x \in Env |-> IF x = cur /\ st[x] = "RUNNING" THEN "RUNNABLE"
                                       ELSE st[x]]
      BY <1>2 DEF RunPastTable, Descheduled
    <2>2. \A d \in CPU : d # c => pc'[d] = pc[d] /\ cpu_env'[d] = cpu_env[d]
      BY <1>2 DEF CpuTypes, RunPastTable
    <2>3. pc'[c] = "wild" /\ cpu_env'[c] = NULL /\ kernel_lock' = NULL
      BY <1>2 DEF CpuTypes, RunPastTable
    <2>4. QED
      BY <1>2, <2>1, <2>2, <2>3, StoppedOutcome
  <1>3. ASSUME KeepsCurrent(st, cur), env_run(c, cur, st, cur)
        PROVE  Outcome(st)
    <2>1. Runnable(c, cur, st, cur)
      BY <1>3 DEF Runnable, KeepsCurrent, Sane
    <2>2. QED
      BY <1>3, <2>1, EnvRunOutcome
  <1>4. ASSUME ~KeepsCurrent(st, cur), EnterMonitor(c, st, cur)
        PROVE  Outcome(st)
    <2>1. env_status' = [x \in Env |-> IF x = cur /\ st[x] = "RUNNING" THEN "RUNNABLE"
                                       ELSE st[x]]
      BY <1>4 DEF EnterMonitor, KeepsCurrent, Sane
    <2>2. \A d \in CPU : d # c => pc'[d] = pc[d] /\ cpu_env'[d] = cpu_env[d]
      BY <1>4 DEF CpuTypes, EnterMonitor
    <2>3. pc'[c] = "monitor" /\ cpu_env'[c] = cur /\ kernel_lock' = c
      BY <1>4 DEF CpuTypes, EnterMonitor
    <2>4. QED
      BY <1>4, <2>1, <2>2, <2>3, StoppedOutcome
  <1>5. ASSUME env_run(c, c, st, cur)
        PROVE  Outcome(st)
    <2>1. Runnable(c, c, st, cur)
      BY DEF Runnable
    <2>2. QED
      BY <1>5, <2>1, EnvRunOutcome
  <1>6. QED
    BY <1>1, <1>2, <1>3, <1>4, <1>5 DEF sched_yield

\* Every handler ends in sched_yield, or in the end of trap() with its curenv.
Ends(c, st, cur) ==
  \/ sched_yield(c, st, cur)
  \/ cur # NULL /\ cur = cpu_env[c] /\ trap_return(c, st)

\* The two ways a handler ends: trap_return and sched_yield.
LEMMA SchedulerOutcome ==
  ASSUME NEW c \in CPU, NEW st, NEW cur, CpuTypes, Sane(c, st, cur), Ends(c, st, cur)
  PROVE  Outcome(st)
  <1>1. CASE sched_yield(c, st, cur)
    BY <1>1, SchedYieldOutcome
  <1>2. CASE cur # NULL /\ st[cur] = "RUNNING" /\ env_run(c, cur, st, cur)
    <2>1. Runnable(c, cur, st, cur)
      BY <1>2 DEF Runnable, Sane
    <2>2. QED
      BY <1>2, <2>1, EnvRunOutcome
  <1>3. QED
    BY <1>1, <1>2 DEF Ends, trap_return

\* A handler keeps the invariant if it hands the scheduler a sane table and
\* leaves the free list and the flags right for that table.
LEMMA HandlerKeeps ==
  ASSUME NEW c \in CPU, NEW st, NEW cur, CpuTypes, Sane(c, st, cur), Ends(c, st, cur),
         TableInv', ListExact(st, env_free_list'),
         Sleeping(st, env_ipc_recving', started')
  PROVE  IInv'
  <1>1. Outcome(st)
    BY SchedulerOutcome
  <1>2. \A x \in Env : /\ env_status'[x] = "FREE" <=> st[x] = "FREE"
                       /\ env_status'[x] = "NOT_RUNNABLE" <=> st[x] = "NOT_RUNNABLE"
    BY <1>1 DEF Outcome, SameKind, Live
  <1>3. TypeOK'
    BY <1>1 DEF Outcome, CpuTypes, TableInv, TypeOK
  <1>4. FreeListExact'
    BY <1>2 DEF ListExact, FreeListExact
  <1>5. RecvingSleeps' /\ StartedInv'
    BY <1>2 DEF Sleeping, RecvingSleeps, StartedInv
  <1>6. QED
    BY <1>1, <1>3, <1>4, <1>5 DEF Outcome, IInv, TableInv

\* The conjuncts of the inductive invariant.
LEMMA Parts ==
  ASSUME IInv
  PROVE  /\ CpuTypes /\ TableInv /\ ListExact(env_status, env_free_list)
         /\ Sleeping(env_status, env_ipc_recving, started)
  BY DEF IInv, TypeOK, CpuTypes, TableInv, ListExact, FreeListExact, Sleeping,
         RecvingSleeps, StartedInv

\* In the kernel on CPU c: what a handler may do to the status table.
LEMMA KernelSane ==
  ASSUME NEW c \in CPU, pc[c] = "kernel", TypeOK, CpuInv,
         NEW st \in [Env -> Status], NEW cur \in {cpu_env[c], NULL},
         cur # NULL => st[cur] # "DYING",
         \A e \in Env : st[e] \in {"RUNNING", "DYING"} =>
            env_status[e] \in {"RUNNING", "DYING"} /\ (e = cpu_env[c] => e = cur),
         \A e \in Env : env_status[e] \in {"RUNNING", "DYING"} /\ e # cpu_env[c] =>
            st[e] \in {"RUNNING", "DYING"},
         \A x \in CPU : st[x] \in Live
  PROVE  Sane(c, st, cur)
  <1> USE Slots
  <1>1. cpu_env[c] \in Env /\ OnCpu(c) /\ kernel_lock = c
    BY DEF TypeOK, CpuInv, RunsOnOneCpu, OnCpu, LockInv
  <1>2. \A d \in CPU : /\ d # c => pc[d] \notin {"kernel", "monitor"}
                       /\ d # c /\ pc[d] = "boot" => cpu_env[d] = NULL
    BY <1>1 DEF CpuInv, LockInv
  <1>3. \A d \in CPU : d # c /\ OnCpu(d) =>
          /\ cpu_env[d] \in Env /\ cpu_env[d] # cpu_env[c]
          /\ env_status[cpu_env[d]] \in {"RUNNING", "DYING"}
    BY <1>1 DEF TypeOK, CpuInv, RunsOnOneCpu
  <1>4. \A d, f \in CPU :
          d # c /\ f # c /\ OnCpu(d) /\ OnCpu(f) /\ cpu_env[d] = cpu_env[f] => d = f
    BY DEF CpuInv, RunsOnOneCpu
  <1>5. \A e \in Env : st[e] \in {"RUNNING", "DYING"} =>
          e = cur \/ \E d \in CPU : d # c /\ OnCpu(d) /\ cpu_env[d] = e
    BY DEF CpuInv, RunningHasCpu
  <1>6. \A x \in CPU : /\ cur = x => x = c
                       /\ \A d \in CPU : d # c /\ OnCpu(d) /\ cpu_env[d] = x => d = x
    BY <1>1 DEF CpuInv, IdleReady
  <1>7. QED
    BY <1>1, <1>2, <1>3, <1>4, <1>5, <1>6 DEF Sane

\* The two updates of the free list.
LEMMA Pushed ==
  ASSUME NEW l \in Seq(Env), NEW e \in Env
  PROVE  /\ <<e>> \o l \in Seq(Env)
         /\ DOMAIN (<<e>> \o l) = 1 .. Len(l) + 1
         /\ DOMAIN l = 1 .. Len(l) /\ Len(l) \in Nat
         /\ (<<e>> \o l)[1] = e
         /\ \A i \in 1 .. Len(l) : (<<e>> \o l)[i + 1] = l[i]
  OBVIOUS

\* env_free puts a slot that was not FREE at the head of env_free_list.
LEMMA PushExact ==
  ASSUME NEW st \in [Env -> Status], NEW l \in Seq(Env), NEW e \in Env,
         ListExact(st, l), st[e] # "FREE"
  PROVE  ListExact([st EXCEPT ![e] = "FREE"], <<e>> \o l)
  <1> DEFINE m == <<e>> \o l
             t == [st EXCEPT ![e] = "FREE"]
  <1>1. /\ DOMAIN m = 1 .. Len(l) + 1 /\ m[1] = e
        /\ DOMAIN l = 1 .. Len(l) /\ Len(l) \in Nat
        /\ \A i \in 1 .. Len(l) : m[i + 1] = l[i]
    BY Pushed
  <1> HIDE DEF m
  <1>2. \A i \in 2 .. Len(l) + 1 : i - 1 \in DOMAIN l /\ m[i] = l[i - 1]
    BY <1>1
  <1>3. \A i \in DOMAIN l : i + 1 \in DOMAIN m /\ m[i + 1] = l[i] /\ l[i] # e
    BY <1>1 DEF ListExact
  <1>4. \A x \in Env : t[x] = "FREE" <=> \E i \in DOMAIN m : m[i] = x
    <2>1. ASSUME NEW x \in Env, t[x] = "FREE" PROVE \E i \in DOMAIN m : m[i] = x
      BY <2>1, <1>1, <1>3 DEF ListExact
    <2>2. ASSUME NEW x \in Env, NEW i \in DOMAIN m, m[i] = x PROVE t[x] = "FREE"
      <3>1. CASE i = 1
        BY <2>2, <3>1, <1>1
      <3>2. CASE i # 1
        <4>1. i - 1 \in DOMAIN l /\ l[i - 1] = x
          BY <2>2, <3>2, <1>1, <1>2
        <4>2. st[x] = "FREE"
          BY <4>1 DEF ListExact
        <4>3. QED
          BY <4>2
      <3>3. QED
        BY <3>1, <3>2
    <2>3. QED
      BY <2>1, <2>2
  <1>5. \A i, j \in DOMAIN m : m[i] = m[j] => i = j
    <2>1. SUFFICES ASSUME NEW i \in DOMAIN m, NEW j \in DOMAIN m, m[i] = m[j]
                   PROVE  i = j
      OBVIOUS
    <2>2. CASE i = 1 /\ j = 1
      BY <2>2
    <2>3. CASE i = 1 /\ j # 1
      BY <2>1, <2>3, <1>1, <1>2, <1>3
    <2>4. CASE i # 1 /\ j = 1
      BY <2>1, <2>4, <1>1, <1>2, <1>3
    <2>5. CASE i # 1 /\ j # 1
      <3>1. i - 1 \in DOMAIN l /\ j - 1 \in DOMAIN l /\ l[i - 1] = l[j - 1]
        BY <2>1, <2>5, <1>1, <1>2
      <3>2. i - 1 = j - 1
        BY <3>1 DEF ListExact
      <3>3. QED
        BY <3>2, <1>1
    <2>6. QED
      BY <2>2, <2>3, <2>4, <2>5
  <1>6. QED
    BY <1>4, <1>5 DEF ListExact, m

\* env_alloc takes the head of env_free_list out of the FREE slots.
LEMMA PopExact ==
  ASSUME NEW st \in [Env -> Status], NEW l \in Seq(Env), l # <<>>, ListExact(st, l),
         NEW s \in Status, s # "FREE"
  PROVE  /\ Head(l) \in Env /\ st[Head(l)] = "FREE" /\ Tail(l) \in Seq(Env)
         /\ ListExact([st EXCEPT ![Head(l)] = s], Tail(l))
  <1> DEFINE m == Tail(l)
             t == [st EXCEPT ![Head(l)] = s]
  <1>1. /\ Head(l) = l[1] /\ 1 \in DOMAIN l /\ Head(l) \in Env /\ m \in Seq(Env)
        /\ DOMAIN l = 1 .. Len(l) /\ Len(l) \in Nat /\ DOMAIN m = 1 .. Len(l) - 1
        /\ \A i \in DOMAIN m : m[i] = l[i + 1]
    OBVIOUS
  <1> HIDE DEF m
  <1>2. \A i \in DOMAIN m : i + 1 \in DOMAIN l /\ m[i] = l[i + 1] /\ m[i] # l[1]
    BY <1>1 DEF ListExact
  <1>3. \A i \in DOMAIN l : i # 1 => i - 1 \in DOMAIN m /\ m[i - 1] = l[i]
    BY <1>1
  <1>4. st[Head(l)] = "FREE"
    BY <1>1 DEF ListExact
  <1>5. \A x \in Env : t[x] = "FREE" <=> \E i \in DOMAIN m : m[i] = x
    <2>1. ASSUME NEW x \in Env, t[x] = "FREE" PROVE \E i \in DOMAIN m : m[i] = x
      BY <2>1, <1>1, <1>3 DEF ListExact
    <2>2. ASSUME NEW x \in Env, NEW i \in DOMAIN m, m[i] = x PROVE t[x] = "FREE"
      BY <2>2, <1>1, <1>2 DEF ListExact
    <2>3. QED
      BY <2>1, <2>2
  <1>6. \A i, j \in DOMAIN m : m[i] = m[j] => i = j
    <2>1. SUFFICES ASSUME NEW i \in DOMAIN m, NEW j \in DOMAIN m, m[i] = m[j]
                   PROVE  i = j
      OBVIOUS
    <2>2. i + 1 = j + 1
      BY <2>1, <1>2 DEF ListExact
    <2>3. QED
      BY <2>2, <1>1
  <1>7. QED
    BY <1>1, <1>4, <1>5, <1>6 DEF ListExact, m

\* env_free of an environment that is not free, by a handler that then ends.
LEMMA EnvFreeKeeps ==
  ASSUME NEW c \in CPU, NEW e \in Env, NEW cur, IInv, env_status[e] # "FREE",
         env_free(e), Sane(c, Freed(e), cur), Ends(c, Freed(e), cur)
  PROVE  IInv'
  <1>1. /\ CpuTypes /\ TableInv /\ ListExact(env_status, env_free_list)
        /\ Sleeping(env_status, env_ipc_recving, started)
    BY Parts
  <1>2. ListExact(Freed(e), env_free_list')
    BY <1>1, PushExact DEF env_free, Freed, CpuTypes, TableInv
  <1>3. TableInv'
    BY <1>1, Pushed DEF env_free, TableInv, IdleParent
  <1>4. Sleeping(Freed(e), env_ipc_recving', started')
    BY <1>1 DEF Sleeping, env_free, Freed, CpuTypes
  <1>5. QED
    BY <1>1, <1>2, <1>3, <1>4, HandlerKeeps

\* A handler that changes nothing of the table.
LEMMA EndKeeps ==
  ASSUME NEW c \in CPU, NEW cur, IInv, UNCHANGED table,
         Sane(c, env_status, cur), Ends(c, env_status, cur)
  PROVE  IInv'
  <1>1. /\ CpuTypes /\ TableInv /\ ListExact(env_status, env_free_list)
        /\ Sleeping(env_status, env_ipc_recving, started)
    BY Parts
  <1>2. TableInv'
    BY <1>1 DEF table, TableInv, IdleParent
  <1>3. /\ ListExact(env_status, env_free_list')
        /\ Sleeping(env_status, env_ipc_recving', started')
    BY <1>1 DEF table
  <1>4. QED
    BY <1>1, <1>2, <1>3, HandlerKeeps

\* What holds when a handler of CPU c starts.
LEMMA KernelFacts ==
  ASSUME NEW c \in CPU, IInv, pc[c] = "kernel"
  PROVE  /\ cpu_env[c] \in Env /\ cpu_env[c] # NULL
         /\ env_status[cpu_env[c]] \in {"RUNNING", "DYING"}
         /\ env_status \in [Env -> Status]
         /\ TypeOK /\ CpuInv
         /\ \A x \in CPU : x \in Env /\ env_status[x] \in Live
  BY Slots DEF IInv, TypeOK, CpuInv, RunsOnOneCpu, OnCpu, IdleReady, Live

\* A system call that returns an error keeps the invariant.
LEMMA FailsKeeps ==
  ASSUME NEW c \in CPU, IInv, Dispatch(c), Fails(c)
  PROVE  IInv'
  <1>1. Sane(c, env_status, cpu_env[c])
    BY KernelFacts, KernelSane DEF Dispatch, InKernel
  <1>2. Ends(c, env_status, cpu_env[c])
    BY KernelFacts DEF Fails, Ends, Dispatch, InKernel
  <1>3. QED
    BY <1>1, <1>2, EndKeeps DEF Fails

\* The timer interrupt and sys_yield keep the invariant.
LEMMA YieldKeeps ==
  ASSUME NEW c \in CPU, IInv, Yield(c)
  PROVE  IInv'
  <1>1. Sane(c, env_status, cpu_env[c])
    BY KernelFacts, KernelSane DEF Yield, Dispatch, InKernel
  <1>2. Ends(c, env_status, cpu_env[c])
    BY DEF Yield, Ends
  <1>3. QED
    BY <1>1, <1>2, EndKeeps DEF Yield

\* The first sched_yield of a CPU keeps the invariant.
LEMMA BootKeeps ==
  ASSUME NEW c \in CPU, IInv, Boot(c)
  PROVE  IInv'
  <1>1. Sane(c, env_status, NULL)
    BY Slots DEF Boot, IInv, TypeOK, CpuInv, RunsOnOneCpu, RunningHasCpu, IdleReady,
                 LockInv, OnCpu, Sane, Live
  <1>2. Ends(c, env_status, NULL)
    BY DEF Boot, Ends
  <1>3. QED
    BY <1>1, <1>2, EndKeeps DEF Boot

\* Freeing the current environment (cur = NULL), or another that no CPU runs.
LEMMA FreeSane ==
  ASSUME NEW c \in CPU, NEW e \in Env, NEW cur, IInv, InKernel(c), e \notin CPU,
         \/ e = cpu_env[c] /\ cur = NULL
         \/ /\ e # cpu_env[c] /\ env_status[e] \notin {"RUNNING", "DYING"}
            /\ cur = cpu_env[c] /\ env_status[cur] # "DYING"
  PROVE  Sane(c, Freed(e), cur)
  <1>1. Freed(e) \in [Env -> Status]
    BY KernelFacts DEF Freed, Status, InKernel
  <1>2. \A x \in Env : Freed(e)[x] = IF x = e THEN "FREE" ELSE env_status[x]
    BY KernelFacts DEF Freed, InKernel
  <1>3. \A x \in CPU : Freed(e)[x] \in Live
    BY <1>2, KernelFacts DEF InKernel
  <1>4. QED
    BY <1>1, <1>2, <1>3, KernelFacts, KernelSane DEF InKernel

\* Whom a system call can name: itself, or a live environment; with the
\* permission check, never an idle environment.
LEMMA Named ==
  ASSUME NEW c \in CPU, IInv, UserDispatch(c), NEW envid \in EnvIds, NEW perm \in BOOLEAN,
         envid2env(c, envid, perm) # NULL
  PROVE  /\ envid2env(c, envid, perm) \in Env
         /\ env_status[envid2env(c, envid, perm)] # "FREE"
         /\ perm => envid2env(c, envid, perm) \notin CPU
  <1> DEFINE e == envid2env(c, envid, perm)
  <1>1. cpu_env[c] \in Env /\ env_status[cpu_env[c]] = "RUNNING" /\ cpu_env[c] \notin CPU
    BY KernelFacts, EnvAssumption DEF UserDispatch, Dispatch, InKernel, IsIdle, CPU, Env
  <1>2. CASE e = cpu_env[c]
    BY <1>1, <1>2
  <1>3. CASE e # cpu_env[c]
    <2>1. e = envid[1] /\ e \in Env /\ env_status[e] # "FREE"
      BY <1>3 DEF envid2env, EnvIds, Self
    <2>2. perm => env_parent_id[e] = IdOf(cpu_env[c])
      BY <1>3 DEF envid2env
    <2>3. IdOf(cpu_env[c]) # Self
      BY <1>1, EnvAssumption DEF IdOf, Self, CPU
    <2>4. QED
      BY <2>1, <2>2, <2>3 DEF IInv, IdleParent
  <1>4. QED
    BY <1>2, <1>3

\* trap() freeing a zombie keeps the invariant.
LEMMA CollectKeeps ==
  ASSUME NEW c \in CPU, IInv, CollectZombie(c)
  PROVE  IInv'
  <1> DEFINE e == cpu_env[c]
  <1>1. InKernel(c) /\ e \in Env /\ env_status[e] = "DYING" /\ e \notin CPU
    BY KernelFacts DEF CollectZombie, InKernel, Live
  <1>2. Sane(c, Freed(e), NULL)
    BY <1>1, FreeSane
  <1>3. Ends(c, Freed(e), NULL) /\ env_free(e)
    BY DEF CollectZombie, Ends
  <1>4. QED
    BY <1>1, <1>2, <1>3, EnvFreeKeeps

\* env_destroy of an environment that is not dying keeps the invariant.
LEMMA DestroyKeeps ==
  ASSUME NEW c \in CPU, NEW e \in Env, IInv, Dispatch(c), e \notin CPU,
         env_status[e] \notin {"FREE", "DYING"}, env_destroy(c, e)
  PROVE  IInv'
  <1>1. InKernel(c) /\ cpu_env[c] \in Env /\ cpu_env[c] # NULL
        /\ env_status[cpu_env[c]] = "RUNNING"
    BY KernelFacts DEF Dispatch, InKernel
  <1>2. CASE env_status[e] = "RUNNING" /\ cpu_env[c] # e
    <2> DEFINE st == [env_status EXCEPT ![e] = "DYING"]
    <2>1. st \in [Env -> Status] /\ \A x \in Env : st[x] = IF x = e THEN "DYING" ELSE env_status[x]
      BY <1>1, KernelFacts DEF InKernel, Status
    <2>2. trap_return(c, st) /\ UNCHANGED table
      BY <1>2 DEF env_destroy
    <2> HIDE DEF st
    <2>3. Sane(c, st, cpu_env[c])
      BY <1>1, <1>2, <2>1, KernelFacts, KernelSane DEF InKernel
    <2>4. /\ CpuTypes /\ TableInv /\ ListExact(env_status, env_free_list)
          /\ Sleeping(env_status, env_ipc_recving, started)
      BY Parts
    <2>5. TableInv' /\ ListExact(st, env_free_list') /\ Sleeping(st, env_ipc_recving', started')
      <3>1. TableInv'
        BY <2>2, <2>4 DEF table, TableInv, IdleParent
      <3>2. ListExact(st, env_free_list')
        BY <1>2, <2>1, <2>2, <2>4 DEF table, ListExact
      <3>3. Sleeping(st, env_ipc_recving', started')
        BY <1>2, <2>1, <2>2, <2>4 DEF table, Sleeping
      <3>4. QED
        BY <3>1, <3>2, <3>3
    <2>6. Ends(c, st, cpu_env[c])
      BY <1>1, <2>2 DEF Ends
    <2>7. QED
      BY <2>3, <2>4, <2>5, <2>6, HandlerKeeps
  <1>3. CASE env_status[e] # "RUNNING" /\ cpu_env[c] # e
    <2>1. env_free(e) /\ Ends(c, Freed(e), cpu_env[c])
      BY <1>1, <1>3 DEF env_destroy, Ends
    <2>2. Sane(c, Freed(e), cpu_env[c])
      BY <1>1, <1>3, FreeSane
    <2>3. QED
      BY <2>1, <2>2, EnvFreeKeeps
  <1>4. CASE cpu_env[c] = e
    <2>1. env_free(e) /\ Ends(c, Freed(e), NULL)
      BY <1>4 DEF env_destroy, Ends
    <2>2. Sane(c, Freed(e), NULL)
      BY <1>1, <1>4, FreeSane
    <2>3. QED
      BY <2>1, <2>2, EnvFreeKeeps
  <1>5. QED
    BY <1>2, <1>3, <1>4

\* Giving a sleeper e that is not free another waking state s; e is not idle.
LEMMA WakeSane ==
  ASSUME NEW c \in CPU, NEW e \in Env, NEW s \in {"RUNNABLE", "NOT_RUNNABLE"}, IInv, Dispatch(c),
         env_status[e] \in {"NOT_RUNNABLE", "FREE"}
  PROVE  /\ Sane(c, [env_status EXCEPT ![e] = s], cpu_env[c])
         /\ [env_status EXCEPT ![e] = s] \in [Env -> Status]
         /\ \A x \in Env : [env_status EXCEPT ![e] = s][x] = IF x = e THEN s ELSE env_status[x]
  <1> DEFINE st == [env_status EXCEPT ![e] = s]
  <1>1. st \in [Env -> Status] /\ \A x \in Env : st[x] = IF x = e THEN s ELSE env_status[x]
    BY KernelFacts DEF Dispatch, InKernel, Status
  <1> HIDE DEF st
  <1>2. \A x \in CPU : st[x] \in Live
    BY <1>1, KernelFacts DEF Dispatch, InKernel, Live
  <1>3. Sane(c, st, cpu_env[c])
    BY <1>1, <1>2, KernelFacts, KernelSane DEF Dispatch, InKernel
  <1>4. QED
    BY <1>1, <1>3 DEF st

\* sys_env_set_status on a child that was never started keeps the invariant.
LEMMA SetStatusKeeps ==
  ASSUME NEW c \in CPU, IInv, LibSetStatus(c)
  PROVE  IInv'
  <1>1. PICK envid \in EnvIds :
          /\ UserDispatch(c)
          /\ envid2env(c, envid, TRUE) # NULL => ~started[envid2env(c, envid, TRUE)]
          /\ sys_env_set_status(c, envid, "RUNNABLE")
    BY DEF LibSetStatus
  <1> DEFINE e == envid2env(c, envid, TRUE)
  <1>2. CASE e = NULL
    BY <1>1, <1>2, FailsKeeps DEF sys_env_set_status, UserDispatch
  <1>3. CASE e # NULL
    <2> DEFINE st == [env_status EXCEPT ![e] = "RUNNABLE"]
    <2>1. e \in Env /\ env_status[e] = "NOT_RUNNABLE" /\ ~env_ipc_recving[e]
      BY <1>1, <1>3, Named DEF IInv, StartedInv
    <2>2. /\ Sane(c, st, cpu_env[c]) /\ st \in [Env -> Status]
          /\ \A x \in Env : st[x] = IF x = e THEN "RUNNABLE" ELSE env_status[x]
      BY <1>1, <2>1, WakeSane DEF UserDispatch
    <2>3. /\ started' = [started EXCEPT ![e] = TRUE]
          /\ trap_return(c, st)
          /\ UNCHANGED <<env_id, env_parent_id, env_ipc_recving, env_free_list, orphan>>
      BY <1>1, <1>3 DEF sys_env_set_status
    <2> HIDE DEF st, e
    <2>4. Ends(c, st, cpu_env[c])
      BY <1>1, <2>3, KernelFacts DEF Ends, UserDispatch, Dispatch, InKernel
    <2>5. /\ CpuTypes /\ TableInv /\ ListExact(env_status, env_free_list)
          /\ Sleeping(env_status, env_ipc_recving, started)
      BY Parts
    <2>6. TableInv'
      BY <2>1, <2>3, <2>5 DEF TableInv, IdleParent
    <2>7. ListExact(st, env_free_list')
      BY <2>1, <2>2, <2>3, <2>5 DEF ListExact
    <2>8. Sleeping(st, env_ipc_recving', started')
      BY <2>1, <2>2, <2>3, <2>5 DEF Sleeping, TableInv
    <2>9. QED
      BY <2>2, <2>4, <2>5, <2>6, <2>7, <2>8, HandlerKeeps
  <1>4. QED
    BY <1>2, <1>3

\* sys_exofork, with a slot or without, keeps the invariant.
LEMMA ExoforkKeeps ==
  ASSUME NEW c \in CPU, IInv, ExoforkOk(c)
  PROVE  IInv'
  <1> DEFINE e == Head(env_free_list)
             st == [env_status EXCEPT ![e] = "NOT_RUNNABLE"]
  <1>1. /\ CpuTypes /\ TableInv /\ ListExact(env_status, env_free_list)
        /\ Sleeping(env_status, env_ipc_recving, started)
    BY Parts
  <1>2. Dispatch(c) /\ env_free_list # <<>> /\ trap_return(c, st)
    BY DEF ExoforkOk, UserDispatch
  <1>3. /\ e \in Env /\ env_status[e] = "FREE" /\ Tail(env_free_list) \in Seq(Env)
        /\ ListExact(st, Tail(env_free_list))
    BY <1>1, <1>2, PopExact DEF CpuTypes, TableInv, Status
  <1>4. /\ Sane(c, st, cpu_env[c]) /\ st \in [Env -> Status]
        /\ \A x \in Env : st[x] = IF x = e THEN "NOT_RUNNABLE" ELSE env_status[x]
    BY <1>2, <1>3, WakeSane
  <1>5. Ends(c, st, cpu_env[c]) /\ cpu_env[c] \in Env
    BY <1>2, KernelFacts DEF Ends, Dispatch, InKernel
  <1>6. /\ env_free_list' = Tail(env_free_list)
        /\ env_id' = [env_id EXCEPT ![e] = NextGeneration(@)]
        /\ env_parent_id' = [env_parent_id EXCEPT ![e] = IdOf(cpu_env[c])]
        /\ env_ipc_recving' = [env_ipc_recving EXCEPT ![e] = FALSE]
        /\ orphan' = [orphan EXCEPT ![e] = FALSE]
        /\ started' = [started EXCEPT ![e] = FALSE]
        /\ GenBounded(e)
    BY DEF ExoforkOk, FreeListPopped
  <1>7. e \notin CPU
    BY <1>2, <1>3, KernelFacts DEF Dispatch, InKernel, Live
  <1> HIDE DEF st, e
  <1>8. TableInv'
    <2>1. NextGeneration(env_id[e]) \in 0 .. MaxGen
      BY <1>1, <1>3, <1>6, EnvAssumption DEF NextGeneration, GenBounded, TableInv
    <2>2. IdOf(cpu_env[c]) \in EnvId
      BY <1>1, <1>5 DEF IdOf, EnvId, TableInv
    <2>3. IdleParent'
      BY <1>1, <1>6, <1>7, Slots DEF TableInv, IdleParent
    <2>4. QED
      BY <1>1, <1>3, <1>6, <2>1, <2>2, <2>3 DEF TableInv
  <1>9. Sleeping(st, env_ipc_recving', started')
    BY <1>1, <1>3, <1>4, <1>6 DEF Sleeping, TableInv
  <1>10. QED
    BY <1>1, <1>3, <1>4, <1>5, <1>6, <1>8, <1>9, HandlerKeeps

\* sys_ipc_recv puts its caller to sleep and keeps the invariant.
LEMMA RecvKeeps ==
  ASSUME NEW c \in CPU, IInv, sys_ipc_recv(c)
  PROVE  IInv'
  <1> DEFINE e == cpu_env[c]
             st == [env_status EXCEPT ![e] = "NOT_RUNNABLE"]
  <1>1. /\ CpuTypes /\ TableInv /\ ListExact(env_status, env_free_list)
        /\ Sleeping(env_status, env_ipc_recving, started)
    BY Parts
  <1>2. /\ e \in Env /\ e # NULL /\ env_status[e] = "RUNNING" /\ pc[c] = "kernel"
        /\ e \notin CPU
    BY KernelFacts, EnvAssumption
    DEF sys_ipc_recv, UserDispatch, Dispatch, InKernel, IsIdle, CPU, Env
  <1>3. /\ env_ipc_recving' = [env_ipc_recving EXCEPT ![e] = TRUE]
        /\ trap_return(c, st)
        /\ UNCHANGED <<env_id, env_parent_id, env_free_list, started, orphan>>
    BY DEF sys_ipc_recv
  <1>4. /\ st \in [Env -> Status]
        /\ \A x \in Env : st[x] = IF x = e THEN "NOT_RUNNABLE" ELSE env_status[x]
    BY <1>1, <1>2 DEF CpuTypes, Status
  <1> HIDE DEF st
  <1>5. Sane(c, st, e)
    BY <1>2, <1>4, KernelFacts, KernelSane
  <1>6. Ends(c, st, e)
    BY <1>2, <1>3 DEF Ends
  <1>7. TableInv'
    BY <1>1, <1>2, <1>3 DEF TableInv, IdleParent
  <1>8. ListExact(st, env_free_list')
    BY <1>1, <1>2, <1>3, <1>4 DEF ListExact
  <1>9. Sleeping(st, env_ipc_recving', started')
    BY <1>1, <1>2, <1>3, <1>4 DEF Sleeping, TableInv
  <1>10. QED
    BY <1>1, <1>5, <1>6, <1>7, <1>8, <1>9, HandlerKeeps

\* sys_ipc_try_send, also with a page transfer that fails, keeps the invariant.
LEMMA SendKeeps ==
  ASSUME NEW c \in CPU, IInv, NEW envid \in EnvIds, NEW pageOk \in BOOLEAN,
         sys_ipc_try_send(c, envid, pageOk)
  PROVE  IInv'
  <1> DEFINE dst == envid2env(c, envid, FALSE)
  <1>1. UserDispatch(c) /\ Dispatch(c) /\ pc[c] = "kernel"
    BY DEF sys_ipc_try_send, UserDispatch, Dispatch, InKernel
  <1>2. CASE dst = NULL \/ ~env_ipc_recving[dst]
    BY <1>1, <1>2, FailsKeeps DEF sys_ipc_try_send
  <1>3. CASE dst # NULL /\ env_ipc_recving[dst]
    <2> DEFINE st == IF pageOk THEN [env_status EXCEPT ![dst] = "RUNNABLE"] ELSE env_status
    <2>1. /\ CpuTypes /\ TableInv /\ ListExact(env_status, env_free_list)
          /\ Sleeping(env_status, env_ipc_recving, started)
      BY Parts
    <2>2. dst \in Env /\ env_status[dst] = "NOT_RUNNABLE" /\ started[dst]
      BY <1>1, <1>3, <2>1, Named DEF Sleeping
    <2>3. /\ env_ipc_recving' = [env_ipc_recving EXCEPT ![dst] = FALSE]
          /\ trap_return(c, st)
          /\ UNCHANGED <<env_id, env_parent_id, env_free_list, started, orphan>>
      BY <1>3 DEF sys_ipc_try_send, RecvDone
    <2>4. Sane(c, env_status, cpu_env[c])
      BY <1>1, KernelFacts, KernelSane DEF Dispatch
    <2>5. /\ Sane(c, st, cpu_env[c])
          /\ \A x \in Env : st[x] = env_status[x] \/ (x = dst /\ st[x] = "RUNNABLE")
      <3> HIDE DEF dst
      <3>1. CASE pageOk
        <4>1. st = [env_status EXCEPT ![dst] = "RUNNABLE"]
          BY <3>1
        <4> HIDE DEF st
        <4>2. QED
          BY <1>1, <2>2, <4>1, WakeSane
      <3>2. CASE ~pageOk
        <4>1. st = env_status
          BY <3>2
        <4> HIDE DEF st
        <4>2. QED
          BY <2>4, <4>1
      <3>3. QED
        BY <3>1, <3>2
    <2> HIDE DEF st, dst
    <2>6. Ends(c, st, cpu_env[c])
      BY <1>1, <2>3, KernelFacts DEF Ends
    <2>7. TableInv'
      BY <2>1, <2>2, <2>3 DEF TableInv, IdleParent
    <2>8. ListExact(st, env_free_list')
      BY <2>1, <2>2, <2>3, <2>5 DEF ListExact
    <2>9. Sleeping(st, env_ipc_recving', started')
      BY <2>1, <2>2, <2>3, <2>5 DEF Sleeping, TableInv
    <2>10. QED
      BY <2>1, <2>5, <2>6, <2>7, <2>8, <2>9, HandlerKeeps
  <1>4. QED
    BY <1>2, <1>3

\* sys_env_destroy keeps the invariant.
LEMMA LibDestroyKeeps ==
  ASSUME NEW c \in CPU, IInv, LibDestroy(c)
  PROVE  IInv'
  <1>1. PICK envid \in EnvIds :
          /\ UserDispatch(c)
          /\ envid2env(c, envid, TRUE) # NULL => env_status[envid2env(c, envid, TRUE)] # "DYING"
          /\ sys_env_destroy(c, envid)
    BY DEF LibDestroy
  <1> DEFINE e == envid2env(c, envid, TRUE)
  <1>2. CASE e = NULL
    BY <1>1, <1>2, FailsKeeps DEF sys_env_destroy, UserDispatch
  <1>3. CASE e # NULL
    <2>1. e \in Env /\ env_status[e] \notin {"FREE", "DYING"} /\ e \notin CPU
      BY <1>1, <1>3, Named
    <2>2. env_destroy(c, e) /\ Dispatch(c)
      BY <1>1, <1>3 DEF sys_env_destroy, UserDispatch
    <2>3. QED
      BY <2>1, <2>2, DestroyKeeps
  <1>4. QED
    BY <1>2, <1>3

\* A fatal trap destroys the current environment and keeps the invariant.
LEMMA FaultKeeps ==
  ASSUME NEW c \in CPU, IInv, Fault(c)
  PROVE  IInv'
  <1>1. /\ cpu_env[c] \in Env /\ env_status[cpu_env[c]] = "RUNNING" /\ cpu_env[c] \notin CPU
        /\ Dispatch(c) /\ env_destroy(c, cpu_env[c])
    BY KernelFacts, EnvAssumption
    DEF Fault, UserDispatch, Dispatch, InKernel, IsIdle, CPU, Env
  <1>2. QED
    BY <1>1, DestroyKeeps

\* The steps outside the lock's critical section only move pc and the lock.
LEMMA LockStepKeeps ==
  ASSUME NEW c \in CPU, IInv, EnterUser(c) \/ Trap(c)
  PROVE  IInv'
  <1>1. UNCHANGED <<table, env_status, cpu_env>>
    BY DEF EnterUser, Trap, lock_kernel
  <1>2. FreeListExact' /\ RecvingSleeps' /\ StartedInv' /\ IdleParent'
    BY <1>1 DEF table, IInv, FreeListExact, RecvingSleeps, StartedInv, IdleParent
  <1>3. pc' \in [CPU -> Pc] /\ kernel_lock' \in CPU \cup {NULL}
    BY DEF IInv, TypeOK, EnterUser, Trap, lock_kernel, Pc
  <1>4. TypeOK'
    BY <1>1, <1>3 DEF table, IInv, TypeOK
  <1>5. \A d \in CPU : OnCpu(d)' <=> OnCpu(d)
    BY DEF IInv, TypeOK, EnterUser, Trap, lock_kernel, OnCpu
  <1>6. RunsOnOneCpu' /\ RunningHasCpu' /\ IdleReady'
    BY <1>1, <1>5 DEF IInv, CpuInv, RunsOnOneCpu, RunningHasCpu, IdleReady
  <1>7. LockInv'
    BY Slots DEF IInv, TypeOK, CpuInv, LockInv, EnterUser, Trap, lock_kernel
  <1>8. QED
    BY <1>2, <1>4, <1>6, <1>7 DEF IInv, CpuInv

\* The table that env_init and i386_init leave satisfies the invariant.
LEMMA InitOk == Init => IInv
  <1> SUFFICES ASSUME Init PROVE IInv
    OBVIOUS
  <1> USE Slots, EnvAssumption DEF Init
  <1>1. \A c \in CPU : c \in Env /\ c < NCPU + NUSER
    BY DEF CPU, Env
  <1>2. TypeOK
    <2>1. env_id \in [Env -> 0 .. MaxGen] /\ env_parent_id \in [Env -> EnvId]
      BY DEF EnvId, Self, Env
    <2>2. env_free_list \in Seq(Env)
      BY DEF Env
    <2>3. env_status \in [Env -> Status] /\ pc \in [CPU -> Pc]
      BY DEF Status, Pc
    <2>4. kernel_lock \in CPU
      BY DEF CPU
    <2>5. started \in [Env -> BOOLEAN]
      BY DEF Env
    <2>6. QED
      BY <2>1, <2>2, <2>3, <2>4, <2>5 DEF TypeOK
  <1>3. CpuInv
    BY <1>1 DEF CpuInv, RunsOnOneCpu, RunningHasCpu, IdleReady, LockInv, OnCpu
  <1>4. FreeListExact
    <2>1. \A e \in Env : env_status[e] = "FREE" <=> e >= NCPU + NUSER
      BY DEF Env
    <2>2. \A e \in Env : e >= NCPU + NUSER =>
            /\ e - (NCPU + NUSER) + 1 \in DOMAIN env_free_list
            /\ env_free_list[e - (NCPU + NUSER) + 1] = e
      BY DEF Env
    <2>3. \A i \in DOMAIN env_free_list : env_free_list[i] = NCPU + NUSER + i - 1 /\ i \in Nat /\ i >= 1
      OBVIOUS
    <2>4. \A e \in Env : e \in Int /\ e >= 0
      BY DEF Env
    <2>5. \A i, j \in DOMAIN env_free_list : env_free_list[i] = env_free_list[j] => i = j
      BY <2>3
    <2>6. \A e \in Env : (\E i \in DOMAIN env_free_list : env_free_list[i] = e) => e >= NCPU + NUSER
      BY <2>3
    <2> HIDE DEF Init
    <2>7. QED
      BY <2>1, <2>2, <2>5, <2>6 DEF FreeListExact
  <1>5. RecvingSleeps /\ StartedInv /\ IdleParent
    BY <1>1 DEF RecvingSleeps, StartedInv, IdleParent
  <1>6. QED
    BY <1>2, <1>3, <1>4, <1>5 DEF IInv

\* Every step keeps the invariant.
LEMMA NextKeeps == IInv /\ [LibNext]_vars => IInv'
  <1> SUFFICES ASSUME IInv, [LibNext]_vars PROVE IInv'
    OBVIOUS
  <1>1. CASE UNCHANGED vars
    BY <1>1 DEF vars, IInv, TypeOK, CpuInv, RunsOnOneCpu, RunningHasCpu, IdleReady, LockInv,
                OnCpu, FreeListExact, RecvingSleeps, StartedInv, IdleParent
  <1>2. ASSUME NEW c \in CPU, Steps(c) PROVE IInv'
    <2>1. CASE Boot(c)
      BY <2>1, BootKeeps
    <2>2. CASE EnterUser(c) \/ Trap(c)
      BY <2>2, LockStepKeeps
    <2>3. CASE Stopped(c)
      BY <1>1, <2>3 DEF Stopped
    <2>4. CASE Yield(c)
      BY <2>4, YieldKeeps
    <2>5. CASE sys_ipc_recv(c)
      BY <2>5, RecvKeeps
    <2>6. CASE \E envid \in EnvIds, pageOk \in BOOLEAN : sys_ipc_try_send(c, envid, pageOk)
      BY <2>6, SendKeeps
    <2>7. CASE CollectZombie(c)
      BY <2>7, CollectKeeps
    <2>8. CASE Fault(c)
      BY <2>8, FaultKeeps
    <2>9. CASE ExoforkOk(c)
      BY <2>9, ExoforkKeeps
    <2>10. CASE ExoforkFails(c)
      BY <2>10, FailsKeeps DEF ExoforkFails, UserDispatch
    <2>11. QED
      BY <1>2, <2>1, <2>2, <2>3, <2>4, <2>5, <2>6, <2>7, <2>8, <2>9, <2>10
      DEF Steps, SchedSteps, sys_exofork
  <1>3. ASSUME NEW c \in CPU, LibDestroy(c) \/ LibSetStatus(c) PROVE IInv'
    BY <1>3, LibDestroyKeeps, SetStatusKeeps
  <1>4. QED
    BY <1>1, <1>2, <1>3 DEF LibNext

\* The inductive invariant holds in every reachable state.
THEOREM TableInvariant == LibSpec => []IInv
  BY InitOk, NextKeeps, PTL DEF LibSpec

\* Type correctness of the environment table and the CPUs (Env.TypeOK); the
\* generation arithmetic of env_alloc stays within its bound.
THEOREM TypeCorrect == LibSpec => []TypeOK
  <1>1. IInv => TypeOK
    BY DEF IInv
  <1>2. QED
    BY <1>1, TableInvariant, PTL

\* No interleaving of traps, yields, forks, exits, destroys and IPC on any
\* number of CPUs lets two CPUs run one environment, or takes the environment
\* away from under the CPU that runs it (sched_yield, env_run, env_destroy).
THEOREM OneCpu == LibSpec => []RunsOnOneCpu
  <1>1. IInv => RunsOnOneCpu
    BY DEF IInv, CpuInv
  <1>2. QED
    BY <1>1, TableInvariant, PTL

\* Every RUNNING or DYING environment is on a CPU: env_run and env_destroy
\* strand none of them.
THEOREM NoneStranded == LibSpec => []RunningHasCpu
  <1>1. IInv => RunningHasCpu
    BY DEF IInv, CpuInv
  <1>2. QED
    BY <1>1, TableInvariant, PTL

\* env_alloc and env_free keep env_free_list equal to the FREE slots, each once.
THEOREM FreeListCorrect == LibSpec => []FreeListExact
  <1>1. IInv => FreeListExact
    BY DEF IInv
  <1>2. QED
    BY <1>1, TableInvariant, PTL

\* sys_ipc_try_send only ever wakes an environment that sleeps.
THEOREM ReceiversSleep == LibSpec => []RecvingSleeps
  <1>1. IInv => RecvingSleeps
    BY DEF IInv
  <1>2. QED
    BY <1>1, TableInvariant, PTL

\* sched_yield always finds its CPU's idle environment ready: the panic
\* "No idle environment" is unreachable.
THEOREM IdleAlwaysReady == LibSpec => []IdleReady
  <1>1. IInv => IdleReady
    BY DEF IInv, CpuInv
  <1>2. QED
    BY <1>1, TableInvariant, PTL

-----------------------------------------------------------------------------
(* The permission check.  As long as no slot uses up its generations, no   *)
(* parent id is ever carried by a live environment that is not the parent. *)

ParentInv ==
  /\ \A e \in Env : env_parent_id[e][2] <= env_id[env_parent_id[e][1]]
  /\ \A e, p \in Env :
       env_status[p] # "FREE" /\ env_parent_id[e] = IdOf(p) => ~orphan[e]

\* The ways a step changes the table.
LEMMA TableStep ==
  ASSUME IInv, [LibNext]_vars
  PROVE  \/ UNCHANGED <<env_id, env_parent_id, env_free_list, orphan>>
         \/ \E e \in Env : env_free(e)
         \/ \E c \in CPU : ExoforkOk(c)
  <1> DEFINE Goal == \/ UNCHANGED <<env_id, env_parent_id, env_free_list, orphan>>
                     \/ \E e \in Env : env_free(e)
                     \/ \E c \in CPU : ExoforkOk(c)
  <1>1. CASE UNCHANGED vars
    BY <1>1 DEF vars
  <1>2. ASSUME NEW c \in CPU, UNCHANGED table PROVE Goal
    BY <1>2 DEF table
  <1>3. ASSUME NEW c \in CPU, NEW e \in Env, env_destroy(c, e) PROVE Goal
    BY <1>2, <1>3 DEF env_destroy
  <1>4. ASSUME NEW c \in CPU, Steps(c) PROVE Goal
    <2>1. CASE Boot(c) \/ EnterUser(c) \/ Trap(c) \/ Yield(c) \/ ExoforkFails(c)
      BY <1>2, <2>1 DEF Boot, EnterUser, Trap, Yield, ExoforkFails, Fails
    <2>2. CASE Stopped(c)
      BY <1>1, <2>2 DEF Stopped
    <2>3. CASE sys_ipc_recv(c) \/ \E envid \in EnvIds, pageOk \in BOOLEAN : sys_ipc_try_send(c, envid, pageOk)
      BY <1>2, <2>3 DEF sys_ipc_recv, sys_ipc_try_send, Fails
    <2>4. CASE CollectZombie(c)
      BY <2>4, KernelFacts DEF CollectZombie, InKernel
    <2>5. CASE Fault(c)
      BY <1>3, <2>5, KernelFacts DEF Fault, UserDispatch, Dispatch, InKernel
    <2>6. CASE ExoforkOk(c)
      BY <2>6
    <2>7. QED
      BY <1>4, <2>1, <2>2, <2>3, <2>4, <2>5, <2>6 DEF Steps, SchedSteps, sys_exofork
  <1>5. ASSUME NEW c \in CPU, LibSetStatus(c) PROVE Goal
    BY <1>2, <1>5 DEF LibSetStatus, sys_env_set_status, Fails
  <1>6. ASSUME NEW c \in CPU, LibDestroy(c) PROVE Goal
    <2>1. PICK envid \in EnvIds : UserDispatch(c) /\ sys_env_destroy(c, envid)
      BY <1>6 DEF LibDestroy
    <2>2. CASE envid2env(c, envid, TRUE) = NULL
      BY <1>2, <2>1, <2>2 DEF sys_env_destroy, Fails
    <2>3. CASE envid2env(c, envid, TRUE) # NULL
      BY <1>3, <2>1, <2>3, Named DEF sys_env_destroy
    <2>4. QED
      BY <2>2, <2>3
  <1>7. QED
    BY <1>1, <1>4, <1>5, <1>6 DEF LibNext

\* Every step keeps parent ids fresh when no slot uses up its generations.
LEMMA ParentStep ==
  ASSUME MaxGen < GenLimit, IInv, ParentInv, IInv', [LibNext]_vars
  PROVE  ParentInv'
  <1>1. /\ TableInv /\ ListExact(env_status, env_free_list)
        /\ (TableInv /\ ListExact(env_status, env_free_list))'
    BY Parts DEF IInv, TypeOK, TableInv, ListExact, FreeListExact
  <1>2. CASE UNCHANGED <<env_id, env_parent_id, env_free_list, orphan>>
    <2>1. \A p \in Env : env_status'[p] = "FREE" <=> env_status[p] = "FREE"
      BY <1>1, <1>2 DEF ListExact
    <2>2. QED
      BY <1>2, <2>1 DEF ParentInv, IdOf
  <1>3. ASSUME NEW e \in Env, env_free(e) PROVE ParentInv'
    <2>1. /\ env_free_list' = <<e>> \o env_free_list
          /\ DOMAIN env_free_list' = 1 .. Len(env_free_list) + 1
          /\ DOMAIN env_free_list = 1 .. Len(env_free_list) /\ Len(env_free_list) \in Nat
          /\ env_free_list'[1] = e
          /\ \A i \in 1 .. Len(env_free_list) : env_free_list'[i + 1] = env_free_list[i]
      BY <1>1, <1>3, Pushed DEF env_free, TableInv
    <2>2. \A i \in DOMAIN env_free_list :
            i + 1 \in DOMAIN env_free_list' /\ env_free_list'[i + 1] = env_free_list[i]
      BY <2>1
    <2>3. env_status'[e] = "FREE"
      BY <1>1, <2>1 DEF ListExact
    <2>4. \A p \in Env : env_status[p] = "FREE" => env_status'[p] = "FREE"
      BY <1>1, <2>2 DEF ListExact
    <2>5. /\ orphan' = [x \in Env |-> orphan[x] \/ env_parent_id[x] = IdOf(e)]
          /\ UNCHANGED <<env_id, env_parent_id>>
      BY <1>3 DEF env_free
    <2>6. ASSUME NEW x \in Env, NEW p \in Env, env_status'[p] # "FREE",
                 env_parent_id'[x] = <<p, env_id'[p]>>
          PROVE  ~orphan'[x]
      <3>1. p # e /\ env_status[p] # "FREE" /\ env_parent_id[x] = <<p, env_id[p]>>
        BY <2>3, <2>4, <2>5, <2>6
      <3>2. ~orphan[x]
        BY <3>1 DEF ParentInv, IdOf
      <3>3. env_parent_id[x] # IdOf(e)
        BY <3>1 DEF IdOf
      <3>4. orphan'[x] = (orphan[x] \/ env_parent_id[x] = IdOf(e))
        BY <2>5
      <3>5. QED
        BY <3>2, <3>3, <3>4
    <2>7. \A x, p \in Env : env_status'[p] # "FREE" /\ env_parent_id'[x] = <<p, env_id'[p]>>
                              => ~orphan'[x]
      BY <2>6
    <2>8. \A x \in Env : env_parent_id'[x][2] <= env_id'[env_parent_id'[x][1]]
      BY <2>5 DEF ParentInv
    <2>9. QED
      BY <2>7, <2>8 DEF ParentInv, IdOf
  <1>4. ASSUME NEW c \in CPU, ExoforkOk(c) PROVE ParentInv'
    <2> DEFINE e == Head(env_free_list)
    <2>1. e \in Env /\ env_status[e] = "FREE"
      BY <1>1, <1>4, PopExact DEF ExoforkOk, IInv, TypeOK, Status
    <2>2. cpu_env[c] \in Env /\ env_status[cpu_env[c]] # "FREE"
      BY <1>4, KernelFacts DEF ExoforkOk, UserDispatch, Dispatch, InKernel
    <2>3. /\ env_free_list' = Tail(env_free_list)
          /\ env_id' = [env_id EXCEPT ![e] = NextGeneration(@)]
          /\ env_parent_id' = [env_parent_id EXCEPT ![e] = IdOf(cpu_env[c])]
          /\ orphan' = [orphan EXCEPT ![e] = FALSE]
          /\ env_free_list # <<>> /\ GenBounded(e)
      BY <1>4 DEF ExoforkOk, FreeListPopped
    <2>4. ListExact([env_status EXCEPT ![e] = "NOT_RUNNABLE"], Tail(env_free_list))
      BY <1>1, <2>3, PopExact DEF IInv, TypeOK, Status, TableInv
    <2>5. \A p \in Env : p # e => (env_status'[p] = "FREE" <=> env_status[p] = "FREE")
      <3> DEFINE st == [env_status EXCEPT ![e] = "NOT_RUNNABLE"]
      <3>1. \A p \in Env : p # e => st[p] = env_status[p]
        BY <2>1 DEF IInv, TypeOK
      <3>2. ListExact(st, env_free_list')
        BY <2>3, <2>4
      <3> HIDE DEF st
      <3>3. \A p \in Env : env_status'[p] = "FREE" <=> st[p] = "FREE"
        BY <1>1, <3>2 DEF ListExact
      <3>4. QED
        BY <3>1, <3>3
    <2> HIDE DEF e
    <2>6. env_id'[e] = env_id[e] + 1
      BY <1>1, <2>1, <2>3, EnvAssumption DEF NextGeneration, GenBounded, TableInv
    <2>7. \A p \in Env : env_id[p] \in Int /\ env_id'[p] \in Int /\ env_id'[p] >= env_id[p]
                          /\ (p # e => env_id'[p] = env_id[p])
      BY <1>1, <2>1, <2>3, <2>6 DEF TableInv
    <2>8. \A x \in Env : x # e => env_parent_id'[x] = env_parent_id[x] /\ orphan'[x] = orphan[x]
      BY <1>1, <2>1, <2>3 DEF TableInv
    <2>9. env_parent_id'[e] = <<cpu_env[c], env_id[cpu_env[c]]>> /\ ~orphan'[e]
      BY <1>1, <2>1, <2>3 DEF TableInv, IdOf
    <2>10. \A x \in Env : env_parent_id[x][1] \in Env /\ env_parent_id[x][2] \in Int
      BY <1>1 DEF TableInv, EnvId
    <2>11. ASSUME NEW x \in Env PROVE env_parent_id'[x][2] <= env_id'[env_parent_id'[x][1]]
      <3>1. CASE x = e
        BY <2>2, <2>7, <2>9, <3>1
      <3>2. CASE x # e
        BY <2>7, <2>8, <2>10, <3>2 DEF ParentInv
      <3>3. QED
        BY <3>1, <3>2
    <2>12. ASSUME NEW x \in Env, NEW p \in Env, env_status'[p] # "FREE",
                  env_parent_id'[x] = <<p, env_id'[p]>>
           PROVE  ~orphan'[x]
      <3>1. CASE x = e
        BY <2>9, <3>1
      <3>2. CASE x # e /\ p # e
        BY <2>5, <2>7, <2>8, <2>12, <3>2 DEF ParentInv, IdOf
      <3>3. CASE x # e /\ p = e
        <4>1. env_parent_id[x] = <<e, env_id[e] + 1>>
          BY <2>6, <2>8, <2>12, <3>3
        <4>2. env_parent_id[x][2] <= env_id[e]
          BY <4>1 DEF ParentInv
        <4>3. QED
          BY <2>1, <2>7, <4>1, <4>2
      <3>4. QED
        BY <3>1, <3>2, <3>3
    <2>13. \A x, p \in Env : env_status'[p] # "FREE" /\ env_parent_id'[x] = <<p, env_id'[p]>>
                               => ~orphan'[x]
      BY <2>12
    <2>14. \A x \in Env : env_parent_id'[x][2] <= env_id'[env_parent_id'[x][1]]
      BY <2>11
    <2>15. QED
      BY <2>13, <2>14 DEF ParentInv, IdOf
  <1>5. QED
    BY <1>2, <1>3, <1>4, TableStep

\* As long as the generations of a slot do not wrap (GenLimit is 2^19 - 1 in
\* env_alloc, against the bound MaxGen on the run), the id check of envid2env
\* never takes a stranger for the parent.
THEOREM ParentIds == ASSUME MaxGen < GenLimit PROVE LibSpec => []ParentIdNotStale
  <1>1. Init => ParentInv
    <2> SUFFICES ASSUME Init PROVE ParentInv
      OBVIOUS
    <2>1. 0 \in Env
      BY EnvAssumption DEF Env
    <2>2. \A e \in Env : env_parent_id[e] = <<0, 0>> /\ ~orphan[e]
      BY DEF Init, Self
    <2>3. env_id[0] = 1
      BY <2>1, EnvAssumption DEF Init
    <2>4. QED
      BY <2>2, <2>3 DEF ParentInv
  <1>2. IInv /\ ParentInv /\ IInv' /\ [LibNext]_vars => ParentInv'
    BY ParentStep
  <1>3. ParentInv => ParentIdNotStale
    BY DEF ParentInv, ParentIdNotStale
  <1>4. QED
    BY <1>1, <1>2, <1>3, TableInvariant, PTL DEF LibSpec
=============================================================================
