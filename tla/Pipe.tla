-------------------------------- MODULE Pipe --------------------------------
(***************************************************************************)
(* A pipe of lib/pipe.c shared by several environments.                    *)
(*                                                                         *)
(* An end of the pipe that is open in an environment is two mappings: its  *)
(* Fd page and the page of struct Pipe at fd2data.  Nothing counts readers *)
(* and writers; _pipeisclosed compares the reference count of the Fd page  *)
(* with that of the pipe page, while the other environments map and unmap  *)
(* the two one system call at a time in close, dup and fork.               *)
(*                                                                         *)
(* A process is somewhere in a read or write (pc) or has system calls of a *)
(* close, dup or fork left to make (todo).  Its steps are the accesses to  *)
(* shared state.  SMP says whether environments run on several CPUs: on    *)
(* one CPU a step of another process means that thisenv->env_runs changes. *)
(***************************************************************************)
EXTENDS Integers, Sequences, FiniteSets

CONSTANTS
  Proc,        \* the environments
  First,       \* the one that called pipe()
  Reader,      \* the ones that read, and that write: one process for each
  Writer,      \*   end, as struct Pipe has no lock
  PIPEBUFSIZ,
  NBytes,      \* bound: bytes that are written
  MaxOps,      \* bound: dup and fork calls
  SMP          \* several CPUs

ASSUME PipeAssumption ==
  /\ First \in Proc /\ Reader \in Proc /\ Writer \in Proc \ {Reader}
  /\ PIPEBUFSIZ \in Nat \ {0} /\ NBytes \in Nat /\ MaxOps \in Nat /\ SMP \in BOOLEAN

VARIABLES
  fd, data,            \* [Slot -> BOOLEAN]: the Fd page and the pipe page are mapped
  todo,                \* [Proc -> Seq(system calls)]
  pc,                  \* [Proc -> Pc]
  seen,                \* [Proc -> [fd, pipe]]: the counts pageref returned, or NONE
  fresh,               \* [Proc -> BOOLEAN]: env_runs is still the n of _pipeisclosed
  born,                \* the processes that run
  ops,                 \* dup and fork calls so far
  p_rpos, p_wpos, p_buf,
  byte,                \* the byte devpipe_read has taken from p_buf
  eof                  \* [Proc -> BOOLEAN]: read or write returned 0

pipe == <<p_rpos, p_wpos, p_buf, byte>>
maps == <<fd, data, todo, born, ops>>
vars == <<maps, pipe, pc, seen, fresh, eof>>

\* Descriptors of a process: the two ends, and one that dup makes of "r".
Slot == Proc \X {"r", "w", "dup"}
End(s) == IF s[2] = "w" THEN "w" ELSE "r"
NONE == -1
Pc == {"user", "loop", "more", "closed?", "access", "advance"}
NoRefs == [fd |-> NONE, pipe |-> NONE]

\* pp_ref of the Fd page of an end, and of the page of struct Pipe.
FdRef(end) == Cardinality({s \in Slot : End(s) = end /\ fd[s]})
PipeRef == Cardinality({s \in Slot : data[s]})

-----------------------------------------------------------------------------
(* System calls that close, dup and fork still have to make.               *)

Map(page, s) == [page |-> page, slot |-> s, mapped |-> TRUE]
Unmap(page, s) == [page |-> page, slot |-> s, mapped |-> FALSE]

devpipe_close(s) == <<Unmap("fd", s), Unmap("data", s)>>

\* Mutant: the Fd page first.
dup_swapped(s) == <<Map("fd", s), Map("data", s)>>
dup(s) == <<Map("data", s), Map("fd", s)>>

\* fork and copy_shared_pages copy in address order: the Fd pages, then the
\* data pages; then the child is made runnable.  All maps succeed: fork does not
\* look at what duppage returns, and out of memory it would start a child with
\* some of these pages missing.
fork(p, child) ==
  LET open == SelectSeq(<<"r", "w", "dup">>, LAMBDA e : fd[<<p, e>>])
      Copy(page) == [i \in DOMAIN open |-> Map(page, <<child, open[i]>>)]
  IN  Copy("fd") \o Copy("data") \o <<Map("child", <<child, "r">>)>>

\* A step of p: on one CPU, the others have been descheduled.
Runs(p) == fresh' = [q \in Proc |-> fresh[q] /\ (q = p \/ SMP)]

Idle(p) == p \in born /\ pc[p] = "user" /\ todo[p] = <<>>

Close(p) ==
  \E s \in Slot :
    /\ Idle(p) /\ s[1] = p /\ fd[s]
    /\ todo' = [todo EXCEPT ![p] = devpipe_close(s)]
    /\ UNCHANGED <<fd, data, born, ops, pipe, pc, seen, fresh, eof>>

Dup(p) ==
  /\ Idle(p) /\ fd[<<p, "r">>] /\ ~fd[<<p, "dup">>]
  /\ ops < MaxOps /\ ops' = ops + 1
  /\ todo' = [todo EXCEPT ![p] = dup(<<p, "dup">>)]
  /\ UNCHANGED <<fd, data, born, pipe, pc, seen, fresh, eof>>

Fork(p) ==
  \E child \in Proc \ born :
    /\ Idle(p)
    /\ \A s \in Slot : s[1] = child => ~fd[s] /\ ~data[s]
    /\ \A q \in Proc : \A i \in DOMAIN todo[q] : todo[q][i].slot[1] # child
    /\ ops < MaxOps /\ ops' = ops + 1
    /\ todo' = [todo EXCEPT ![p] = fork(p, child)]
    /\ UNCHANGED <<fd, data, born, pipe, pc, seen, fresh, eof>>

\* sys_page_map, sys_page_unmap, or the sys_env_set_status that starts the child.
SysCall(p) ==
  LET c == Head(todo[p])
  IN  /\ todo[p] # <<>>
      /\ todo' = [todo EXCEPT ![p] = Tail(@)]
      /\ fd' = IF c.page = "fd" THEN [fd EXCEPT ![c.slot] = c.mapped] ELSE fd
      /\ data' = IF c.page = "data" THEN [data EXCEPT ![c.slot] = c.mapped] ELSE data
      /\ born' = IF c.page = "child" THEN born \cup {c.slot[1]} ELSE born
      /\ Runs(p)
      /\ UNCHANGED <<ops, pipe, pc, seen, eof>>

\* A sys_page_map of dup fails: it takes back what it mapped.
DupFails(p) ==
  LET c == Head(todo[p])
  IN  /\ todo[p] # <<>> /\ c.mapped /\ c.slot = <<p, "dup">>
      /\ todo' = [todo EXCEPT ![p] = <<Unmap("fd", c.slot), Unmap("data", c.slot)>>]
      /\ Runs(p)
      /\ UNCHANGED <<fd, data, born, ops, pipe, pc, seen, eof>>

\* Destroyed: env_free unmaps all pages within one system call.
Die(p) ==
  /\ p \in born
  /\ born' = born \ {p}
  /\ fd' = [s \in Slot |-> fd[s] /\ s[1] # p]
  /\ data' = [s \in Slot |-> data[s] /\ s[1] # p]
  /\ todo' = [todo EXCEPT ![p] = <<>>]
  /\ pc' = [pc EXCEPT ![p] = "user"]
  /\ seen' = [seen EXCEPT ![p] = NoRefs]
  /\ fresh' = [q \in Proc |-> fresh[q] /\ q # p /\ SMP]
  /\ UNCHANGED <<ops, pipe, eof>>

-----------------------------------------------------------------------------
(* _pipeisclosed                                                           *)

Goto(p, label) == pc' = [pc EXCEPT ![p] = label]
OwnEnd(p) == IF p = Reader THEN "r" ELSE "w"

\* n = thisenv->env_runs
Sample(p) ==
  /\ seen' = [seen EXCEPT ![p] = NoRefs]
  /\ fresh' = [q \in Proc |-> q = p \/ (fresh[q] /\ SMP)]

\* The two calls of pageref, in the order the compiler chose.
PageRef(p) ==
  /\ pc[p] = "closed?"
  /\ \/ /\ seen[p].fd = NONE
        /\ seen' = [seen EXCEPT ![p].fd = FdRef(OwnEnd(p))]
     \/ /\ seen[p].pipe = NONE
        /\ seen' = [seen EXCEPT ![p].pipe = PipeRef]
  /\ Runs(p)
  /\ UNCHANGED <<maps, pipe, pc, eof>>

\* Mutant: the answer counts whether or not the environment was descheduled.
AcceptedAlways(p) == TRUE
Accepted(p) == fresh[p]

\* nn = thisenv->env_runs, and the return to devpipe_read or devpipe_write,
\* which gives up or yields and looks again.
PipeIsClosed(p) ==
  /\ pc[p] = "closed?" /\ seen[p].fd # NONE /\ seen[p].pipe # NONE
  /\ IF Accepted(p)
     THEN /\ eof' = [eof EXCEPT ![p] = seen[p].fd = seen[p].pipe]
          /\ Goto(p, IF eof'[p] THEN "user" ELSE "loop")
          /\ seen' = [seen EXCEPT ![p] = NoRefs]
          /\ fresh' = [q \in Proc |-> fresh[q] /\ q # p /\ SMP]
     ELSE Sample(p) /\ UNCHANGED <<pc, eof>>
  /\ UNCHANGED <<maps, pipe>>

-----------------------------------------------------------------------------
(* devpipe_read and devpipe_write                                          *)

\* Mutant: the reader takes what is in the buffer, written or not.
EmptyNever == FALSE
Empty == p_rpos = p_wpos
\* Mutant: one byte too many.
FullOffByOne == p_wpos > p_rpos + PIPEBUFSIZ
Full == p_wpos >= p_rpos + PIPEBUFSIZ

\* A caller that has seen the end does not come back.
Call(p) ==
  /\ p \in {Reader, Writer} /\ Idle(p) /\ fd[<<p, OwnEnd(p)>>] /\ ~eof[p]
  /\ p = Writer => p_wpos < NBytes
  /\ Goto(p, "loop")
  /\ Runs(p)
  /\ UNCHANGED <<maps, pipe, seen, eof>>

\* Mutant: a reader that finds the pipe empty waits without asking if it is closed.
AskNever(p) == Runs(p) /\ UNCHANGED <<pc, seen>>
Ask(p) == Goto(p, "closed?") /\ Sample(p)

\* The head of the loops: a byte or room for one, a short read, or a wait.
ReadLoop(p) ==
  /\ p = Reader /\ pc[p] \in {"loop", "more"}
  /\ \/ ~Empty /\ Goto(p, "access") /\ Runs(p) /\ UNCHANGED seen
     \/ Empty /\ pc[p] = "more" /\ Goto(p, "user") /\ Runs(p) /\ UNCHANGED seen
     \/ Empty /\ pc[p] = "loop" /\ Ask(p)
  /\ UNCHANGED <<maps, pipe, eof>>

WriteLoop(p) ==
  /\ p = Writer /\ pc[p] = "loop"
  /\ \/ ~Full /\ Goto(p, "access") /\ Runs(p) /\ UNCHANGED seen
     \/ Full /\ Ask(p)
  /\ UNCHANGED <<maps, pipe, eof>>

\* buf[i] = p->p_buf[...]  and  p->p_buf[...] = buf[i]: the k-th byte is k.
Access(p) ==
  /\ pc[p] = "access"
  /\ IF p = Reader
     THEN byte' = p_buf[p_rpos % PIPEBUFSIZ] /\ UNCHANGED p_buf
     ELSE p_buf' = [p_buf EXCEPT ![p_wpos % PIPEBUFSIZ] = p_wpos + 1] /\ UNCHANGED byte
  /\ Goto(p, "advance")
  /\ Runs(p)
  /\ UNCHANGED <<maps, p_rpos, p_wpos, seen, eof>>

\* p->p_rpos++  and  p->p_wpos++, and the loop on the length of the buffer.
Advance(p) ==
  /\ pc[p] = "advance"
  /\ IF p = Reader
     THEN /\ p_rpos' = p_rpos + 1 /\ UNCHANGED p_wpos
          /\ Goto(p, "user") \/ Goto(p, "more")
     ELSE /\ p_wpos' = p_wpos + 1 /\ UNCHANGED p_rpos
          /\ Goto(p, "user") \/ (p_wpos' < NBytes /\ Goto(p, "loop"))
  /\ Runs(p)
  /\ UNCHANGED <<maps, p_buf, byte, seen, eof>>

-----------------------------------------------------------------------------
\* pipe() has returned in First.
Init ==
  /\ fd = [s \in Slot |-> s \in {<<First, "r">>, <<First, "w">>}]
  /\ data = fd
  /\ todo = [p \in Proc |-> <<>>]
  /\ born = {First}
  /\ ops = 0
  /\ pc = [p \in Proc |-> "user"]
  /\ seen = [p \in Proc |-> NoRefs]
  /\ fresh = [p \in Proc |-> FALSE]
  /\ p_rpos = 0 /\ p_wpos = 0 /\ byte = 0
  /\ p_buf = [i \in 0 .. PIPEBUFSIZ - 1 |-> 0]
  /\ eof = [p \in Proc |-> FALSE]

\* What a process does once it is inside a call.
Step(p) ==
  SysCall(p) \/ PageRef(p) \/ PipeIsClosed(p) \/ ReadLoop(p) \/ WriteLoop(p)
    \/ Access(p) \/ Advance(p)

\* The pipe is shared before it is used: fork with nobody else at the pipe.
Next == \E p \in Proc :
  \/ Step(p) \/ Call(p) \/ Close(p) \/ Dup(p) \/ DupFails(p) \/ Die(p)
  \/ Fork(p) /\ born = {p}

Spec == Init /\ [][Next]_vars

\* sched_yield is round-robin: a process inside a call gets the CPU.
FairSpec == Spec /\ \A p \in Proc : WF_vars(Step(p))

-----------------------------------------------------------------------------
TypeOK ==
  /\ fd \in [Slot -> BOOLEAN] /\ data \in [Slot -> BOOLEAN]
  /\ pc \in [Proc -> Pc]
  /\ born \subseteq Proc /\ ops \in 0 .. MaxOps
  /\ p_rpos \in 0 .. NBytes /\ p_wpos \in 0 .. NBytes /\ byte \in 0 .. NBytes
  /\ fresh \in [Proc -> BOOLEAN] /\ eof \in [Proc -> BOOLEAN]

Forking(p) == \E i \in DOMAIN todo[p] : todo[p][i].page = "child"
Gone(end) == \A s \in Slot : End(s) = end => ~fd[s] /\ ~data[s]

\* A read returns 0 and a write gives up only when the other end is closed in
\* every environment, whatever close, dup and exit are half way through
\* (the comments of devpipe_read, devpipe_write and user/testpiperace.c).
EofMeansGone ==
  /\ eof[Reader] => Gone("w")
  /\ eof[Writer] => Gone("r")

\* The k-th byte taken is the k-th byte stored, and the writer is never more
\* than a buffer ahead: "wait to increment rpos until the byte is taken!".
ReadsInOrder ==
  /\ p_rpos <= p_wpos /\ p_wpos <= p_rpos + PIPEBUFSIZ
  /\ (pc[Reader] = "advance") => (byte = p_rpos + 1)

\* The reference count of the pipe page is at least the sum of those of the two
\* Fd pages, with equality when no call is under way: what _pipeisclosed relies
\* on, at every moment of close and dup (not of fork, whose parent is alone here).
PipePageCovers ==
  (born # {} /\ \A p \in Proc : ~Forking(p)) =>
     /\ PipeRef >= FdRef("r") + FdRef("w")
     /\ (\A p \in Proc : todo[p] = <<>>) => PipeRef = FdRef("r") + FdRef("w")

\* A reader that waits in an empty pipe whose writers are all gone returns, and
\* a writer that waits in a full one without readers does.
WaitEnds ==
  /\ (pc[Reader] # "user" /\ Gone("w")) ~> (pc[Reader] = "user")
  /\ (pc[Writer] # "user" /\ Gone("r")) ~> (pc[Writer] = "user")

\* "pipe is empty" (devpipe_read): the end of file is after the last byte.
EofAfterLastByte == eof[Reader] => p_rpos = p_wpos
=============================================================================
