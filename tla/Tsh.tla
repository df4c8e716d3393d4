-------------------------------- MODULE Tsh --------------------------------
(***************************************************************************)
(* The job control of the tiny shell, shlab/shlab/tsh.c.                   *)
(*                                                                         *)
(* The shell is one thread: its read/eval loop (`main') and, on top of it, *)
(* a stack of signal handlers.  A step is what runs between two points     *)
(* where a signal can make a difference.  The child processes and the      *)
(* keyboard run at the same time.  Job IDs and command lines are left out: *)
(* a command names its job by its slot in the table.                       *)
(***************************************************************************)
EXTENDS Integers, Sequences, FiniteSetsExt, TLC

CONSTANTS
  Pids,          \* the processes that may be forked; pids are not used again
  NoPid,         \* 0
  MaxJobs,       \* MAXJOBS
  ForkMayFail,   \* may fork() return -1
  KeysOverlap    \* may a key be pressed while an earlier one is being handled

ASSUME PidAssumption == IsFiniteSet(Pids) /\ NoPid \notin Pids
ASSUME JobsAssumption == MaxJobs \in Nat \ {0} /\ {ForkMayFail, KeysOverlap} \subseteq BOOLEAN

\* The processes differ in nothing but their names.
PidsAreAlike == Permutations(Pids)

VARIABLES
  jobs,          \* the job table
  main,          \* where the read/eval loop is
  masked,        \* is SIGCHLD blocked in the loop
  stack,         \* the active signal handlers, the running one first
  pending,       \* the signals that wait for delivery to the shell
  proc,          \* the state of each process
  doomed,        \* stopped processes with a SIGINT waiting for them
  refused,       \* processes addjob said were too many
  fault          \* the undefined behaviour that killed the shell, or "none"
shell == <<jobs, main, masked, stack, refused, fault>>
vars == <<jobs, main, masked, stack, pending, proc, doomed, refused, fault>>

Slots == 1..MaxJobs
EmptySlot == [pid |-> NoPid, state |-> "UNDEF"]

\* The loop reads a command; has forked; has found the job of an fg or bg
\* command; has changed its state; waits for the foreground job.
Reading == [at |-> "read", pid |-> NoPid, slot |-> 1, want |-> "FG", prev |-> FALSE]

KeySignals == {"int", "tstp"}
Signals == KeySignals \cup {"chld"}
Frame(sig) == [sig |-> sig, at |-> "start", pid |-> NoPid]

\* A process that has not called execve yet, runs, has stopped (and waitpid has
\* not told the shell, or it has), has ended, and is reaped.
ProcStates == {"free", "starting", "running", "stopping", "stopped", "zombie", "reaped"}
Stopped == {"stopping", "stopped"}

-----------------------------------------------------------------------------
(* The job table *)

SlotsOf(p) == {k \in Slots : jobs[k].pid = p}

\* fgpid: the first slot in state FG, whether or not it holds a job
FgPid ==
  LET fg == {k \in Slots : jobs[k].state = "FG"}
  IN  IF fg = {} THEN NoPid ELSE jobs[Min(fg)].pid

AddJob(p, st) ==
  \/ /\ SlotsOf(NoPid) # {}
     /\ jobs' = [jobs EXCEPT ![Min(SlotsOf(NoPid))] = [pid |-> p, state |-> st]]
     /\ UNCHANGED refused
  \/ /\ SlotsOf(NoPid) = {}
     /\ refused' = refused \cup {p}
     /\ UNCHANGED jobs

DeleteJob(p) ==
  jobs' = [k \in Slots |-> IF k \in SlotsOf(p) THEN EmptySlot ELSE jobs[k]]

-----------------------------------------------------------------------------
(* Signals to process groups, and what processes do *)

\* kill(-p, sig).  Before setpgid there is no such group, and before execve the
\* child still has the shell's handlers, which find no foreground job.
Interrupt(p) ==
  /\ proc' = IF proc[p] = "running" THEN [proc EXCEPT ![p] = "zombie"] ELSE proc
  /\ pending' = IF proc[p] = "running" THEN pending \cup {"chld"} ELSE pending
  /\ doomed' = IF proc[p] \in Stopped THEN doomed \cup {p} ELSE doomed

Stop(p) ==
  /\ proc' = IF proc[p] = "running" THEN [proc EXCEPT ![p] = "stopping"] ELSE proc
  /\ pending' = IF proc[p] = "running" THEN pending \cup {"chld"} ELSE pending
  /\ UNCHANGED doomed

\* SIGCONT; a stop that was not reported yet will not be reported any more.
Continue(p) ==
  IF p # NoPid /\ proc[p] \in Stopped
  THEN /\ proc' = [proc EXCEPT ![p] = IF p \in doomed THEN "zombie" ELSE "running"]
       /\ doomed' = doomed \ {p}
       /\ pending' = pending \cup {"chld"}
  ELSE UNCHANGED <<proc, doomed, pending>>

Exec(p) ==
  /\ proc[p] = "starting"
  /\ proc' = [proc EXCEPT ![p] = "running"]
  /\ UNCHANGED <<shell, pending, doomed>>

\* The end of a process, of its own or because its command was not found
Exit(p) ==
  /\ proc[p] \in {"starting", "running"}
  /\ proc' = [proc EXCEPT ![p] = "zombie"]
  /\ pending' = pending \cup {"chld"}
  /\ UNCHANGED <<shell, doomed>>

\* mystop.c
StopItself(p) ==
  /\ proc[p] = "running"
  /\ Stop(p)
  /\ UNCHANGED shell

Key(sig) ==
  /\ KeysOverlap \/ KeySignals \cap (pending \cup {stack[i].sig : i \in DOMAIN stack}) = {}
  /\ pending' = pending \cup {sig}
  /\ UNCHANGED <<shell, proc, doomed>>

-----------------------------------------------------------------------------
(* The read/eval loop *)

LoopRuns(at) == fault = "none" /\ stack = <<>> /\ main.at = at

\* Mutant: eval forks without blocking SIGCHLD.
ForkUnblocked(p, want) ==
  /\ LoopRuns("read")
  /\ proc[p] = "free"
  /\ proc' = [proc EXCEPT ![p] = "starting"]
  /\ main' = [Reading EXCEPT !.at = "forked", !.pid = p, !.want = want, !.prev = masked]
  /\ UNCHANGED <<jobs, masked, stack, pending, doomed, refused, fault>>

\* eval of a command that is not built in, up to fork
Fork(p, want) ==
  /\ LoopRuns("read")
  /\ proc[p] = "free"
  /\ proc' = [proc EXCEPT ![p] = "starting"]
  /\ masked' = TRUE
  /\ main' = [Reading EXCEPT !.at = "forked", !.pid = p, !.want = want, !.prev = masked]
  /\ UNCHANGED <<jobs, stack, pending, doomed, refused, fault>>

\* No branch of eval is for pid = -1: the mask stays as it is.
ForkFails ==
  /\ LoopRuns("read")
  /\ ForkMayFail
  /\ masked' = TRUE
  /\ UNCHANGED <<jobs, main, stack, pending, proc, doomed, refused, fault>>

\* The rest of eval in the parent
Add ==
  /\ LoopRuns("forked")
  /\ AddJob(main.pid, main.want)
  /\ masked' = main.prev
  /\ main' = IF main.want = "FG" THEN [Reading EXCEPT !.at = "wait", !.pid = main.pid]
                                 ELSE Reading
  /\ UNCHANGED <<stack, pending, proc, doomed, fault>>

\* do_bgfg up to the pointer into the table
Find(k, want) ==
  /\ LoopRuns("read")
  /\ jobs[k].pid # NoPid
  /\ main' = [Reading EXCEPT !.at = "found", !.slot = k, !.want = want]
  /\ UNCHANGED <<jobs, masked, stack, pending, proc, doomed, refused, fault>>

\* The pid is read, and the state written, whatever the slot holds by now.  (A
\* job that is deleted between the two is the same as one deleted before.)
Mark ==
  /\ LoopRuns("found")
  /\ jobs' = [jobs EXCEPT ![main.slot].state = main.want]
  /\ main' = [main EXCEPT !.at = "marked", !.pid = jobs[main.slot].pid]
  /\ UNCHANGED <<masked, stack, pending, proc, doomed, refused, fault>>

Resume ==
  /\ LoopRuns("marked")
  /\ Continue(main.pid)
  /\ main' = IF main.want = "FG" THEN [Reading EXCEPT !.at = "wait", !.pid = main.pid]
                                 ELSE Reading
  /\ UNCHANGED <<jobs, masked, stack, refused, fault>>

\* waitfg returns: at once without a job, else when fgpid says something else.
WaitFg ==
  /\ LoopRuns("wait")
  /\ main.pid = NoPid \/ FgPid # main.pid
  /\ main' = Reading
  /\ UNCHANGED <<jobs, masked, stack, pending, proc, doomed, refused, fault>>

-----------------------------------------------------------------------------
(* The signal handlers *)

\* A handler blocks its own signal, eval blocks SIGCHLD, and sigchld_handler
\* blocks everything while it changes the table.
Blocked(sig) ==
  \/ \E i \in DOMAIN stack : stack[i].sig = sig
  \/ sig = "chld" /\ masked
  \/ stack # <<>> /\ Head(stack).at \in {"gone", "stopped"}

Deliver(sig) ==
  /\ fault = "none"
  /\ sig \in pending /\ ~Blocked(sig)
  /\ pending' = pending \ {sig}
  /\ stack' = <<Frame(sig)>> \o stack
  /\ UNCHANGED <<jobs, main, masked, proc, doomed, refused, fault>>

Handles(sig, at) ==
  fault = "none" /\ stack # <<>> /\ Head(stack).sig = sig /\ Head(stack).at = at
Goto(at, p) == stack' = <<[Head(stack) EXCEPT !.at = at, !.pid = p]>> \o Tail(stack)
Return == stack' = Tail(stack)

\* sigint_handler and sigtstp_handler: fgpid, and then kill
KeyLook(sig) ==
  /\ Handles(sig, "start")
  /\ IF FgPid = NoPid THEN Return ELSE Goto("kill", FgPid)
  /\ UNCHANGED <<jobs, main, masked, pending, proc, doomed, refused, fault>>

KeyKill(sig) ==
  /\ Handles(sig, "kill")
  /\ IF sig = "int" THEN Interrupt(Head(stack).pid) ELSE Stop(Head(stack).pid)
  /\ Return
  /\ UNCHANGED <<jobs, main, masked, refused, fault>>

\* waitpid in sigchld_handler; its result leads to the next step
Reap ==
  /\ Handles("chld", "start")
  /\ \E p \in Pids :
       \/ /\ proc[p] = "zombie"
          /\ proc' = [proc EXCEPT ![p] = "reaped"]
          /\ Goto("gone", p)
       \/ /\ proc[p] = "stopping"
          /\ proc' = [proc EXCEPT ![p] = "stopped"]
          /\ Goto("stopped", p)
  /\ UNCHANGED <<jobs, main, masked, pending, doomed, refused, fault>>

ReapedAll ==
  /\ Handles("chld", "start")
  /\ \A p \in Pids : proc[p] \notin {"zombie", "stopping"}
  /\ Return
  /\ UNCHANGED <<jobs, main, masked, pending, proc, doomed, refused, fault>>

\* Mutant: the handler takes one child per signal.
JobGoneReturns ==
  /\ Handles("chld", "gone")
  /\ DeleteJob(Head(stack).pid)
  /\ Return
  /\ UNCHANGED <<main, masked, pending, proc, doomed, refused, fault>>

JobGone ==
  /\ Handles("chld", "gone")
  /\ DeleteJob(Head(stack).pid)
  /\ Goto("start", NoPid)
  /\ UNCHANGED <<main, masked, pending, proc, doomed, refused, fault>>

\* Mutant: only a foreground job becomes a stopped one.
JobStoppedInForeground ==
  /\ Handles("chld", "stopped")
  /\ jobs' = [k \in Slots |-> IF jobs[k].pid = Head(stack).pid /\ jobs[k].state = "FG"
                              THEN [jobs[k] EXCEPT !.state = "ST"] ELSE jobs[k]]
  /\ Goto("start", NoPid)
  /\ UNCHANGED <<main, masked, pending, proc, doomed, refused, fault>>

\* A job that is not in the table has no state to set: a NULL pointer.
JobStopped ==
  /\ Handles("chld", "stopped")
  /\ LET slots == SlotsOf(Head(stack).pid)
     IN  \/ /\ slots # {}
            /\ jobs' = [jobs EXCEPT ![Min(slots)].state = "ST"]
            /\ Goto("start", NoPid)
            /\ UNCHANGED fault
         \/ /\ slots = {}
            /\ fault' = "no_job"
            /\ UNCHANGED <<jobs, stack>>
  /\ UNCHANGED <<main, masked, pending, proc, doomed, refused>>

-----------------------------------------------------------------------------
Init ==
  /\ jobs = [k \in Slots |-> EmptySlot]
  /\ main = Reading
  /\ masked = FALSE
  /\ stack = <<>>
  /\ pending = {}
  /\ proc = [p \in Pids |-> "free"]
  /\ doomed = {}
  /\ refused = {}
  /\ fault = "none"

Command ==
  \/ \E p \in Pids, want \in {"FG", "BG"} : Fork(p, want)
  \/ ForkFails
  \/ \E k \in Slots, want \in {"FG", "BG"} : Find(k, want)
Loop == Add \/ Mark \/ Resume \/ WaitFg
KeyHandler(sig) == KeyLook(sig) \/ KeyKill(sig)
ChildHandler == Reap \/ ReapedAll \/ JobGone \/ JobStopped
Environment ==
  \/ \E p \in Pids : Exec(p) \/ Exit(p) \/ StopItself(p)
  \/ \E sig \in KeySignals : Key(sig)

Next ==
  \/ Command \/ Loop \/ ChildHandler
  \/ \E sig \in KeySignals : KeyHandler(sig)
  \/ \E sig \in Signals : Deliver(sig)
  \/ Environment

\* The shell goes on, and a handler that is always interrupted by another key
\* runs in the end.  Users and processes do what they like.
Fairness ==
  /\ SF_vars(Loop) /\ SF_vars(ChildHandler) /\ SF_vars(Deliver("chld"))
  /\ \A sig \in KeySignals : SF_vars(KeyHandler(sig))

Spec == Init /\ [][Next]_vars /\ Fairness
-----------------------------------------------------------------------------
(* Properties *)

\* A process the loop has forked but not added, and one the handler has reaped
\* but not deleted
Adding(p) == main.at = "forked" /\ main.pid = p
Deleting(p) == stack # <<>> /\ Head(stack).at = "gone" /\ Head(stack).pid = p

\* The table agrees with the children: each is in exactly one slot from addjob
\* until it is reaped, unless it was refused, and no job outlives its process.
\* It is what blocking SIGCHLD around fork and addjob is for.
TableTracksChildren ==
  \A p \in Pids :
    Cardinality(SlotsOf(p)) =
      IF p \in refused \/ proc[p] = "free" \/ Adding(p) THEN 0
      ELSE IF proc[p] = "reaped" /\ ~Deleting(p) THEN 0
      ELSE 1

\* When the shell has nothing left to do, a stopped job is listed as stopped, so
\* that the user knows it waits for fg or bg.
StoppedJobsShown ==
  stack = <<>> /\ "chld" \notin pending /\ main.at \in {"read", "wait"} =>
    \A k \in Slots :
      jobs[k].pid # NoPid /\ proc[jobs[k].pid] \in Stopped => jobs[k].state = "ST"

\* sigchld_handler uses the job of a stopped child without asking whether it has
\* one: it has, unless addjob found the table full.
CrashNeedsRefusal == fault # "none" => refused # {}

\* fgpid returns the pid of the current foreground job.
FgPidIsForeground ==
  \A k \in Slots :
    jobs[k].pid # NoPid /\ jobs[k].state = "FG" => FgPid = jobs[k].pid

\* Once the foreground job has stopped or ended, the prompt comes back, although
\* signals of several children merge into one.  (After a fork that failed,
\* SIGCHLD stays blocked, and the loop waits for ever.)
PromptComesBack ==
  (main.at = "wait" /\ ~masked /\ main.pid # NoPid /\ proc[main.pid] \notin {"starting", "running"})
    ~> (main.at # "wait" \/ fault # "none")
=============================================================================
