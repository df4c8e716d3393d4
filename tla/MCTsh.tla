------------------------------- MODULE MCTsh --------------------------------
(***************************************************************************)
(* Two ways to use the shell in one run.  In the one, keys are pressed one *)
(* at a time and there is a slot for every job.  In the other, keys are    *)
(* pressed at any time, up to KeysAtOnce of them, and a background job     *)
(* that runs throughout holds a slot, so that addjob refuses a child.      *)
(***************************************************************************)
EXTENDS Tsh

CONSTANTS Daemon,      \* the process of that job
          KeysAtOnce   \* bounds the keys pressed before the first is handled

ASSUME ShellsAssumption == Daemon \in Pids /\ KeysAtOnce \in Nat

VARIABLE crowded

ShellsInit ==
  /\ crowded \in BOOLEAN
  /\ IF crowded
     THEN /\ jobs = [k \in Slots |-> IF k = 1 THEN [pid |-> Daemon, state |-> "BG"] ELSE EmptySlot]
          /\ proc = [p \in Pids |-> IF p = Daemon THEN "running" ELSE "free"]
     ELSE /\ jobs = [k \in Slots |-> EmptySlot]
          /\ proc = [p \in Pids |-> "free"]
  /\ main = Reading /\ masked = FALSE
  /\ stack = <<>> /\ pending = {}
  /\ doomed = {} /\ refused = {} /\ fault = "none"

\* No command and no signal is for the background job, and it does not end.
DaemonRuns ==
  /\ proc'[Daemon] = proc[Daemon]
  /\ main'.at = "found" => jobs[main'.slot].pid # Daemon

\* The keys that wait for delivery or are being handled
KeysUnderWay(signals, handlers) ==
  Cardinality(KeySignals \cap signals) + Cardinality({i \in DOMAIN handlers : handlers[i].sig \in KeySignals})

ShellsNext ==
  /\ UNCHANGED crowded
  /\ Next
  /\ DaemonRuns
  /\ KeysUnderWay(pending', stack') <= IF crowded THEN KeysAtOnce ELSE 1

ShellsSpec == ShellsInit /\ [][ShellsNext]_<<vars, crowded>> /\ Fairness
=============================================================================
