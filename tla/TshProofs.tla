----------------------------- MODULE TshProofs ------------------------------
(***************************************************************************)
(* The job table and the children of the shell agree, and stopped jobs are *)
(* listed as stopped, for every number of processes and of jobs, with      *)
(* fork failing and keys overlapping or not.                               *)
(***************************************************************************)
EXTENDS Tsh, FiniteSetTheorems, WellFoundedInduction, TLAPS

Jobs  == [pid : Pids \cup {NoPid}, state : {"UNDEF", "FG", "BG", "ST"}]
Loops == [at : {"read", "forked", "found", "marked", "wait"}, pid : Pids \cup {NoPid},
          slot : Slots, want : {"FG", "BG"}, prev : BOOLEAN]
Frames == [sig : KeySignals, at : {"start"}, pid : {NoPid}]
          \cup [sig : KeySignals, at : {"kill"}, pid : Pids]
          \cup [sig : {"chld"}, at : {"start"}, pid : {NoPid}]
          \cup [sig : {"chld"}, at : {"gone", "stopped"}, pid : Pids]

TypeOK ==
  /\ jobs \in [Slots -> Jobs]
  /\ main \in Loops
  /\ masked \in BOOLEAN
  /\ stack \in Seq(Frames)
  /\ pending \subseteq Signals
  /\ proc \in [Pids -> ProcStates]
  /\ refused \subseteq Pids

\* sigchld_handler is active somewhere on the stack.
Reaping == \E i \in 1..Len(stack) : stack[i].sig = "chld"

\* While the handler changes the table nothing interrupts it, so only the
\* running handler can have a child in its hands; and that child stays as it is.
HandlerAlone ==
  /\ \A i \in 2..Len(stack) : stack[i].at \notin {"gone", "stopped"}
  /\ stack # <<>> /\ stack[1].at = "gone" => proc[stack[1].pid] = "reaped"
  /\ stack # <<>> /\ stack[1].at = "stopped" => proc[stack[1].pid] = "stopped"

\* Between fork and addjob SIGCHLD is blocked, so no handler reaps the child.
ForkProtected ==
  main.at = "forked" =>
    /\ masked /\ ~Reaping
    /\ main.pid \in Pids /\ main.pid \notin refused
    /\ proc[main.pid] \in {"starting", "running", "stopping", "zombie"}

\* A process that has not been forked yet was not refused.
FreeNotRefused == \A p \in refused : proc[p] # "free"

\* The slots of a child, in the terms of TableTracksChildren
Listed(p) == /\ p \notin refused /\ proc[p] # "free" /\ ~Adding(p)
             /\ proc[p] = "reaped" => Deleting(p)

\* A process in the table is in one slot, and all others are in none.
TableOK == \A p \in Pids : /\ Listed(p) <=> SlotsOf(p) # {}
                           /\ \A k, l \in SlotsOf(p) : k = l

\* A child with news is one that the handler will still be told of, or will
\* still ask for.
NewsDue == (\E p \in Pids : proc[p] \in {"zombie", "stopping"}) => "chld" \in pending \/ Reaping

\* A job whose stop was reported is marked as stopped, or the handler is about
\* to do so, or bg or fg has marked it already as what it is about to make it.
Holding(at, p) == stack # <<>> /\ stack[1].at = at /\ stack[1].pid = p
StopsListed ==
  \A k \in Slots :
    LET p == jobs[k].pid
    IN  p # NoPid /\ proc[p] = "stopped" =>
          jobs[k].state = "ST" \/ Holding("stopped", p) \/ (main.at = "marked" /\ main.pid = p)

IInv == /\ TypeOK /\ HandlerAlone /\ ForkProtected /\ FreeNotRefused /\ TableOK
        /\ NewsDue /\ StopsListed
-----------------------------------------------------------------------------
\* TableOK counts the slots.
LEMMA TableCounts == TableOK <=> TableTracksChildren
<1>1. \A p \in Pids : IsFiniteSet(SlotsOf(p))
  <2>1. MaxJobs \in Int /\ 1 \in Int BY JobsAssumption
  <2>2. IsFiniteSet(Slots) BY <2>1, FS_Interval DEF Slots
  <2>3. \A p \in Pids : SlotsOf(p) \in SUBSET Slots BY DEF SlotsOf
  <2> QED BY <2>2, <2>3, FS_Subset
<1>2. ASSUME NEW p \in Pids
      PROVE  /\ Cardinality(SlotsOf(p)) = 0 <=> SlotsOf(p) = {}
             /\ Cardinality(SlotsOf(p)) = 1 <=>
                  (SlotsOf(p) # {} /\ \A k, l \in SlotsOf(p) : k = l)
  <2>1. Cardinality(SlotsOf(p)) = 0 <=> SlotsOf(p) = {} BY <1>1, FS_EmptySet
  <2>2. Cardinality(SlotsOf(p)) = 1 <=> \E k : SlotsOf(p) = {k} BY <1>1, FS_Singleton
  <2>3. (\E k : SlotsOf(p) = {k}) <=> (SlotsOf(p) # {} /\ \A k, l \in SlotsOf(p) : k = l)
    OBVIOUS
  <2> QED BY <2>1, <2>2, <2>3
<1>3. ASSUME NEW p \in Pids
      PROVE  Cardinality(SlotsOf(p)) =
               (IF p \in refused \/ proc[p] = "free" \/ Adding(p) THEN 0
                ELSE IF proc[p] = "reaped" /\ ~Deleting(p) THEN 0 ELSE 1)
             <=> /\ Listed(p) <=> SlotsOf(p) # {}
                 /\ \A k, l \in SlotsOf(p) : k = l
  <2>1. CASE Listed(p) BY <2>1, <1>2 DEF Listed
  <2>2. CASE ~Listed(p) BY <2>2, <1>2 DEF Listed
  <2> QED BY <2>1, <2>2
<1> QED BY <1>3 DEF TableOK, TableTracksChildren

\* addjob finds a first empty slot.
LEMMA FirstSlot ==
  ASSUME NEW S \in SUBSET Slots, S # {}
  PROVE  Min(S) \in S
<1>1. S \subseteq Nat BY JobsAssumption DEF Slots
<1>2. PICK x \in S : \A y \in S : ~(<<y, x>> \in OpToRel(<, Nat))
  BY <1>1, WFMin, NatLessThanWellFounded
<1>3. \A m, n \in Nat : <<m, n>> \in OpToRel(<, Nat) <=> m < n
  BY DEF OpToRel
<1>4. \A y \in S : ~(y < x) BY <1>1, <1>2, <1>3, Zenon
<1>5. \A y \in S : x =< y BY <1>1, <1>4
<1> QED BY <1>5 DEF Min

LEMMA InitOK == Init => IInv
<1> SUFFICES ASSUME Init PROVE IInv OBVIOUS
<1>1. TypeOK
  <2>1. 1 \in Slots BY JobsAssumption DEF Slots
  <2>2. EmptySlot \in Jobs BY DEF EmptySlot, Jobs
  <2>3. Reading \in Loops BY <2>1 DEF Reading, Loops
  <2>4. <<>> \in Seq(Frames) OBVIOUS
  <2> QED BY <2>2, <2>3, <2>4 DEF Init, TypeOK, ProcStates
<1>2. HandlerAlone /\ ForkProtected /\ FreeNotRefused
  BY DEF Init, HandlerAlone, ForkProtected, FreeNotRefused, Reading
<1>4. NewsDue /\ StopsListed
  BY DEF Init, NewsDue, StopsListed, EmptySlot
<1>3. TableOK
  BY PidAssumption DEF Init, TableOK, Listed, SlotsOf, EmptySlot, Slots
<1> QED BY <1>1, <1>2, <1>3, <1>4 DEF IInv
-----------------------------------------------------------------------------
(* The stack of handlers *)

LEMMA Pushed ==
  ASSUME NEW S, NEW s \in Seq(S), NEW f \in S
  PROVE  LET t == <<f>> \o s
         IN  /\ t \in Seq(S) /\ Len(t) = Len(s) + 1 /\ t # <<>>
             /\ t[1] = f /\ \A i \in 1..Len(s) : t[i + 1] = s[i]
OBVIOUS

LEMMA Popped ==
  ASSUME NEW S, NEW s \in Seq(S), s # <<>>
  PROVE  /\ Len(s) \in Nat \ {0} /\ s[1] \in S /\ Head(s) = s[1]
         /\ Tail(s) \in Seq(S) /\ Len(Tail(s)) = Len(s) - 1
         /\ \A i \in 1..Len(s) - 1 : Tail(s)[i] = s[i + 1]
OBVIOUS

\* The running handler goes on.
LEMMA HandlerGoesOn ==
  ASSUME TypeOK, stack # <<>>, NEW at, NEW p, Goto(at, p),
         [stack[1] EXCEPT !.at = at, !.pid = p] \in Frames
  PROVE  /\ stack' \in Seq(Frames) /\ stack' # <<>>
         /\ stack'[1].at = at /\ stack'[1].pid = p /\ stack'[1].sig = stack[1].sig
         /\ Len(stack') = Len(stack) /\ \A i \in 2..Len(stack) : stack'[i] = stack[i]
         /\ Reaping' <=> Reaping
<1> DEFINE f == [stack[1] EXCEPT !.at = at, !.pid = p]
<1>1. stack \in Seq(Frames) BY DEF TypeOK
<1>2. /\ Len(stack) \in Nat \ {0} /\ stack[1] \in Frames /\ Head(stack) = stack[1]
      /\ Tail(stack) \in Seq(Frames) /\ Len(Tail(stack)) = Len(stack) - 1
      /\ \A i \in 1..Len(stack) - 1 : Tail(stack)[i] = stack[i + 1]
  BY <1>1, Popped
<1>3. stack' = <<f>> \o Tail(stack) BY <1>2 DEF Goto
<1>4. f.at = at /\ f.pid = p /\ f.sig = stack[1].sig BY <1>2 DEF Frames
<1> HIDE DEF f
<1>5. /\ stack' \in Seq(Frames) /\ Len(stack') = Len(Tail(stack)) + 1 /\ stack' # <<>>
      /\ stack'[1] = f /\ \A i \in 1..Len(Tail(stack)) : stack'[i + 1] = Tail(stack)[i]
  BY <1>2, <1>3, Pushed, SMTT(30) DEF f
<1>6. \A i \in 2..Len(stack) : stack'[i] = stack[i]
  <2> TAKE i \in 2..Len(stack)
  <2>1. i - 1 \in 1..Len(stack) - 1 /\ (i - 1) + 1 = i BY <1>2
  <2> QED BY <2>1, <1>2, <1>5
<1>7. Len(stack') = Len(stack) BY <1>2, <1>5
<1>8. \A i \in 1..Len(stack) : stack'[i].sig = stack[i].sig
  BY <1>2, <1>4, <1>5, <1>6
<1>9. Reaping' <=> Reaping BY <1>7, <1>8 DEF Reaping
<1> QED BY <1>4, <1>5, <1>6, <1>7, <1>9

\* The running handler returns to the one below it, which holds no child.
LEMMA HandlerReturns ==
  ASSUME TypeOK, HandlerAlone, stack # <<>>, Return
  PROVE  /\ stack' \in Seq(Frames)
         /\ \A i \in 1..Len(stack') : stack'[i].at \notin {"gone", "stopped"}
         /\ stack' # <<>> => stack'[1].at \notin {"gone", "stopped"}
         /\ Reaping' => Reaping
         /\ stack[1].sig # "chld" /\ Reaping => Reaping'
<1>1. stack \in Seq(Frames) /\ stack' = Tail(stack) BY DEF TypeOK, Return
<1>2. /\ Len(stack) \in Nat \ {0} /\ stack' \in Seq(Frames) /\ Len(stack') = Len(stack) - 1
      /\ \A i \in 1..Len(stack) - 1 : stack'[i] = stack[i + 1]
  BY <1>1, Popped
<1>3. \A i \in 1..Len(stack') : i + 1 \in 2..Len(stack) /\ stack'[i] = stack[i + 1]
  BY <1>2
<1>4. \A i \in 1..Len(stack') : stack'[i].at \notin {"gone", "stopped"}
  BY <1>3 DEF HandlerAlone
<1>5. stack' # <<>> => 1 \in 1..Len(stack') BY <1>2
<1>6. ASSUME stack[1].sig # "chld", Reaping PROVE Reaping'
  <2>1. PICK i \in 1..Len(stack) : stack[i].sig = "chld" BY <1>6 DEF Reaping
  <2>2. i - 1 \in 1..Len(stack') /\ (i - 1) + 1 = i BY <2>1, <1>6, <1>2
  <2> QED BY <2>1, <2>2, <1>3 DEF Reaping
<1>7. Reaping' => Reaping
  <2>1. \A i \in 1..Len(stack') : i + 1 \in 1..Len(stack) BY <1>2
  <2> QED BY <2>1, <1>3 DEF Reaping
<1> QED BY <1>2, <1>4, <1>5, <1>6, <1>7

\* A handler is entered.
LEMMA HandlerEntered ==
  ASSUME TypeOK, NEW f \in Frames, stack' = <<f>> \o stack
  PROVE  /\ stack' \in Seq(Frames) /\ stack' # <<>> /\ stack'[1] = f
         /\ \A i \in 2..Len(stack') : i - 1 \in 1..Len(stack) /\ stack'[i] = stack[i - 1]
         /\ Reaping' <=> Reaping \/ f.sig = "chld"
<1>1. /\ stack \in Seq(Frames) /\ Len(stack) \in Nat
      /\ stack' \in Seq(Frames) /\ Len(stack') = Len(stack) + 1 /\ stack' # <<>>
      /\ stack'[1] = f /\ \A i \in 1..Len(stack) : stack'[i + 1] = stack[i]
  BY Pushed DEF TypeOK
<1>2. \A i \in 2..Len(stack') : i - 1 \in 1..Len(stack) /\ stack'[i] = stack[i - 1]
  <2> TAKE i \in 2..Len(stack')
  <2>1. i - 1 \in 1..Len(stack) /\ (i - 1) + 1 = i BY <1>1
  <2> QED BY <2>1, <1>1
<1>3. ASSUME Reaping PROVE Reaping'
  <2>1. PICK i \in 1..Len(stack) : stack[i].sig = "chld" BY <1>3 DEF Reaping
  <2>2. i + 1 \in 1..Len(stack') /\ stack'[i + 1] = stack[i] BY <1>1
  <2> QED BY <2>1, <2>2 DEF Reaping
<1>4. ASSUME f.sig = "chld" PROVE Reaping'
  <2>1. 1 \in 1..Len(stack') BY <1>1
  <2> QED BY <2>1, <1>1, <1>4 DEF Reaping
<1>5. ASSUME Reaping' PROVE Reaping \/ f.sig = "chld"
  <2>1. PICK i \in 1..Len(stack') : stack'[i].sig = "chld" BY <1>5 DEF Reaping
  <2>2. i = 1 \/ i \in 2..Len(stack') BY <1>1
  <2> QED BY <2>1, <2>2, <1>1, <1>2 DEF Reaping
<1> QED BY <1>1, <1>2, <1>3, <1>4, <1>5
-----------------------------------------------------------------------------
(* The steps *)

\* What the running handler has in its hands is all there is to Deleting.
LEMMA DeletingIsHolding == TypeOK => \A p : Deleting(p) <=> Holding("gone", p)
<1> SUFFICES ASSUME TypeOK PROVE \A p : Deleting(p) <=> Holding("gone", p) OBVIOUS
<1>1. stack # <<>> => Head(stack) = stack[1] BY Popped DEF TypeOK
<1> QED BY <1>1 DEF Deleting, Holding

\* The states that processes take by themselves and by signals: they are born by
\* fork and buried by waitpid, which also takes note of stops.
Moves(p) == \/ proc'[p] = proc[p]
            \/ proc[p] \notin {"free", "reaped"} /\ proc'[p] \in {"running", "stopping", "zombie"}

\* Processes that move disturb nothing, as long as the shell is told.
LEMMA ProcessesMove ==
  ASSUME IInv, TypeOK', HandlerAlone', UNCHANGED <<jobs, main, masked, refused>>,
         \A p \in Pids : Moves(p),
         \A p \in Pids : proc'[p] \in {"zombie", "stopping"} /\ proc'[p] # proc[p] => "chld" \in pending',
         "chld" \in pending => "chld" \in pending',
         Reaping' <=> Reaping,
         \A at \in {"gone", "stopped"} : \A p : Holding(at, p)' <=> Holding(at, p)
  PROVE  IInv'
<1> USE DEF IInv
<1>1. \A p : SlotsOf(p)' = SlotsOf(p) BY DEF SlotsOf
<1>2. \A p \in Pids : /\ proc'[p] = "free" <=> proc[p] = "free"
                      /\ proc'[p] = "reaped" <=> proc[p] = "reaped"
  BY DEF Moves
<1>3. \A p : Deleting(p)' <=> Deleting(p)
  <2>1. stack' # <<>> => Head(stack') = stack'[1] BY Popped DEF TypeOK
  <2>2. \A p : Deleting(p)' <=> Holding("gone", p)' BY <2>1 DEF Deleting, Holding
  <2> QED BY <2>2, DeletingIsHolding
<1>4. \A p : Adding(p)' <=> Adding(p) BY DEF Adding
<1>5. TableOK'
  <2>1. \A p \in Pids : Listed(p)' <=> Listed(p) BY <1>2, <1>3, <1>4 DEF Listed
  <2> QED BY <2>1, <1>1 DEF TableOK
<1>6. ForkProtected' BY DEF ForkProtected, Moves
<1>7. FreeNotRefused' BY <1>2 DEF FreeNotRefused, TypeOK
<1>8. NewsDue' BY DEF NewsDue
<1>9. StopsListed'
  <2> SUFFICES ASSUME NEW k \in Slots, jobs[k].pid # NoPid, proc'[jobs[k].pid] = "stopped"
               PROVE  \/ jobs[k].state = "ST" \/ Holding("stopped", jobs[k].pid)
                      \/ main.at = "marked" /\ main.pid = jobs[k].pid
    BY DEF StopsListed
  <2>1. jobs[k].pid \in Pids BY DEF TypeOK, Jobs
  <2>2. proc[jobs[k].pid] = "stopped" BY <2>1 DEF Moves
  <2> QED BY <2>2 DEF StopsListed
<1> QED BY <1>5, <1>6, <1>7, <1>8, <1>9

LEMMA ForkStep ==
  ASSUME IInv, NEW p \in Pids, NEW want \in {"FG", "BG"}, Fork(p, want)
  PROVE  IInv'
<1> USE DEF IInv
<1>0. stack = <<>> /\ stack' = <<>> /\ main.at = "read" /\ proc[p] = "free"
  BY DEF Fork, LoopRuns
<1>1. main' = [Reading EXCEPT !.at = "forked", !.pid = p, !.want = want, !.prev = masked]
  BY DEF Fork
<1>2. main'.at = "forked" /\ main'.pid = p /\ main' \in Loops
  <2>1. 1 \in Slots BY JobsAssumption DEF Slots
  <2> QED BY <1>1, <2>1 DEF Reading, Loops, TypeOK
<1>3. proc' = [proc EXCEPT ![p] = "starting"] /\ masked' /\ UNCHANGED <<jobs, pending, refused>>
  BY DEF Fork
<1>4. TypeOK' BY <1>0, <1>2, <1>3 DEF TypeOK, ProcStates
<1>5. /\ ~Reaping /\ ~Reaping' /\ \A q : ~Deleting(q) /\ ~Deleting(q)'
      /\ \A at, q : ~Holding(at, q) /\ ~Holding(at, q)'
  BY <1>0 DEF Reaping, Deleting, Holding
<1>6. proc[p] = "free" /\ p \notin refused BY <1>0 DEF FreeNotRefused
<1>7. proc'[p] = "starting" /\ \A q \in Pids \ {p} : proc'[q] = proc[q]
  BY <1>3 DEF TypeOK
<1>8. HandlerAlone' BY <1>0 DEF HandlerAlone
<1>9. ForkProtected' BY <1>2, <1>3, <1>5, <1>6, <1>7 DEF ForkProtected
<1>10. FreeNotRefused' BY <1>3, <1>6, <1>7 DEF FreeNotRefused, TypeOK
<1>11. TableOK'
  <2>1. \A q : SlotsOf(q)' = SlotsOf(q) BY <1>3 DEF SlotsOf
  <2>2. ASSUME NEW q \in Pids PROVE Listed(q)' <=> Listed(q)
    <3>1. CASE q = p BY <3>1, <1>2, <1>6 DEF Listed, Adding
    <3>2. CASE q # p BY <3>2, <1>0, <1>2, <1>3, <1>5, <1>7 DEF Listed, Adding
    <3> QED BY <3>1, <3>2
  <2> QED BY <2>1, <2>2 DEF TableOK
<1>12. NewsDue' BY <1>3, <1>5, <1>7 DEF NewsDue
<1>13. StopsListed'
  <2> SUFFICES ASSUME NEW k \in Slots, jobs[k].pid # NoPid, proc'[jobs[k].pid] = "stopped"
               PROVE  jobs[k].state = "ST"
    BY <1>3 DEF StopsListed
  <2>1. proc[jobs[k].pid] = "stopped" BY <1>7 DEF TypeOK, Jobs
  <2> QED BY <2>1, <1>0, <1>5 DEF StopsListed
<1> QED BY <1>4, <1>8, <1>9, <1>10, <1>11, <1>12, <1>13

\* Steps of the loop that change neither the table nor the children
LEMMA LoopGoesOn ==
  ASSUME IInv, main' \in Loops, masked' \in BOOLEAN,
         UNCHANGED <<jobs, stack, pending, proc, refused>>,
         main.at # "forked", main'.at # "forked", main.at = "marked" => main'.at = "marked"
         /\ main'.pid = main.pid
  PROVE  IInv'
<1> USE DEF IInv
<1>1. TypeOK' BY DEF TypeOK
<1>2. /\ Reaping' <=> Reaping
      /\ \A p : (Deleting(p)' <=> Deleting(p)) /\ (Adding(p)' <=> Adding(p))
      /\ \A at, p : Holding(at, p)' <=> Holding(at, p)
  BY DEF Reaping, Deleting, Adding, Holding
<1>3. HandlerAlone' /\ ForkProtected' /\ FreeNotRefused' /\ NewsDue'
  BY <1>2 DEF HandlerAlone, ForkProtected, FreeNotRefused, NewsDue
<1>4. TableOK'
  <2>1. \A p : (SlotsOf(p)' = SlotsOf(p)) /\ (Listed(p)' <=> Listed(p))
    BY <1>2 DEF SlotsOf, Listed
  <2> QED BY <2>1 DEF TableOK
<1>5. StopsListed' BY <1>2 DEF StopsListed
<1> QED BY <1>1, <1>3, <1>4, <1>5

\* eval adds the child, whatever has happened to it since the fork, or refuses it.
LEMMA AddStep == IInv /\ Add => IInv'
<1> SUFFICES ASSUME IInv, Add PROVE IInv' OBVIOUS
<1> USE DEF IInv
<1> PICK p : p = main.pid OBVIOUS
<1>0. stack = <<>> /\ stack' = <<>> /\ main.at = "forked" /\ UNCHANGED <<pending, proc>>
  BY DEF Add, LoopRuns
<1>1. /\ p \in Pids /\ p # NoPid /\ p \notin refused /\ proc[p] \in {"starting", "running", "stopping", "zombie"}
  BY <1>0, PidAssumption DEF ForkProtected
<1>2. main' \in Loops /\ main'.at \in {"read", "wait"}
  <2>1. 1 \in Slots BY JobsAssumption DEF Slots
  <2> QED BY <1>1, <2>1 DEF Add, Reading, Loops
<1>3. masked' \in BOOLEAN /\ main.want \in {"FG", "BG"} /\ AddJob(p, main.want)
  BY DEF Add, TypeOK, Loops
<1>4. /\ \A q : ~Deleting(q) /\ ~Deleting(q)'
      /\ \A at, q : ~Holding(at, q) /\ ~Holding(at, q)'
      /\ ~Reaping /\ ~Reaping'
  BY <1>0 DEF Deleting, Holding, Reaping
<1>5. \A q : (Adding(q) <=> q = p) /\ ~Adding(q)' BY <1>0, <1>2 DEF Adding
<1>6. SlotsOf(p) = {} BY <1>1, <1>5 DEF TableOK, Listed
<1>7. HandlerAlone' BY <1>0 DEF HandlerAlone
<1>8. ForkProtected' BY <1>2 DEF ForkProtected
<1>9. NewsDue' BY <1>0, <1>4 DEF NewsDue
<1>10. CASE SlotsOf(NoPid) = {}
  <2>1. refused' = refused \cup {p} /\ UNCHANGED jobs BY <1>3, <1>10 DEF AddJob
  <2>2. TypeOK' BY <1>0, <1>1, <1>2, <1>3, <2>1 DEF TypeOK
  <2>3. FreeNotRefused' BY <1>0, <1>1, <2>1 DEF FreeNotRefused
  <2>4. TableOK'
    <3>1. \A q : SlotsOf(q)' = SlotsOf(q) BY <2>1 DEF SlotsOf
    <3>2. \A q \in Pids : Listed(q)' <=> Listed(q) BY <1>0, <1>4, <1>5, <2>1 DEF Listed
    <3> QED BY <3>1, <3>2 DEF TableOK
  <2>5. StopsListed' BY <1>0, <1>4, <2>1 DEF StopsListed
  <2> QED BY <1>7, <1>8, <1>9, <2>2, <2>3, <2>4, <2>5
<1>11. CASE SlotsOf(NoPid) # {}
  <2> DEFINE e == Min(SlotsOf(NoPid))
  <2> PICK job : job = [pid |-> p, state |-> main.want] OBVIOUS
  <2>1. e \in SlotsOf(NoPid) BY <1>11, FirstSlot DEF SlotsOf
  <2>2. e \in Slots /\ jobs[e].pid = NoPid BY <2>1 DEF SlotsOf
  <2> HIDE DEF e
  <2>3. jobs' = [jobs EXCEPT ![e] = job] /\ UNCHANGED refused
    BY <1>3, <1>11 DEF AddJob, e
  <2>4. job \in Jobs /\ job.pid = p BY <1>1 DEF Jobs, TypeOK, Loops
  <2>5. jobs'[e] = job /\ \A k \in Slots \ {e} : jobs'[k] = jobs[k]
    BY <2>2, <2>3 DEF TypeOK
  <2>6. TypeOK' BY <1>0, <1>2, <1>3, <2>3, <2>4 DEF TypeOK
  <2>7. FreeNotRefused' BY <1>0, <2>3 DEF FreeNotRefused
  <2>8. TableOK'
    <3>1. SlotsOf(p)' = {e} BY <1>1, <1>6, <2>2, <2>4, <2>5 DEF SlotsOf
    <3>2. ASSUME NEW q \in Pids, q # p PROVE SlotsOf(q)' = SlotsOf(q)
      BY <3>2, <2>2, <2>4, <2>5, PidAssumption DEF SlotsOf
    <3>3. Listed(p)' BY <1>0, <1>1, <1>5, <2>3 DEF Listed
    <3>4. \A q \in Pids : q # p => (Listed(q)' <=> Listed(q))
      BY <1>0, <1>4, <1>5, <2>3 DEF Listed
    <3> QED BY <3>1, <3>2, <3>3, <3>4 DEF TableOK
  <2>9. StopsListed'
    <3> SUFFICES ASSUME NEW k \in Slots, jobs'[k].pid # NoPid, proc'[jobs'[k].pid] = "stopped"
                 PROVE  jobs'[k].state = "ST"
      BY DEF StopsListed
    <3>1. k # e BY <1>0, <1>1, <2>4, <2>5
    <3> QED BY <3>1, <1>0, <1>4, <2>5 DEF StopsListed
  <2> QED BY <1>7, <1>8, <1>9, <2>6, <2>7, <2>8, <2>9
<1> QED BY <1>10, <1>11

\* The state of a slot's job changes, and nothing else of the table.
LEMMA SameSlots ==
  ASSUME NEW k \in Slots, NEW st, jobs \in [Slots -> Jobs], jobs' = [jobs EXCEPT ![k].state = st]
  PROVE  /\ jobs'[k].state = st
         /\ \A l \in Slots : jobs'[l].pid = jobs[l].pid
         /\ \A l \in Slots \ {k} : jobs'[l] = jobs[l]
         /\ \A p : SlotsOf(p)' = SlotsOf(p)
         /\ st \in {"FG", "BG", "ST"} => jobs' \in [Slots -> Jobs]
<1>1. jobs'[k] = [jobs[k] EXCEPT !.state = st] /\ jobs[k] \in Jobs OBVIOUS
<1>2. jobs'[k].state = st /\ jobs'[k].pid = jobs[k].pid
      /\ (st \in {"FG", "BG", "ST"} => jobs'[k] \in Jobs)
  BY <1>1 DEF Jobs
<1>3. \A l \in Slots \ {k} : jobs'[l] = jobs[l] OBVIOUS
<1>4. \A l \in Slots : jobs'[l].pid = jobs[l].pid BY <1>2, <1>3
<1>5. \A p : SlotsOf(p)' = SlotsOf(p) BY <1>4 DEF SlotsOf
<1>6. ASSUME st \in {"FG", "BG", "ST"} PROVE jobs' \in [Slots -> Jobs]
  BY <1>6, <1>2, <1>3
<1> QED BY <1>2, <1>3, <1>4, <1>5, <1>6

\* do_bgfg marks the slot it has found, which may be empty by now.
LEMMA MarkStep == IInv /\ Mark => IInv'
<1> SUFFICES ASSUME IInv, Mark PROVE IInv' OBVIOUS
<1> USE DEF IInv
<1>0. stack = <<>> /\ main.at = "found" /\ UNCHANGED <<stack, masked, pending, proc, refused>>
  BY DEF Mark, LoopRuns
<1> DEFINE k == main.slot
<1>1. k \in Slots /\ main.want \in {"FG", "BG"} BY DEF TypeOK, Loops
<1>2. jobs' = [jobs EXCEPT ![k].state = main.want] BY DEF Mark
<1>3. main' = [main EXCEPT !.at = "marked", !.pid = jobs[k].pid] BY DEF Mark
<1>4. main' \in Loops /\ main'.at = "marked" /\ main'.pid = jobs[k].pid
  BY <1>1, <1>3 DEF TypeOK, Loops, Jobs
<1>5. /\ \A l \in Slots : jobs'[l].pid = jobs[l].pid
      /\ \A l \in Slots \ {k} : jobs'[l] = jobs[l]
      /\ \A p : SlotsOf(p)' = SlotsOf(p)
      /\ jobs' \in [Slots -> Jobs]
  BY <1>1, <1>2, SameSlots DEF TypeOK
<1>6. TypeOK' BY <1>0, <1>4, <1>5 DEF TypeOK
<1>7. /\ Reaping' <=> Reaping
      /\ \A p : ~Deleting(p) /\ ~Deleting(p)'
      /\ \A p : ~Adding(p) /\ ~Adding(p)'
      /\ \A at, p : ~Holding(at, p)
  BY <1>0, <1>4 DEF Reaping, Deleting, Adding, Holding
<1>8. HandlerAlone' /\ ForkProtected' /\ FreeNotRefused' /\ NewsDue'
  BY <1>0, <1>4, <1>7 DEF HandlerAlone, ForkProtected, FreeNotRefused, NewsDue
<1>9. TableOK'
  <2>1. \A p \in Pids : Listed(p)' <=> Listed(p) BY <1>0, <1>7 DEF Listed
  <2> QED BY <2>1, <1>5 DEF TableOK
<1>10. StopsListed'
  <2> SUFFICES ASSUME NEW l \in Slots, jobs'[l].pid # NoPid, proc'[jobs'[l].pid] = "stopped"
               PROVE  jobs'[l].state = "ST" \/ (main'.at = "marked" /\ main'.pid = jobs'[l].pid)
    BY DEF StopsListed
  <2>1. CASE l = k BY <2>1, <1>4, <1>5
  <2>2. CASE l # k BY <2>2, <1>0, <1>5, <1>7 DEF StopsListed
  <2> QED BY <2>1, <2>2
<1> QED BY <1>6, <1>8, <1>9, <1>10

\* do_bgfg continues the process it read from the slot, if there was one.
LEMMA ResumeStep == IInv /\ Resume => IInv'
<1> SUFFICES ASSUME IInv, Resume PROVE IInv' OBVIOUS
<1> USE DEF IInv
<1>0. stack = <<>> /\ main.at = "marked" /\ UNCHANGED <<jobs, masked, stack, refused>>
  BY DEF Resume, LoopRuns
<1> PICK p : p = main.pid OBVIOUS
<1>1. p \in Pids \cup {NoPid} BY DEF TypeOK, Loops
<1>2. main' \in Loops /\ main'.at \in {"read", "wait"}
  <2>1. 1 \in Slots BY JobsAssumption DEF Slots
  <2> QED BY <1>1, <2>1 DEF Resume, Reading, Loops
<1>3. Continue(p) BY DEF Resume
<1>4. /\ proc' \in [Pids -> ProcStates] /\ pending' \subseteq Signals
      /\ "chld" \in pending => "chld" \in pending'
      /\ \A q \in Pids : /\ Moves(q)
                         /\ proc'[q] # proc[q] => q = p /\ "chld" \in pending'
                         /\ q = p => proc'[q] # "stopped"
  <2>1. CASE p # NoPid /\ proc[p] \in Stopped
    <3>1. p \in Pids BY <2>1, <1>1
    <3>2. /\ proc' = [proc EXCEPT ![p] = IF p \in doomed THEN "zombie" ELSE "running"]
          /\ pending' = pending \cup {"chld"}
      BY <2>1, <1>3 DEF Continue
    <3>3. proc'[p] \in {"zombie", "running"} /\ \A q \in Pids \ {p} : proc'[q] = proc[q]
      BY <3>1, <3>2 DEF TypeOK
    <3>4. proc[p] \notin {"free", "reaped"} BY <2>1 DEF Stopped
    <3> QED BY <3>1, <3>2, <3>3, <3>4 DEF Moves, TypeOK, ProcStates, Signals
  <2>2. CASE ~(p # NoPid /\ proc[p] \in Stopped)
    <3>1. UNCHANGED <<proc, pending>> BY <2>2, <1>3 DEF Continue
    <3> QED BY <3>1, <2>2, PidAssumption DEF Moves, TypeOK, Stopped
  <2> QED BY <2>1, <2>2
<1>5. TypeOK' BY <1>0, <1>2, <1>4 DEF TypeOK
<1>6. /\ \A q : ~Deleting(q) /\ ~Deleting(q)'
      /\ \A q : ~Adding(q) /\ ~Adding(q)'
      /\ \A at, q : ~Holding(at, q)
      /\ ~Reaping /\ ~Reaping'
  BY <1>0, <1>2 DEF Deleting, Adding, Holding, Reaping
<1>7. \A q \in Pids : /\ proc'[q] = "free" <=> proc[q] = "free"
                      /\ proc'[q] = "reaped" <=> proc[q] = "reaped"
  BY <1>4 DEF Moves
<1>8. HandlerAlone' /\ ForkProtected' BY <1>0, <1>2 DEF HandlerAlone, ForkProtected
<1>9. FreeNotRefused' BY <1>0, <1>7 DEF FreeNotRefused, TypeOK
<1>10. TableOK'
  <2>1. \A q \in Pids : Listed(q)' <=> Listed(q) BY <1>0, <1>6, <1>7 DEF Listed
  <2>2. \A q : SlotsOf(q)' = SlotsOf(q) BY <1>0 DEF SlotsOf
  <2> QED BY <2>1, <2>2 DEF TableOK
<1>11. NewsDue' BY <1>4, <1>6 DEF NewsDue
<1>12. StopsListed'
  <2> SUFFICES ASSUME NEW k \in Slots, jobs[k].pid # NoPid, proc'[jobs[k].pid] = "stopped"
               PROVE  jobs[k].state = "ST"
    BY <1>0 DEF StopsListed
  <2>1. jobs[k].pid \in Pids BY DEF TypeOK, Jobs
  <2>2. jobs[k].pid # p /\ proc[jobs[k].pid] = "stopped" BY <2>1, <1>4
  <2> QED BY <2>2, <1>6 DEF StopsListed
<1> QED BY <1>5, <1>8, <1>9, <1>10, <1>11, <1>12

\* Steps of handlers that change neither the table, nor a child, nor the loop, and
\* have no child in hand before or afterwards
LEMMA HandlerMoves ==
  ASSUME IInv, UNCHANGED <<jobs, main, masked, proc, refused>>,
         stack' \in Seq(Frames), pending' \subseteq Signals,
         \A i \in 1..Len(stack') : stack'[i].at \notin {"gone", "stopped"},
         stack # <<>> => stack[1].at \notin {"gone", "stopped"},
         main.at = "forked" => ~Reaping',
         "chld" \in pending \/ Reaping =>
           \/ "chld" \in pending' \/ Reaping'
           \/ \A p \in Pids : proc[p] \notin {"zombie", "stopping"}
  PROVE  IInv'
<1> USE DEF IInv
<1>1. TypeOK' BY DEF TypeOK
<1>2. stack' # <<>> => 1 \in 1..Len(stack') OBVIOUS
<1>3. \A at \in {"gone", "stopped"} : \A p : ~Holding(at, p) /\ ~Holding(at, p)'
  BY <1>2 DEF Holding
<1>4. \A p : ~Deleting(p) /\ ~Deleting(p)'
  <2>1. stack' # <<>> => Head(stack') = stack'[1] BY Popped
  <2> QED BY <2>1, <1>3, DeletingIsHolding DEF Deleting, Holding
<1>5. HandlerAlone'
  <2>1. \A i \in 2..Len(stack') : i \in 1..Len(stack') OBVIOUS
  <2> QED BY <2>1, <1>2 DEF HandlerAlone
<1>6. ForkProtected' /\ FreeNotRefused' BY DEF ForkProtected, FreeNotRefused
<1>7. TableOK'
  <2>1. \A p \in Pids : Listed(p)' <=> Listed(p) BY <1>4 DEF Listed, Adding
  <2>2. \A p : SlotsOf(p)' = SlotsOf(p) BY DEF SlotsOf
  <2> QED BY <2>1, <2>2 DEF TableOK
<1>8. NewsDue' BY DEF NewsDue
<1>9. StopsListed' BY <1>3 DEF StopsListed
<1> QED BY <1>1, <1>5, <1>6, <1>7, <1>8, <1>9

\* Steps of the processes and of the keyboard
LEMMA EnvironmentMoves ==
  ASSUME IInv, UNCHANGED <<jobs, main, masked, stack, refused>>,
         proc' \in [Pids -> ProcStates], pending' \subseteq Signals,
         \A p \in Pids : Moves(p),
         \A p \in Pids : proc'[p] \in {"zombie", "stopping"} /\ proc'[p] # proc[p] => "chld" \in pending',
         \A p \in Pids : proc[p] = "stopped" => proc'[p] = "stopped",
         "chld" \in pending => "chld" \in pending'
  PROVE  IInv'
<1>1. TypeOK' BY DEF IInv, TypeOK
<1>2. HandlerAlone'
  <2>1. stack # <<>> /\ stack[1].at \in {"gone", "stopped"} => stack[1].pid \in Pids
    <3>1. stack # <<>> => stack[1] \in Frames BY Popped DEF IInv, TypeOK
    <3> QED BY <3>1 DEF Frames
  <2> QED BY <2>1 DEF IInv, HandlerAlone, Moves
<1>3. Reaping' <=> Reaping BY DEF Reaping
<1>4. \A at, p : Holding(at, p)' <=> Holding(at, p) BY DEF Holding
<1> QED BY <1>1, <1>2, <1>3, <1>4, ProcessesMove

LEMMA EnvironmentStep == IInv /\ Environment => IInv'
<1> SUFFICES ASSUME IInv, Environment PROVE IInv' OBVIOUS
<1>0. TypeOK BY DEF IInv
<1>1. ASSUME NEW p \in Pids, Exec(p) PROVE IInv'
  <2>1. /\ proc[p] = "starting" /\ proc' = [proc EXCEPT ![p] = "running"]
        /\ UNCHANGED <<jobs, main, masked, stack, refused, pending>>
    BY <1>1 DEF Exec, shell
  <2>2. proc'[p] = "running" /\ \A q \in Pids \ {p} : proc'[q] = proc[q]
    BY <2>1, <1>0 DEF TypeOK
  <2>3. proc' \in [Pids -> ProcStates] BY <2>1, <1>0 DEF TypeOK, ProcStates
  <2>4. \A q \in Pids : Moves(q) BY <2>1, <2>2 DEF Moves
  <2>5. pending' \subseteq Signals BY <2>1, <1>0 DEF TypeOK
  <2> QED BY <2>1, <2>2, <2>3, <2>4, <2>5, EnvironmentMoves
<1>2. ASSUME NEW p \in Pids, Exit(p) PROVE IInv'
  <2>1. /\ proc[p] \in {"starting", "running"} /\ proc' = [proc EXCEPT ![p] = "zombie"]
        /\ UNCHANGED <<jobs, main, masked, stack, refused>>
        /\ pending' = pending \cup {"chld"}
    BY <1>2 DEF Exit, shell
  <2>2. proc'[p] = "zombie" /\ \A q \in Pids \ {p} : proc'[q] = proc[q]
    BY <2>1, <1>0 DEF TypeOK
  <2>3. proc' \in [Pids -> ProcStates] BY <2>1, <1>0 DEF TypeOK, ProcStates
  <2>4. \A q \in Pids : Moves(q) BY <2>1, <2>2 DEF Moves
  <2>5. pending' \subseteq Signals BY <2>1, <1>0 DEF TypeOK, Signals
  <2> QED BY <2>1, <2>2, <2>3, <2>4, <2>5, EnvironmentMoves
<1>3. ASSUME NEW p \in Pids, StopItself(p) PROVE IInv'
  <2>1. /\ proc[p] = "running" /\ proc' = [proc EXCEPT ![p] = "stopping"]
        /\ UNCHANGED <<jobs, main, masked, stack, refused>>
        /\ pending' = pending \cup {"chld"}
    BY <1>3 DEF StopItself, Stop, shell
  <2>2. proc'[p] = "stopping" /\ \A q \in Pids \ {p} : proc'[q] = proc[q]
    BY <2>1, <1>0 DEF TypeOK
  <2>3. proc' \in [Pids -> ProcStates] BY <2>1, <1>0 DEF TypeOK, ProcStates
  <2>4. \A q \in Pids : Moves(q) BY <2>1, <2>2 DEF Moves
  <2>5. pending' \subseteq Signals BY <2>1, <1>0 DEF TypeOK, Signals
  <2> QED BY <2>1, <2>2, <2>3, <2>4, <2>5, EnvironmentMoves
<1>4. ASSUME NEW sig \in KeySignals, Key(sig) PROVE IInv'
  <2>1. /\ UNCHANGED <<jobs, main, masked, stack, refused, proc>>
        /\ pending' = pending \cup {sig}
    BY <1>4 DEF Key, shell
  <2>2. pending' \subseteq Signals BY <2>1, <1>0 DEF TypeOK, Signals
  <2>3. \A q \in Pids : Moves(q) BY <2>1 DEF Moves
  <2>4. proc' \in [Pids -> ProcStates] BY <2>1, <1>0 DEF TypeOK
  <2> QED BY <2>1, <2>2, <2>3, <2>4, EnvironmentMoves
<1> QED BY <1>1, <1>2, <1>3, <1>4 DEF Environment

\* The commands that start no process, and waitfg
LEMMA OtherLoopSteps ==
  ASSUME IInv,
         ForkFails \/ WaitFg \/ \E k \in Slots, want \in {"FG", "BG"} : Find(k, want)
  PROVE  IInv'
<1>0. TypeOK BY DEF IInv
<1>1. ASSUME ForkFails PROVE IInv'
  <2>1. /\ main.at = "read" /\ main' = main /\ masked' = TRUE
        /\ UNCHANGED <<jobs, stack, pending, proc, refused>>
    BY <1>1 DEF ForkFails, LoopRuns
  <2>2. main' \in Loops BY <2>1, <1>0 DEF TypeOK
  <2> QED BY <2>1, <2>2, LoopGoesOn
<1>2. 1 \in Slots BY JobsAssumption DEF Slots
<1>3. ASSUME WaitFg PROVE IInv'
  <2>1. /\ main.at = "wait" /\ main' = Reading
        /\ UNCHANGED <<jobs, masked, stack, pending, proc, refused>>
    BY <1>3 DEF WaitFg, LoopRuns
  <2>2. main' \in Loops /\ main'.at = "read" BY <2>1, <1>2 DEF Reading, Loops
  <2>3. masked' \in BOOLEAN BY <2>1, <1>0 DEF TypeOK
  <2> QED BY <2>1, <2>2, <2>3, LoopGoesOn
<1>4. ASSUME NEW k \in Slots, NEW want \in {"FG", "BG"}, Find(k, want) PROVE IInv'
  <2>1. /\ main.at = "read"
        /\ main' = [Reading EXCEPT !.at = "found", !.slot = k, !.want = want]
        /\ UNCHANGED <<jobs, masked, stack, pending, proc, refused>>
    BY <1>4 DEF Find, LoopRuns
  <2>2. main' \in Loops /\ main'.at = "found" BY <2>1, <1>2 DEF Reading, Loops
  <2>3. masked' \in BOOLEAN BY <2>1, <1>0 DEF TypeOK
  <2> QED BY <2>1, <2>2, <2>3, LoopGoesOn
<1> QED BY <1>1, <1>3, <1>4

\* What a running handler has in its frame
LEMMA Running ==
  ASSUME TypeOK, stack # <<>>
  PROVE  /\ Head(stack) = stack[1] /\ stack[1] \in Frames /\ 1 \in 1..Len(stack)
         /\ stack[1].sig = "chld" => Reaping
         /\ stack[1].at \in {"kill", "gone", "stopped"} => stack[1].pid \in Pids
         /\ stack[1].at \in {"gone", "stopped"} => stack[1].sig = "chld"
         /\ stack[1].at = "kill" => stack[1].sig \in KeySignals
         /\ stack[1].at = "start" => stack[1].pid = NoPid
<1>1. Head(stack) = stack[1] /\ stack[1] \in Frames /\ 1 \in 1..Len(stack)
  BY Popped DEF TypeOK
<1> QED BY <1>1 DEF Frames, Reaping, KeySignals

\* A handler is entered only when its signal is not blocked.
LEMMA DeliverStep ==
  ASSUME IInv, NEW sig \in Signals, Deliver(sig)
  PROVE  IInv'
<1> USE DEF IInv
<1>1. /\ ~Blocked(sig) /\ pending' = pending \ {sig} /\ stack' = <<Frame(sig)>> \o stack
      /\ UNCHANGED <<jobs, main, masked, proc, refused>>
  BY DEF Deliver
<1>2. Frame(sig) \in Frames /\ Frame(sig).at = "start" /\ Frame(sig).sig = sig
  BY DEF Frame, Frames, Signals
<1>3. /\ stack' \in Seq(Frames) /\ stack' # <<>> /\ stack'[1] = Frame(sig)
      /\ \A i \in 2..Len(stack') : i - 1 \in 1..Len(stack) /\ stack'[i] = stack[i - 1]
      /\ Reaping' <=> Reaping \/ sig = "chld"
  BY <1>1, <1>2, HandlerEntered
<1>4. stack # <<>> => stack[1].at \notin {"gone", "stopped"}
  BY <1>1, Running DEF Blocked
<1>5. \A i \in 1..Len(stack) : stack[i].at \notin {"gone", "stopped"}
  <2> TAKE i \in 1..Len(stack)
  <2>1. i = 1 \/ i \in 2..Len(stack) OBVIOUS
  <2>2. stack # <<>> BY DEF TypeOK
  <2> QED BY <2>1, <2>2, <1>4 DEF HandlerAlone
<1>6. \A i \in 1..Len(stack') : stack'[i].at \notin {"gone", "stopped"}
  <2> TAKE i \in 1..Len(stack')
  <2>1. i = 1 \/ i \in 2..Len(stack') OBVIOUS
  <2> QED BY <2>1, <1>2, <1>3, <1>5
<1>7. main.at = "forked" => ~Reaping' BY <1>1, <1>3 DEF ForkProtected, Blocked
<1>8. pending' \subseteq Signals BY <1>1 DEF TypeOK
<1>9. "chld" \in pending \/ Reaping => "chld" \in pending' \/ Reaping' BY <1>1, <1>3
<1> QED BY <1>1, <1>3, <1>4, <1>6, <1>7, <1>8, <1>9, HandlerMoves

\* sigint_handler and sigtstp_handler look for the foreground job.
LEMMA KeyLookStep ==
  ASSUME IInv, NEW sig \in KeySignals, KeyLook(sig)
  PROVE  IInv'
<1> USE DEF IInv
<1>1. stack # <<>> /\ UNCHANGED <<jobs, main, masked, pending, proc, refused>>
  BY DEF KeyLook, Handles
<1>2. stack[1].sig = sig /\ stack[1].at = "start" /\ stack[1] \in Frames
  BY <1>1, Running DEF KeyLook, Handles
<1>3. pending' \subseteq Signals BY <1>1 DEF TypeOK
<1>4. CASE FgPid = NoPid
  <2>1. Return BY <1>4 DEF KeyLook
  <2>2. /\ stack' \in Seq(Frames) /\ (Reaping' <=> Reaping)
        /\ \A i \in 1..Len(stack') : stack'[i].at \notin {"gone", "stopped"}
    BY <2>1, <1>1, <1>2, HandlerReturns DEF KeySignals
  <2> QED BY <2>2, <1>1, <1>2, <1>3, HandlerMoves DEF ForkProtected
<1>5. CASE FgPid # NoPid
  <2>1. Goto("kill", FgPid) BY <1>5 DEF KeyLook
  <2>2. FgPid \in Pids
    <3> DEFINE fg == {k \in Slots : jobs[k].state = "FG"}
    <3>1. fg # {} BY <1>5 DEF FgPid
    <3>2. Min(fg) \in fg BY <3>1, FirstSlot
    <3> HIDE DEF fg
    <3>3. FgPid = jobs[Min(fg)].pid BY <3>1 DEF FgPid, fg
    <3>4. Min(fg) \in Slots BY <3>2 DEF fg
    <3> QED BY <3>3, <3>4, <1>5 DEF TypeOK, Jobs
  <2>3. [stack[1] EXCEPT !.at = "kill", !.pid = FgPid] \in Frames
    BY <2>2, <1>2 DEF Frames, KeySignals
  <2>4. /\ stack' \in Seq(Frames) /\ stack' # <<>> /\ stack'[1].at = "kill"
        /\ Len(stack') = Len(stack) /\ \A i \in 2..Len(stack) : stack'[i] = stack[i]
        /\ Reaping' <=> Reaping
    BY <2>1, <2>3, <1>1, HandlerGoesOn
  <2>5. \A i \in 1..Len(stack') : stack'[i].at \notin {"gone", "stopped"}
    <3> TAKE i \in 1..Len(stack')
    <3>1. i = 1 \/ i \in 2..Len(stack') OBVIOUS
    <3> QED BY <3>1, <2>4 DEF HandlerAlone
  <2> QED BY <2>4, <2>5, <1>1, <1>2, <1>3, HandlerMoves DEF ForkProtected
<1> QED BY <1>4, <1>5

\* They send the signal to whatever process has that pid by now.
LEMMA KeyKillStep ==
  ASSUME IInv, NEW sig \in KeySignals, KeyKill(sig)
  PROVE  IInv'
<1> USE DEF IInv
<1>1. stack # <<>> /\ Return /\ UNCHANGED <<jobs, main, masked, refused>>
  BY DEF KeyKill, Handles
<1>2. stack[1].sig = sig /\ stack[1].at = "kill" /\ stack[1].pid \in Pids /\ Head(stack) = stack[1]
  BY <1>1, Running DEF KeyKill, Handles
<1> PICK p \in Pids : p = stack[1].pid BY <1>2
<1>3. \/ UNCHANGED <<proc, pending>>
      \/ /\ proc[p] = "running" /\ pending' = pending \cup {"chld"}
         /\ \E st \in {"zombie", "stopping"} : proc' = [proc EXCEPT ![p] = st]
  <2>1. Interrupt(p) \/ Stop(p) BY <1>2 DEF KeyKill
  <2> QED BY <2>1 DEF Interrupt, Stop
<1>4. /\ proc' \in [Pids -> ProcStates] /\ pending' \subseteq Signals
      /\ "chld" \in pending => "chld" \in pending'
      /\ \A q \in Pids : /\ Moves(q)
                         /\ proc'[q] # proc[q] => "chld" \in pending'
  <2>1. CASE UNCHANGED <<proc, pending>> BY <2>1 DEF TypeOK, Moves
  <2>2. ASSUME proc[p] = "running", pending' = pending \cup {"chld"},
               NEW st \in {"zombie", "stopping"}, proc' = [proc EXCEPT ![p] = st]
        PROVE  <1>4!1 /\ <1>4!2 /\ <1>4!3
    <3>1. proc'[p] = st /\ \A q \in Pids \ {p} : proc'[q] = proc[q] BY <2>2 DEF TypeOK
    <3> QED BY <2>2, <3>1 DEF TypeOK, ProcStates, Signals, Moves
  <2> QED BY <2>1, <2>2, <1>3
<1>5. /\ stack' \in Seq(Frames) /\ (Reaping' <=> Reaping)
      /\ \A i \in 1..Len(stack') : stack'[i].at \notin {"gone", "stopped"}
      /\ stack' # <<>> => stack'[1].at \notin {"gone", "stopped"}
  BY <1>1, <1>2, HandlerReturns DEF KeySignals
<1>6. TypeOK' BY <1>1, <1>4, <1>5 DEF TypeOK
<1>7. HandlerAlone'
  <2>1. \A i \in 2..Len(stack') : i \in 1..Len(stack') BY <1>5
  <2> QED BY <2>1, <1>5 DEF HandlerAlone
<1>8. \A at \in {"gone", "stopped"} : \A q : ~Holding(at, q) /\ ~Holding(at, q)'
  BY <1>2, <1>5 DEF Holding
<1> QED BY <1>1, <1>4, <1>5, <1>6, <1>7, <1>8, ProcessesMove

\* waitpid finds another child, or none.
LEMMA ReapStep == IInv /\ Reap => IInv'
<1> SUFFICES ASSUME IInv, Reap PROVE IInv' OBVIOUS
<1> USE DEF IInv
<1>1. stack # <<>> /\ UNCHANGED <<jobs, main, masked, pending, refused>>
  BY DEF Reap, Handles
<1>2. stack[1].sig = "chld" /\ stack[1].at = "start" /\ stack[1] \in Frames /\ Reaping
  BY <1>1, Running DEF Reap, Handles
<1>3. main.at # "forked" BY <1>2 DEF ForkProtected
<1>4. PICK p \in Pids, to \in {"gone", "stopped"} :
        /\ proc[p] = (IF to = "gone" THEN "zombie" ELSE "stopping")
        /\ proc' = [proc EXCEPT ![p] = IF to = "gone" THEN "reaped" ELSE "stopped"]
        /\ Goto(to, p)
  BY DEF Reap
<1>5. /\ proc'[p] = (IF to = "gone" THEN "reaped" ELSE "stopped")
      /\ \A q \in Pids \ {p} : proc'[q] = proc[q]
  BY <1>4 DEF TypeOK
<1>6. [stack[1] EXCEPT !.at = to, !.pid = p] \in Frames BY <1>2 DEF Frames, KeySignals
<1>7. /\ stack' \in Seq(Frames) /\ stack' # <<>>
      /\ stack'[1].at = to /\ stack'[1].pid = p
      /\ Len(stack') = Len(stack) /\ \A i \in 2..Len(stack) : stack'[i] = stack[i]
      /\ Reaping'
  BY <1>1, <1>2, <1>4, <1>6, HandlerGoesOn
<1>8. TypeOK' BY <1>1, <1>4, <1>7 DEF TypeOK, ProcStates
<1>9. HandlerAlone' BY <1>5, <1>7 DEF HandlerAlone
<1>10. ForkProtected' /\ NewsDue' BY <1>1, <1>3, <1>7 DEF ForkProtected, NewsDue
<1>11. FreeNotRefused' BY <1>1, <1>5 DEF FreeNotRefused, TypeOK
<1>12. /\ \A q : ~Deleting(q) /\ ~Adding(q) /\ ~Adding(q)'
       /\ \A q : Deleting(q)' <=> (to = "gone" /\ q = p)
       /\ \A q : ~Holding("stopped", q)
       /\ to = "stopped" => Holding("stopped", p)'
  <2>1. Head(stack') = stack'[1] BY <1>7, Popped
  <2> QED BY <2>1, <1>1, <1>2, <1>3, <1>7, Running DEF Deleting, Adding, Holding
<1>13. TableOK'
  <2>1. \A q : SlotsOf(q)' = SlotsOf(q) BY <1>1 DEF SlotsOf
  <2>2. ASSUME NEW q \in Pids PROVE Listed(q)' <=> Listed(q)
    <3>1. CASE q = p BY <3>1, <1>1, <1>4, <1>5, <1>12 DEF Listed
    <3>2. CASE q # p BY <3>2, <1>1, <1>5, <1>12 DEF Listed
    <3> QED BY <3>1, <3>2
  <2> QED BY <2>1, <2>2 DEF TableOK
<1>14. StopsListed'
  <2> SUFFICES ASSUME NEW k \in Slots, jobs[k].pid # NoPid, proc'[jobs[k].pid] = "stopped",
                      ~Holding("stopped", jobs[k].pid)'
               PROVE  jobs[k].state = "ST" \/ (main.at = "marked" /\ main.pid = jobs[k].pid)
    BY <1>1 DEF StopsListed, Holding
  <2>1. jobs[k].pid \in Pids BY DEF TypeOK, Jobs
  <2>2. proc[jobs[k].pid] = "stopped"
    <3>1. jobs[k].pid # p BY <1>1, <1>5, <1>7 DEF Holding
    <3> QED BY <2>1, <3>1, <1>5
  <2> QED BY <2>2, <1>12 DEF StopsListed
<1> QED BY <1>8, <1>9, <1>10, <1>11, <1>13, <1>14

LEMMA ReapedAllStep == IInv /\ ReapedAll => IInv'
<1> SUFFICES ASSUME IInv, ReapedAll PROVE IInv' OBVIOUS
<1> USE DEF IInv
<1>1. /\ stack # <<>> /\ Return /\ UNCHANGED <<jobs, main, masked, pending, proc, refused>>
      /\ \A p \in Pids : proc[p] \notin {"zombie", "stopping"}
  BY DEF ReapedAll, Handles
<1>2. stack[1].sig = "chld" /\ stack[1].at = "start" /\ Reaping
  BY <1>1, Running DEF ReapedAll, Handles
<1>3. /\ stack' \in Seq(Frames)
      /\ \A i \in 1..Len(stack') : stack'[i].at \notin {"gone", "stopped"}
  BY <1>1, HandlerReturns
<1>4. main.at # "forked" BY <1>2 DEF ForkProtected
<1>5. pending' \subseteq Signals BY <1>1 DEF TypeOK
<1> QED BY <1>1, <1>2, <1>3, <1>4, <1>5, HandlerMoves

\* deletejob, and back to waitpid
LEMMA JobGoneStep == IInv /\ JobGone => IInv'
<1> SUFFICES ASSUME IInv, JobGone PROVE IInv' OBVIOUS
<1> USE DEF IInv
<1>1. stack # <<>> /\ UNCHANGED <<main, masked, pending, proc, refused>>
  BY DEF JobGone, Handles
<1>2. /\ stack[1].sig = "chld" /\ stack[1].at = "gone" /\ stack[1] \in Frames /\ Reaping
      /\ stack[1].pid \in Pids /\ Head(stack) = stack[1]
  BY <1>1, Running DEF JobGone, Handles
<1> PICK p \in Pids : p = stack[1].pid BY <1>2
<1>3. main.at # "forked" /\ proc[p] = "reaped" BY <1>1, <1>2 DEF ForkProtected, HandlerAlone
<1>4. DeleteJob(p) /\ Goto("start", NoPid) BY <1>2 DEF JobGone
<1>5. [stack[1] EXCEPT !.at = "start", !.pid = NoPid] \in Frames BY <1>2 DEF Frames, KeySignals
<1>6. /\ stack' \in Seq(Frames) /\ stack' # <<>> /\ stack'[1].at = "start"
      /\ Len(stack') = Len(stack) /\ \A i \in 2..Len(stack) : stack'[i] = stack[i]
      /\ Reaping'
  BY <1>1, <1>2, <1>4, <1>5, HandlerGoesOn
<1>7. /\ \A k \in SlotsOf(p) : jobs'[k] = EmptySlot
      /\ \A k \in Slots \ SlotsOf(p) : jobs'[k] = jobs[k]
      /\ jobs' \in [Slots -> Jobs]
  <2>1. EmptySlot \in Jobs BY DEF EmptySlot, Jobs
  <2> QED BY <2>1, <1>4 DEF DeleteJob, TypeOK, SlotsOf
<1>8. TypeOK' BY <1>1, <1>6, <1>7 DEF TypeOK
<1>9. HandlerAlone' BY <1>6 DEF HandlerAlone
<1>10. ForkProtected' /\ NewsDue' /\ FreeNotRefused'
  BY <1>1, <1>3, <1>6 DEF ForkProtected, NewsDue, FreeNotRefused
<1>11. /\ \A q : ~Adding(q) /\ ~Adding(q)'
       /\ \A q : Deleting(q) <=> q = p
       /\ \A q : ~Deleting(q)' /\ ~Holding("stopped", q)
  <2>1. Head(stack') = stack'[1] BY <1>6, Popped
  <2> QED BY <2>1, <1>1, <1>2, <1>3, <1>6 DEF Deleting, Adding, Holding
<1>12. TableOK'
  <2>1. SlotsOf(p)' = {} /\ \A q \in Pids \ {p} : SlotsOf(q)' = SlotsOf(q)
    BY <1>7, PidAssumption DEF SlotsOf, EmptySlot
  <2>2. ~Listed(p)' BY <1>1, <1>3, <1>11 DEF Listed
  <2>3. \A q \in Pids \ {p} : Listed(q)' <=> Listed(q) BY <1>1, <1>11 DEF Listed
  <2> QED BY <2>1, <2>2, <2>3 DEF TableOK
<1>13. StopsListed'
  <2> SUFFICES ASSUME NEW k \in Slots, jobs'[k].pid # NoPid, proc[jobs'[k].pid] = "stopped"
               PROVE  \/ jobs'[k].state = "ST"
                      \/ main.at = "marked" /\ main.pid = jobs'[k].pid
    BY <1>1 DEF StopsListed
  <2>1. jobs'[k] = jobs[k] BY <1>7 DEF EmptySlot
  <2> QED BY <2>1, <1>11 DEF StopsListed
<1> QED BY <1>8, <1>9, <1>10, <1>12, <1>13

\* The stopped child gets its mark, unless it was refused a slot.
LEMMA JobStoppedStep == IInv /\ JobStopped => IInv'
<1> SUFFICES ASSUME IInv, JobStopped PROVE IInv' OBVIOUS
<1> USE DEF IInv
<1>1. stack # <<>> /\ UNCHANGED <<main, masked, pending, proc, refused>>
  BY DEF JobStopped, Handles
<1>2. /\ stack[1].sig = "chld" /\ stack[1].at = "stopped" /\ stack[1] \in Frames /\ Reaping
      /\ stack[1].pid \in Pids /\ Head(stack) = stack[1]
  BY <1>1, Running DEF JobStopped, Handles
<1> PICK p \in Pids : p = stack[1].pid BY <1>2
<1>3. main.at # "forked" BY <1>2 DEF ForkProtected
<1>4. CASE SlotsOf(p) = {}
  <2>1. UNCHANGED <<jobs, stack>> BY <1>2, <1>4 DEF JobStopped
  <2>2. \A q \in Pids : Moves(q) BY <1>1 DEF Moves
  <2>3. proc' \in [Pids -> ProcStates] /\ pending' \subseteq Signals BY <1>1 DEF TypeOK
  <2> QED BY <2>1, <2>2, <2>3, <1>1, EnvironmentMoves
<1>5. CASE SlotsOf(p) # {}
  <2>1. PICK k \in SlotsOf(p) : k = Min(SlotsOf(p)) BY <1>5, FirstSlot DEF SlotsOf
  <2>2. jobs' = [jobs EXCEPT ![k].state = "ST"] /\ Goto("start", NoPid)
    BY <2>1, <1>2, <1>5 DEF JobStopped
  <2>3. k \in Slots /\ jobs[k].pid = p BY DEF SlotsOf
  <2>4. /\ jobs'[k].state = "ST"
        /\ \A l \in Slots \ {k} : jobs'[l] = jobs[l]
        /\ \A q : SlotsOf(q)' = SlotsOf(q)
        /\ jobs' \in [Slots -> Jobs]
    BY <2>2, <2>3, SameSlots DEF TypeOK
  <2>5. [stack[1] EXCEPT !.at = "start", !.pid = NoPid] \in Frames BY <1>2 DEF Frames, KeySignals
  <2>6. /\ stack' \in Seq(Frames) /\ stack' # <<>> /\ stack'[1].at = "start"
        /\ Len(stack') = Len(stack) /\ \A i \in 2..Len(stack) : stack'[i] = stack[i]
        /\ Reaping'
    BY <1>1, <1>2, <2>2, <2>5, HandlerGoesOn
  <2>7. TypeOK' BY <1>1, <2>4, <2>6 DEF TypeOK
  <2>8. HandlerAlone' BY <2>6 DEF HandlerAlone
  <2>9. ForkProtected' /\ NewsDue' /\ FreeNotRefused'
    BY <1>1, <1>3, <2>6 DEF ForkProtected, NewsDue, FreeNotRefused
  <2>10. /\ \A q : ~Adding(q) /\ ~Adding(q)'
         /\ \A q : ~Deleting(q) /\ ~Deleting(q)'
         /\ \A q : Holding("stopped", q) <=> q = p
    <3>1. Head(stack') = stack'[1] BY <2>6, Popped
    <3> QED BY <3>1, <1>1, <1>2, <1>3, <2>6 DEF Deleting, Adding, Holding
  <2>11. TableOK'
    <3>1. \A q \in Pids : Listed(q)' <=> Listed(q) BY <1>1, <2>10 DEF Listed
    <3> QED BY <3>1, <2>4 DEF TableOK
  <2>12. StopsListed'
    <3> SUFFICES ASSUME NEW l \in Slots, jobs'[l].pid # NoPid, proc[jobs'[l].pid] = "stopped"
                 PROVE  \/ jobs'[l].state = "ST"
                        \/ main.at = "marked" /\ main.pid = jobs'[l].pid
      BY <1>1 DEF StopsListed
    <3>1. CASE l = k BY <3>1, <2>4
    <3>2. CASE l # k
      <4>1. jobs'[l] = jobs[l] BY <3>2, <2>4
      <4>2. jobs[l].pid # p BY <3>2, <2>3 DEF TableOK, SlotsOf
      <4> QED BY <4>1, <4>2, <2>10 DEF StopsListed
    <3> QED BY <3>1, <3>2
  <2> QED BY <2>7, <2>8, <2>9, <2>11, <2>12
<1> QED BY <1>4, <1>5
-----------------------------------------------------------------------------
\* Every step of the shell and of its environment keeps the invariant.
LEMMA StepOK == IInv /\ [Next]_vars => IInv'
<1> SUFFICES ASSUME IInv, [Next]_vars PROVE IInv' OBVIOUS
<1>1. CASE Command BY <1>1, ForkStep, OtherLoopSteps DEF Command
<1>2. CASE Loop BY <1>2, AddStep, MarkStep, ResumeStep, OtherLoopSteps DEF Loop
<1>3. CASE ChildHandler
  BY <1>3, ReapStep, ReapedAllStep, JobGoneStep, JobStoppedStep DEF ChildHandler
<1>4. CASE \E sig \in KeySignals : KeyHandler(sig)
  BY <1>4, KeyLookStep, KeyKillStep DEF KeyHandler
<1>5. CASE \E sig \in Signals : Deliver(sig) BY <1>5, DeliverStep
<1>6. CASE Environment BY <1>6, EnvironmentStep
<1>7. CASE UNCHANGED vars
  <2>1. UNCHANGED <<jobs, main, masked, stack, pending, proc, refused>> BY <1>7 DEF vars
  <2>2. \A p \in Pids : Moves(p) BY <2>1 DEF Moves
  <2>3. proc' \in [Pids -> ProcStates] /\ pending' \subseteq Signals
    BY <2>1 DEF IInv, TypeOK
  <2> QED BY <2>1, <2>2, <2>3, EnvironmentMoves
<1> QED BY <1>1, <1>2, <1>3, <1>4, <1>5, <1>6, <1>7 DEF Next

LEMMA Invariance == Spec => []IInv
<1>1. Spec => Init /\ [][Next]_vars BY PTL DEF Spec
<1> QED BY <1>1, InitOK, StepOK, PTL

\* Each child is in exactly one slot of the job table from addjob until
\* sigchld_handler has reaped and deleted it, unless it was refused, whatever
\* the children, the keys and the signals do in between.
THEOREM TableIsRight == Spec => []TableTracksChildren
<1>1. IInv => TableTracksChildren BY TableCounts DEF IInv
<1> QED BY <1>1, Invariance, PTL

\* When no handler is active and none is due, and the loop is not in a command,
\* every job that has stopped is marked as stopped.
THEOREM StopsAreShown == Spec => []StoppedJobsShown
<1>1. IInv => StoppedJobsShown
  <2> SUFFICES ASSUME IInv, stack = <<>>, "chld" \notin pending, main.at \in {"read", "wait"},
                      NEW k \in Slots, jobs[k].pid # NoPid, proc[jobs[k].pid] \in Stopped
               PROVE  jobs[k].state = "ST"
    BY DEF StoppedJobsShown
  <2>1. ~Reaping /\ \A at, p : ~Holding(at, p) BY DEF Reaping, Holding
  <2>2. jobs[k].pid \in Pids BY DEF IInv, TypeOK, Jobs
  <2>3. proc[jobs[k].pid] = "stopped" BY <2>1, <2>2 DEF IInv, NewsDue, Stopped
  <2> QED BY <2>1, <2>3 DEF IInv, StopsListed
<1> QED BY <1>1, Invariance, PTL

\* sigchld_handler follows a NULL pointer only after addjob has refused a child.
THEOREM CrashIsRefusal == Spec => []CrashNeedsRefusal
<1>1. Init => CrashNeedsRefusal BY DEF Init, CrashNeedsRefusal
<1>2. IInv /\ CrashNeedsRefusal /\ [Next]_vars => CrashNeedsRefusal'
  <2> SUFFICES ASSUME IInv, CrashNeedsRefusal, [Next]_vars PROVE CrashNeedsRefusal'
    OBVIOUS
  <2>1. refused \subseteq refused'
    BY DEF Next, vars, Command, Loop, ChildHandler, Environment, KeyHandler, Deliver, Fork,
           ForkFails, Find, Add, AddJob, Mark, Resume, WaitFg, Reap, ReapedAll, JobGone,
           JobStopped, KeyLook, KeyKill, Exec, Exit, StopItself, Key, shell
  <2>2. CASE fault' = fault BY <2>1, <2>2 DEF CrashNeedsRefusal
  <2>3. CASE fault' # fault
    <3>1. JobStopped
      BY <2>3
      DEF Next, vars, Command, Loop, ChildHandler, Environment, KeyHandler, Deliver, Fork,
          ForkFails, Find, Add, Mark, Resume, WaitFg, Reap, ReapedAll, JobGone,
          KeyLook, KeyKill, Exec, Exit, StopItself, Key, shell
    <3>2. /\ stack # <<>> /\ stack[1].sig = "chld" /\ stack[1].at = "stopped"
          /\ stack[1].pid \in Pids /\ Reaping /\ SlotsOf(stack[1].pid) = {}
      BY <3>1, <2>3, Running DEF JobStopped, Handles, IInv
    <3>3. proc[stack[1].pid] = "stopped" /\ main.at # "forked"
      BY <3>2 DEF IInv, HandlerAlone, ForkProtected
    <3>4. stack[1].pid \in refused
      BY <3>2, <3>3 DEF IInv, TableOK, Listed, Adding
    <3> QED BY <3>4, <2>1 DEF CrashNeedsRefusal
  <2> QED BY <2>2, <2>3
<1>3. Spec => Init /\ [][Next]_vars BY PTL DEF Spec
<1> QED BY <1>1, <1>2, <1>3, Invariance, PTL
=============================================================================
