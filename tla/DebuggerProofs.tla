--------------------------- MODULE DebuggerProofs ---------------------------
(***************************************************************************)
(* The breakpoint table and the tracee's memory agree, and the program runs *)
(* under the debugger as by itself, for every program, table size, word    *)
(* size and set of places.                                                 *)
(***************************************************************************)
EXTENDS Debugger, TLAPS

\* The table is a sequence, of places and of bytes that are not traps.
TableOK ==
  /\ Len(bps) \in Nat /\ DOMAIN bps = 1..Len(bps)
  /\ \A i \in 1..Len(bps) : bps[i].addr \in DOMAIN Text /\ bps[i].orig_value # Trap

MemOK == mem = [x \in DOMAIN Text |-> mem[x]]

IInv == MemOK /\ TableOK /\ BreakpointsArmed

LEMMA InitArmed == Init => IInv
  BY TextAssumption DEF Init, IInv, MemOK, TableOK, BreakpointsArmed, Listed

\* handle_break_post takes one entry out and its trap with it.
LEMMA PostArmed ==
  ASSUME IInv, handle_break_post
  PROVE  IInv'
<1> DEFINE hit == {i \in DOMAIN bps : rip = bps[i].addr + 1}
<1>1. CASE hit = {}
  <2>1. UNCHANGED <<mem, rip, bps>> BY <1>1 DEF handle_break_post
  <2> QED BY <2>1 DEF IInv, MemOK, TableOK, BreakpointsArmed, Listed
<1>2. CASE hit # {}
  <2>1. PICK i \in DOMAIN bps : /\ rip = bps[i].addr + 1
                                /\ mem' = [mem EXCEPT ![bps[i].addr] = bps[i].orig_value]
                                /\ bps' = Without(i)
    <3> DEFINE i == Min(hit)
    <3>1. \A j, k \in hit : j = k
      BY TextAssumption DEF IInv, TableOK, BreakpointsArmed
    <3>2. i \in hit
      <4>1. PICK h \in hit : TRUE BY <1>2
      <4>2. hit \subseteq Nat BY DEF IInv, TableOK
      <4>3. \E x \in hit : \A y \in hit : x =< y BY <4>1, <4>2, <3>1
      <4> QED BY <4>3 DEF Min
    <3>3. /\ mem' = [mem EXCEPT ![bps[i].addr] = bps[i].orig_value]
          /\ bps' = Without(i)
      BY <1>2 DEF handle_break_post
    <3> QED BY <3>2, <3>3
  <2> PICK a : a = bps[i].addr OBVIOUS
  <2> DEFINE n == Len(bps) - 1
  <2>2. i \in 1..Len(bps) /\ n \in Nat /\ a \in DOMAIN Text BY DEF IInv, TableOK
  <2>3. Len(bps') = n /\ DOMAIN bps' = 1..n
    BY <2>1, <2>2 DEF Without
  <2> DEFINE old(j) == IF j < i THEN j ELSE j + 1
  <2>4. \A j \in 1..n : /\ bps'[j] = bps[old(j)]
                        /\ old(j) \in 1..Len(bps) /\ old(j) # i
    BY <2>1, <2>2 DEF Without
  <2>12. \A j, k \in 1..n : old(j) = old(k) => j = k
    BY <2>2
  <2> HIDE DEF old
  <2>5. \A x \in DOMAIN Text : mem'[x] = IF x = a THEN bps[i].orig_value ELSE mem[x]
    BY <2>1, <2>2 DEF IInv, MemOK
  <2>6. MemOK' /\ DOMAIN mem' = DOMAIN Text /\ DOMAIN mem = DOMAIN Text BY <2>1, <2>2 DEF IInv, MemOK
  <2>7. TableOK' BY <2>2, <2>3, <2>4 DEF IInv, TableOK
  <2>8. \A j, k \in DOMAIN bps' : bps'[j].addr = bps'[k].addr => j = k
    BY <2>2, <2>3, <2>4, <2>12 DEF IInv, TableOK, BreakpointsArmed
  <2>9. \A j \in DOMAIN bps' : bps'[j].addr # a
    BY <2>2, <2>3, <2>4 DEF IInv, TableOK, BreakpointsArmed
  <2>10. ASSUME NEW x \in DOMAIN Text, x # a
         PROVE  Listed(x)' <=> Listed(x)
    <3>1. ASSUME Listed(x)' PROVE Listed(x)
      BY <3>1, <2>2, <2>3, <2>4 DEF IInv, TableOK, Listed
    <3>2. ASSUME Listed(x) PROVE Listed(x)'
      <4>1. PICK k \in DOMAIN bps : bps[k].addr = x BY <3>2 DEF Listed
      <4>2. k \in 1..Len(bps) /\ k # i BY <4>1, <2>10 DEF IInv, TableOK
      <4>3. CASE k < i
        <5>1. k \in 1..n /\ old(k) = k BY <4>2, <4>3, <2>2 DEF old
        <5> QED BY <5>1, <4>1, <2>3, <2>4 DEF Listed
      <4>4. CASE k > i
        <5>1. k - 1 \in 1..n /\ old(k - 1) = k BY <4>2, <4>4, <2>2 DEF old
        <5> QED BY <5>1, <4>1, <2>3, <2>4 DEF Listed
      <4> QED BY <4>2, <4>3, <4>4, <2>2
    <3> QED BY <3>1, <3>2
  <2>11. \A x \in DOMAIN mem' : mem'[x] = Trap <=> Listed(x)'
    <3>1. mem'[a] # Trap /\ ~Listed(a)'
      BY <2>2, <2>5, <2>9 DEF IInv, TableOK, Listed
    <3>2. ASSUME NEW x \in DOMAIN Text, x # a
          PROVE  mem'[x] = Trap <=> Listed(x)'
      BY <3>2, <2>5, <2>6, <2>10 DEF IInv, BreakpointsArmed
    <3> QED BY <2>6, <3>1, <3>2
  <2> QED BY <2>6, <2>7, <2>8, <2>11 DEF IInv, BreakpointsArmed
<1> QED BY <1>1, <1>2

\* handle_break at a place that has no breakpoint yet
LEMMA BreakArmed ==
  ASSUME IInv, NEW addr \in Places, Careful(addr, 1), Break(addr)
  PROVE  IInv'
<1>1. addr \in DOMAIN Text /\ addr \in Int BY TextAssumption
<1>2. ~Listed(addr) BY <1>1 DEF Careful
<1> DEFINE n == Len(bps) + 1
           e == [addr |-> addr, orig_value |-> mem[addr]]
<1>3. DOMAIN mem = DOMAIN Text BY DEF IInv, MemOK
<1>4. mem[addr] # Trap BY <1>1, <1>2, <1>3 DEF IInv, BreakpointsArmed
<1>5. Len(bps') = n /\ DOMAIN bps' = 1..n /\ n \in Nat
      /\ bps'[n] = e /\ \A j \in 1..Len(bps) : bps'[j] = bps[j]
  BY DEF Break, IInv, TableOK
<1>6. mem' = [mem EXCEPT ![addr] = Trap] BY DEF Break
<1>7. MemOK' /\ DOMAIN mem' = DOMAIN Text BY <1>6, <1>3, <1>1 DEF IInv, MemOK
<1>8. TableOK' BY <1>1, <1>4, <1>5 DEF IInv, TableOK
<1>9. \A x : Listed(x)' <=> (Listed(x) \/ x = addr)
  BY <1>5 DEF Listed, IInv, TableOK
<1>10. \A x \in DOMAIN mem' : mem'[x] = Trap <=> Listed(x)'
  BY <1>3, <1>6, <1>7, <1>9 DEF IInv, BreakpointsArmed
<1>11. \A j, k \in DOMAIN bps' : bps'[j].addr = bps'[k].addr => j = k
  BY <1>2, <1>5 DEF IInv, TableOK, BreakpointsArmed, Listed
<1> QED BY <1>7, <1>8, <1>10, <1>11 DEF IInv, BreakpointsArmed

\* The padding of handle_write
LEMMA Padded ==
  ASSUME NEW len \in Nat, NEW w \in Nat \ {0}
  PROVE  len < w * (len \div w + 1) /\ w * (len \div w + 1) \in Int
<1>1. len < w * (len \div w + 1) OBVIOUS
<1>2. len \div w + 1 \in Int OBVIOUS
<1> QED BY <1>1, <1>2

\* handle_write puts the bytes in place, and what it fills them up with was there.
LEMMA WriteBytes ==
  ASSUME IInv, NEW w \in Writes, Write(w[1], w[2])
  PROVE  /\ MemOK' /\ DOMAIN mem = DOMAIN Text
         /\ \A x \in DOMAIN Text :
              mem'[x] = IF x \in w[1]..w[1] + Len(w[2]) - 1 THEN w[2][x - w[1] + 1] ELSE mem[x]
<1> DEFINE addr == w[1]
           len  == Len(w[2])
           full == addr..addr + Word * (len \div Word + 1) - 1
           buf  == [y \in full |-> IF y < addr + len THEN w[2][y - addr + 1] ELSE mem[y]]
<1>1. addr \in Int /\ len \in Nat BY WritesAssumption, TextAssumption
<1>2. DOMAIN mem' = DOMAIN mem /\ DOMAIN mem = DOMAIN Text /\ MemOK'
  BY DEF Write, IInv, MemOK
<1>3. len < Word * (len \div Word + 1) /\ Word * (len \div Word + 1) \in Int
  <2>1. Word \in Nat \ {0} BY SizeAssumption
  <2> QED BY <1>1, <2>1, Padded
<1>4. ASSUME NEW x \in DOMAIN Text
      PROVE  mem'[x] = IF x \in addr..addr + len - 1 THEN w[2][x - addr + 1] ELSE mem[x]
  <2>1. mem'[x] = IF x \in full THEN buf[x] ELSE mem[x] BY <1>2 DEF Write
  <2>2. x \in Int BY TextAssumption
  <2>3. x \in addr..addr + len - 1 <=> x \in full /\ x < addr + len
    BY <2>2, <1>1, <1>3
  <2> QED BY <2>1, <2>3
<1> QED BY <1>2, <1>4

\* handle_write away from the breakpoints
LEMMA WriteArmed ==
  ASSUME IInv, NEW w \in Writes, Careful(w[1], Len(w[2])), Write(w[1], w[2])
  PROVE  IInv'
<1> DEFINE addr == w[1]
           len  == Len(w[2])
<1>1. addr \in Int /\ len \in Nat /\ \A i \in 1..len : w[2][i] # Trap
  BY WritesAssumption, TextAssumption
<1>2. MemOK' /\ DOMAIN mem' = DOMAIN Text /\ UNCHANGED bps
  BY WriteBytes DEF Write, MemOK
<1>3. \A x \in DOMAIN mem' : mem'[x] = Trap <=> Listed(x)'
  <2>1. \A x : Listed(x)' <=> Listed(x) BY <1>2 DEF Listed
  <2>2. ASSUME NEW x \in DOMAIN Text PROVE mem'[x] = Trap <=> Listed(x)
    <3>1. CASE x \in addr..addr + len - 1
      <4>1. x - addr + 1 \in 1..len BY <3>1, <1>1
      <4>2. mem'[x] = w[2][x - addr + 1] BY <3>1, WriteBytes
      <4> QED BY <3>1, <4>1, <4>2, <1>1 DEF Careful
    <3>2. CASE x \notin addr..addr + len - 1
      BY <3>2, WriteBytes DEF IInv, BreakpointsArmed
    <3> QED BY <3>1, <3>2
  <2> QED BY <2>1, <2>2, <1>2
<1> QED BY <1>2, <1>3 DEF IInv, TableOK, BreakpointsArmed

LEMMA StepArmed == IInv /\ [Next]_vars => IInv'
<1> SUFFICES ASSUME IInv, [Next]_vars PROVE IInv'
  OBVIOUS
<1>1. CASE UNCHANGED <<mem, bps>>
  BY <1>1 DEF IInv, MemOK, TableOK, BreakpointsArmed, Listed
<1>2. CASE Stop BY <1>2, PostArmed DEF Stop
<1>3. ASSUME NEW addr \in Places, Careful(addr, 1), Break(addr) PROVE IInv'
  BY <1>3, BreakArmed
<1>4. ASSUME NEW w \in Writes, Careful(w[1], Len(w[2])), Write(w[1], w[2]) PROVE IInv'
  BY <1>4, WriteArmed
<1> QED BY <1>1, <1>2, <1>3, <1>4
  DEF Next, vars, Execute, ExecuteTrap, Exit, Step, Continue, Quit, Set

\* Every breakpoint in the table has its trap in memory, once, and every trap
\* in memory its entry, for every program and every sequence of commands of
\* a careful user: handle_break, handle_break_post and handle_write agree.
THEOREM BreakpointsStayArmed == Spec => []BreakpointsArmed
<1>1. Init => IInv BY InitArmed
<1>2. IInv /\ [Next]_vars => IInv' BY StepArmed
<1>3. IInv => BreakpointsArmed BY DEF IInv
<1> QED BY <1>1, <1>2, <1>3, PTL DEF Spec
-----------------------------------------------------------------------------
(* The refinement *)

\* The bytes are those of the program or of the user, under the traps, too, and
\* the entries of the table are places of the user.
BytesOK ==
  /\ \A x \in DOMAIN Text : mem[x] # Trap => mem[x] \in BytesAt(x)
  /\ \A i \in 1..Len(bps) : /\ bps[i].addr \in Places
                            /\ bps[i].orig_value \in BytesAt(bps[i].addr)

\* A stop is just behind a breakpoint if and only if that breakpoint fired.
StopOK == /\ pcBar \in DOMAIN Text /\ rip \in Int
          /\ trapped \in BOOLEAN /\ (trapped => state = "stopped")
          /\ state = "stopped" => (trapped <=> Listed(rip - 1))

RInv == IInv /\ BytesOK /\ StopOK

\* What the program shows at a place with a breakpoint, and at one without
LEMMA TextBar ==
  ASSUME IInv
  PROVE  /\ DOMAIN textBar = DOMAIN Text
         /\ \A i \in DOMAIN bps : textBar[bps[i].addr] = bps[i].orig_value
         /\ \A x \in DOMAIN Text : ~Listed(x) => textBar[x] = mem[x]
         /\ textBar = [x \in DOMAIN Text |-> textBar[x]]
<1>1. DOMAIN mem = DOMAIN Text BY DEF IInv, MemOK
<1>2. ASSUME NEW i \in DOMAIN bps PROVE textBar[bps[i].addr] = bps[i].orig_value
  <2> DEFINE S == {j \in DOMAIN bps : bps[j].addr = bps[i].addr}
  <2>1. S = {i} /\ i \in Int BY DEF IInv, BreakpointsArmed, TableOK
  <2>2. Min(S) = i BY <2>1 DEF Min
  <2>3. bps[i].addr \in DOMAIN mem /\ Listed(bps[i].addr)
    BY <1>1 DEF IInv, TableOK, Listed
  <2> QED BY <2>2, <2>3 DEF textBar
<1>3. \A x \in DOMAIN Text : ~Listed(x) => textBar[x] = mem[x] BY <1>1 DEF textBar
<1> QED BY <1>1, <1>2, <1>3 DEF textBar

\* The same of the next state
LEMMA TextBarPrime ==
  ASSUME IInv'
  PROVE  /\ DOMAIN textBar' = DOMAIN Text
         /\ \A i \in DOMAIN bps' : textBar'[bps'[i].addr] = bps'[i].orig_value
         /\ \A x \in DOMAIN Text : ~Listed(x)' => textBar'[x] = mem'[x]
         /\ textBar' = [x \in DOMAIN Text |-> textBar'[x]]
<1>1. DOMAIN mem' = DOMAIN Text BY DEF IInv, MemOK
<1>2. ASSUME NEW i \in DOMAIN bps' PROVE textBar'[bps'[i].addr] = bps'[i].orig_value
  <2> DEFINE S == {j \in DOMAIN bps' : bps'[j].addr = bps'[i].addr}
  <2>1. S = {i} /\ i \in Int BY DEF IInv, BreakpointsArmed, TableOK
  <2>2. Min(S) = i BY <2>1 DEF Min
  <2>3. bps'[i].addr \in DOMAIN mem' /\ Listed(bps[i].addr)'
    BY <1>1 DEF IInv, TableOK, Listed
  <2> QED BY <2>2, <2>3 DEF textBar
<1>3. \A x \in DOMAIN Text : ~Listed(x)' => textBar'[x] = mem'[x] BY <1>1 DEF textBar
<1> QED BY <1>1, <1>2, <1>3 DEF textBar

\* handle_break_post undoes the breakpoint that fired, if one has.
LEMMA PostUndoes ==
  ASSUME RInv, state = "stopped", handle_break_post
  PROVE  \/ ~trapped /\ UNCHANGED <<mem, rip, bps>>
         \/ /\ trapped /\ rip' = rip - 1 /\ rip' \in DOMAIN Text /\ rip \in Int
            /\ \E i \in DOMAIN bps :
                 /\ bps[i].addr = rip - 1
                 /\ mem' = [mem EXCEPT ![rip - 1] = bps[i].orig_value]
                 /\ bps' = Without(i)
<1> DEFINE hit == {i \in DOMAIN bps : rip = bps[i].addr + 1}
<1>0. \A i \in DOMAIN bps : bps[i].addr \in Int
  BY TextAssumption DEF RInv, IInv, TableOK
<1>1. rip \in Int BY DEF RInv, StopOK
<1>2. hit # {} <=> trapped
  <2>1. hit # {} <=> Listed(rip - 1) BY <1>0, <1>1 DEF Listed
  <2> QED BY <2>1 DEF RInv, StopOK
<1>3. CASE hit = {} BY <1>2, <1>3 DEF handle_break_post
<1>4. CASE hit # {}
  <2> DEFINE i == Min(hit)
  <2>1. \A j, k \in hit : j = k BY <1>0, <1>1 DEF RInv, IInv, BreakpointsArmed
  <2>2. i \in hit
    <3>1. PICK h \in hit : TRUE BY <1>4
    <3>2. hit \subseteq Nat BY DEF RInv, IInv, TableOK
    <3>3. \E x \in hit : \A y \in hit : x =< y BY <3>1, <3>2, <2>1
    <3> QED BY <3>3 DEF Min
  <2>3. /\ rip' = bps[i].addr
        /\ mem' = [mem EXCEPT ![bps[i].addr] = bps[i].orig_value]
        /\ bps' = Without(i)
    BY <1>4 DEF handle_break_post
  <2>4. i \in DOMAIN bps /\ bps[i].addr = rip - 1 BY <2>2, <1>0, <1>1
  <2>5. rip - 1 \in DOMAIN Text BY <2>4 DEF RInv, IInv, TableOK
  <2> HIDE DEF i, hit
  <2> QED BY <1>1, <1>2, <1>4, <2>3, <2>4, <2>5
<1> QED BY <1>3, <1>4

\* The instructions of the tracee are those of the program.
LEMMA ExecuteRefines ==
  ASSUME RInv, Execute
  PROVE  RInv' /\ Program!Run
<1>1. rip \in DOMAIN Text /\ pcBar = rip /\ ~trapped /\ trapped = FALSE /\ rip \in Int
  BY DEF Execute, RInv, StopOK, pcBar
<1>2. mem[rip] \notin {Trap, Halt} /\ ~Listed(rip) /\ mem[rip] \in BytesAt(rip)
  BY <1>1 DEF Execute, RInv, BytesOK, IInv, MemOK, BreakpointsArmed
<1>3. textBar[rip] = mem[rip] BY <1>1, <1>2, TextBar DEF RInv
<1>4. UNCHANGED <<mem, bps, trapped>> /\ rip' \in Goes(mem[rip], rip)
      /\ state \in {"step", "run"} /\ state' \in {"stopped", "run"}
  BY DEF Execute
<1>5. /\ rip' \in DOMAIN Text /\ rip' \in Int
      /\ rip' - 1 \in Places => rip' - 1 = rip
  BY <1>1, <1>2, <1>4, FlowAssumption, TextAssumption
<1>6. pcBar' = rip' BY <1>1, <1>4 DEF pcBar
<1>7. textBar' = textBar BY <1>4 DEF textBar, Listed
<1>8. Program!Run
  BY <1>1, <1>2, <1>3, <1>4, <1>6, <1>7 DEF Program!Run
<1>9. ~Listed(rip' - 1)
  <2>1. Listed(rip' - 1) => rip' - 1 \in Places BY DEF RInv, BytesOK, IInv, TableOK, Listed
  <2> QED BY <2>1, <1>2, <1>5
<1>10. IInv' /\ BytesOK'
  BY <1>4 DEF RInv, IInv, MemOK, TableOK, BreakpointsArmed, Listed, BytesOK
<1>11. StopOK'
  <2>1. Listed(rip - 1)' <=> Listed(rip' - 1) BY <1>4 DEF Listed
  <2>2. trapped' = FALSE /\ rip' \in Int /\ pcBar' \in DOMAIN Text /\ ~Listed(rip - 1)'
    BY <2>1, <1>1, <1>4, <1>5, <1>6, <1>9
  <2> QED BY <2>2 DEF StopOK
<1> QED BY <1>8, <1>10, <1>11 DEF RInv

\* A trap, and the stop that undoes it, are not seen.
LEMMA TrapHidden ==
  ASSUME RInv, ExecuteTrap
  PROVE  RInv' /\ UNCHANGED <<textBar, pcBar, state = "exited">>
<1>1. rip \in DOMAIN Text /\ pcBar = rip /\ ~trapped /\ rip \in Int
  BY DEF ExecuteTrap, RInv, StopOK, pcBar
<1>2. /\ UNCHANGED <<mem, bps>> /\ rip' = rip + 1 /\ trapped' = TRUE
      /\ state \in {"step", "run"} /\ state' = "stopped" /\ mem[rip] = Trap
  BY DEF ExecuteTrap
<1>3. textBar' = textBar BY <1>2 DEF textBar, Listed
<1>4. pcBar' = rip /\ rip' - 1 = rip BY <1>1, <1>2 DEF pcBar
<1>5. Listed(rip) BY <1>1, <1>2 DEF RInv, IInv, MemOK, BreakpointsArmed
<1>6. IInv' /\ BytesOK'
  BY <1>2 DEF RInv, IInv, MemOK, TableOK, BreakpointsArmed, Listed, BytesOK
<1>7. StopOK'
  <2>1. Listed(rip - 1)' <=> Listed(rip) BY <1>2, <1>4 DEF Listed
  <2> QED BY <2>1, <1>1, <1>2, <1>4, <1>5 DEF StopOK
<1> QED BY <1>1, <1>2, <1>3, <1>4, <1>6, <1>7 DEF RInv

LEMMA StopHidden ==
  ASSUME RInv, Stop
  PROVE  RInv' /\ UNCHANGED <<textBar, pcBar, state = "exited">>
<1>0. handle_break_post /\ state = "stopped" /\ state' = "prompt" /\ trapped' = FALSE
  BY DEF Stop
<1>1. IInv' BY <1>0, PostArmed DEF RInv
<1>2. CASE ~trapped /\ UNCHANGED <<mem, rip, bps>>
  <2>1. textBar' = textBar /\ pcBar' = pcBar BY <1>0, <1>2 DEF textBar, Listed, pcBar
  <2>2. BytesOK' BY <1>2 DEF RInv, BytesOK
  <2>3. StopOK' BY <1>0, <1>2, <2>1 DEF RInv, StopOK
  <2> QED BY <1>0, <1>1, <2>1, <2>2, <2>3 DEF RInv
<1>3. CASE trapped /\ ~UNCHANGED <<mem, rip, bps>>
  <2>1. PICK i \in DOMAIN bps :
          /\ bps[i].addr = rip - 1 /\ rip' = rip - 1 /\ rip' \in DOMAIN Text /\ rip \in Int
          /\ mem' = [mem EXCEPT ![rip - 1] = bps[i].orig_value]
          /\ bps' = Without(i)
    BY <1>0, <1>3, PostUndoes
  <2> PICK a : a = rip - 1 OBVIOUS
  <2>2. i \in 1..Len(bps) /\ Len(bps) \in Nat /\ a \in DOMAIN Text /\ DOMAIN bps = 1..Len(bps)
        /\ DOMAIN mem = DOMAIN Text
    BY <2>1 DEF RInv, IInv, TableOK, MemOK
  <2>3. \A j \in DOMAIN bps' : \E k \in DOMAIN bps : bps'[j] = bps[k]
    BY <2>1, <2>2 DEF Without
  <2>4. \A k \in DOMAIN bps \ {i} : \E j \in DOMAIN bps' : bps'[j] = bps[k]
    <3> TAKE k \in DOMAIN bps \ {i}
    <3>1. CASE k < i
      <4>1. k \in DOMAIN bps' /\ bps'[k] = bps[k] BY <3>1, <2>1, <2>2 DEF Without
      <4> QED BY <4>1
    <3>2. CASE k > i
      <4>1. k - 1 \in DOMAIN bps' /\ bps'[k - 1] = bps[k] BY <3>2, <2>1, <2>2 DEF Without
      <4> QED BY <4>1
    <3> QED BY <3>1, <3>2, <2>2
  <2>5. \A x \in DOMAIN Text : mem'[x] = IF x = a THEN bps[i].orig_value ELSE mem[x]
    BY <2>1, <2>2
  <2>6. ~Listed(a)'
    <3>1. mem'[a] # Trap BY <2>2, <2>5 DEF RInv, IInv, TableOK
    <3> QED BY <3>1, <2>2, <1>1 DEF IInv, MemOK, BreakpointsArmed
  <2>7. \A x \in DOMAIN Text : textBar'[x] = textBar[x]
    <3> TAKE x \in DOMAIN Text
    <3>1. /\ \A j \in DOMAIN bps' : textBar'[bps'[j].addr] = bps'[j].orig_value
          /\ \A y \in DOMAIN Text : ~Listed(y)' => textBar'[y] = mem'[y]
      BY <1>1, TextBarPrime
    <3>2. /\ \A j \in DOMAIN bps : textBar[bps[j].addr] = bps[j].orig_value
          /\ \A y \in DOMAIN Text : ~Listed(y) => textBar[y] = mem[y]
      BY TextBar DEF RInv
    <3>3. CASE x = a BY <3>1, <3>2, <3>3, <2>1, <2>2, <2>5, <2>6
    <3>4. CASE x # a /\ Listed(x)
      <4>1. PICK k \in DOMAIN bps : bps[k].addr = x BY <3>4 DEF Listed
      <4>2. k # i BY <4>1, <3>4, <2>1
      <4>3. PICK j \in DOMAIN bps' : bps'[j] = bps[k] BY <4>1, <4>2, <2>4
      <4> QED BY <4>1, <4>3, <3>1, <3>2
    <3>5. CASE x # a /\ ~Listed(x)
      <4>1. ~Listed(x)' BY <3>5, <2>3 DEF Listed
      <4> QED BY <4>1, <3>1, <3>2, <3>5, <2>5
    <3> QED BY <3>3, <3>4, <3>5
  <2>8. textBar' = textBar BY <2>7, <1>1, TextBar, TextBarPrime DEF RInv
  <2>9. pcBar' = pcBar BY <1>0, <1>3, <2>1 DEF pcBar
  <2>10. BytesOK'
    <3>1. \A x \in DOMAIN Text : mem'[x] # Trap => mem'[x] \in BytesAt(x)
      BY <2>1, <2>2, <2>5 DEF RInv, BytesOK
    <3>2. \A j \in 1..Len(bps') : bps'[j].addr \in Places /\ bps'[j].orig_value \in BytesAt(bps'[j].addr)
      <4>1. DOMAIN bps' = 1..Len(bps') BY <1>1 DEF IInv, TableOK
      <4> QED BY <4>1, <2>2, <2>3 DEF RInv, BytesOK
    <3> QED BY <3>1, <3>2 DEF BytesOK
  <2>11. StopOK'
    <3>1. rip' \in Int BY <2>1
    <3>2. pcBar' \in DOMAIN Text BY <2>9 DEF RInv, StopOK
    <3> QED BY <1>0, <3>1, <3>2 DEF StopOK
  <2> QED BY <1>0, <1>1, <2>8, <2>9, <2>10, <2>11 DEF RInv
<1> QED BY <1>0, <1>2, <1>3, PostUndoes

\* The program ends when the tracee does.
LEMMA ExitRefines ==
  ASSUME RInv, Exit
  PROVE  RInv' /\ Program!End
<1>1. rip \in DOMAIN Text /\ pcBar = rip /\ trapped = FALSE /\ rip \in Int
  BY DEF Exit, RInv, StopOK, pcBar
<1>2. /\ UNCHANGED <<mem, rip, bps, trapped>> /\ state' = "exited" /\ state # "exited"
      /\ mem[rip] = Halt
  BY DEF Exit
<1>3. ~Listed(rip)
  BY <1>1, <1>2, FlowAssumption DEF RInv, IInv, MemOK, BreakpointsArmed
<1>4. textBar[rip] = Halt BY <1>1, <1>2, <1>3, TextBar DEF RInv
<1>5. textBar' = textBar /\ pcBar' = pcBar BY <1>2 DEF textBar, Listed, pcBar
<1>6. Program!End BY <1>1, <1>2, <1>4, <1>5 DEF Program!End
<1>7. IInv' /\ BytesOK'
  BY <1>2 DEF RInv, IInv, MemOK, TableOK, BreakpointsArmed, Listed, BytesOK
<1>8. StopOK' BY <1>1, <1>2, <1>5 DEF StopOK
<1> QED BY <1>6, <1>7, <1>8 DEF RInv

\* set changes where the program goes on, and nothing else.
LEMMA SetRefines ==
  ASSUME RInv, NEW value \in Landings, Set(value)
  PROVE  RInv' /\ Program!SetPc
<1>1. /\ UNCHANGED <<mem, state, bps, trapped>> /\ rip' = value /\ state = "prompt"
  BY DEF Set
<1>2. value \in DOMAIN Text /\ value \in Int BY FlowAssumption, TextAssumption
<1>3. trapped = FALSE BY <1>1 DEF RInv, StopOK
<1>4. pcBar' = value BY <1>1, <1>3 DEF pcBar
<1>5. textBar' = textBar BY <1>1 DEF textBar, Listed
<1>6. DOMAIN textBar = DOMAIN Text BY TextBar DEF RInv
<1>7. Program!SetPc BY <1>1, <1>2, <1>4, <1>5, <1>6 DEF Program!SetPc
<1>8. IInv' /\ BytesOK'
  BY <1>1 DEF RInv, IInv, MemOK, TableOK, BreakpointsArmed, Listed, BytesOK
<1>9. StopOK' BY <1>1, <1>2, <1>3, <1>4 DEF StopOK
<1> QED BY <1>7, <1>8, <1>9 DEF RInv

\* A new breakpoint is not seen.
LEMMA BreakHidden ==
  ASSUME RInv, NEW addr \in Places, Careful(addr, 1), Break(addr)
  PROVE  RInv' /\ UNCHANGED <<textBar, pcBar, state = "exited">>
<1>1. addr \in DOMAIN Text /\ addr \in Int BY TextAssumption
<1>2. ~Listed(addr) BY <1>1 DEF Careful
<1>3. IInv' BY BreakArmed DEF RInv
<1> DEFINE n == Len(bps) + 1
<1>4. DOMAIN mem = DOMAIN Text /\ n \in Nat /\ DOMAIN bps = 1..Len(bps)
  BY DEF RInv, IInv, MemOK, TableOK
<1>5. /\ UNCHANGED <<rip, state, trapped>> /\ state = "prompt"
      /\ mem' = [mem EXCEPT ![addr] = Trap]
      /\ DOMAIN bps' = 1..n /\ Len(bps') = n /\ bps'[n].addr = addr /\ bps'[n].orig_value = mem[addr]
      /\ \A j \in 1..Len(bps) : bps'[j] = bps[j]
  BY DEF Break, RInv, IInv, TableOK
<1>6. textBar' = textBar
  <2>1. ASSUME NEW x \in DOMAIN Text PROVE textBar'[x] = textBar[x]
    <3>1. /\ \A j \in DOMAIN bps' : textBar'[bps'[j].addr] = bps'[j].orig_value
          /\ \A y \in DOMAIN Text : ~Listed(y)' => textBar'[y] = mem'[y]
      BY <1>3, TextBarPrime
    <3>2. /\ \A j \in DOMAIN bps : textBar[bps[j].addr] = bps[j].orig_value
          /\ \A y \in DOMAIN Text : ~Listed(y) => textBar[y] = mem[y]
      BY TextBar DEF RInv
    <3>3. CASE x = addr
      <4>1. n \in DOMAIN bps' BY <1>4, <1>5
      <4>2. textBar'[addr] = mem[addr] BY <4>1, <3>1, <1>5
      <4> QED BY <4>2, <3>2, <3>3, <1>1, <1>2
    <3>4. CASE x # addr /\ Listed(x)
      <4>1. PICK k \in DOMAIN bps : bps[k].addr = x BY <3>4 DEF Listed
      <4>2. k \in DOMAIN bps' /\ bps'[k] = bps[k] BY <4>1, <1>4, <1>5
      <4> QED BY <4>1, <4>2, <3>1, <3>2
    <3>5. CASE x # addr /\ ~Listed(x)
      <4>1. ~Listed(x)'
        <5>1. \A k \in 1..n : k \in 1..Len(bps) \/ k = n BY <1>4
        <5> QED BY <5>1, <3>5, <1>4, <1>5 DEF Listed
      <4> QED BY <4>1, <3>1, <3>2, <3>5, <1>4, <1>5
    <3> QED BY <3>3, <3>4, <3>5
  <2> QED BY <2>1, <1>3, TextBar, TextBarPrime DEF RInv
<1>7. pcBar' = pcBar BY <1>5 DEF pcBar
<1>8. BytesOK'
  <2>1. mem[addr] # Trap BY <1>1, <1>2, <1>4 DEF RInv, IInv, BreakpointsArmed
  <2>2. mem[addr] \in BytesAt(addr) BY <2>1, <1>1 DEF RInv, BytesOK
  <2>3. \A x \in DOMAIN Text : mem'[x] # Trap => mem'[x] \in BytesAt(x)
    BY <1>4, <1>5 DEF RInv, BytesOK
  <2>4. \A j \in 1..Len(bps') : bps'[j].addr \in Places /\ bps'[j].orig_value \in BytesAt(bps'[j].addr)
    <3>1. \A k \in 1..n : k \in 1..Len(bps) \/ k = n BY <1>4
    <3> QED BY <3>1, <2>2, <1>5 DEF RInv, BytesOK
  <2> QED BY <2>3, <2>4 DEF BytesOK
<1>9. StopOK' BY <1>5, <1>7 DEF RInv, StopOK
<1> QED BY <1>3, <1>5, <1>6, <1>7, <1>8, <1>9 DEF RInv

\* A write away from the breakpoints is one to the program's bytes.
LEMMA WriteRefines ==
  ASSUME RInv, NEW w \in Writes, Careful(w[1], Len(w[2])), Write(w[1], w[2])
  PROVE  RInv' /\ Program!Write(w[1], w[2])
<1> DEFINE range == w[1]..w[1] + Len(w[2]) - 1
<1>1. IInv' BY WriteArmed DEF RInv
<1>2. DOMAIN mem = DOMAIN Text
      /\ \A x \in DOMAIN Text : mem'[x] = IF x \in range THEN w[2][x - w[1] + 1] ELSE mem[x]
  BY WriteBytes DEF RInv
<1>3. UNCHANGED <<rip, state, bps, trapped>> /\ state = "prompt" BY DEF Write
<1>4. \A x : Listed(x)' <=> Listed(x) BY <1>3 DEF Listed
<1>5. \A x \in range : ~Listed(x) BY DEF Careful
<1>6. ASSUME NEW x \in DOMAIN Text
      PROVE  textBar'[x] = IF x \in range THEN w[2][x - w[1] + 1] ELSE textBar[x]
  <2>1. /\ \A j \in DOMAIN bps' : textBar'[bps'[j].addr] = bps'[j].orig_value
        /\ \A y \in DOMAIN Text : ~Listed(y)' => textBar'[y] = mem'[y]
    BY <1>1, TextBarPrime
  <2>2. /\ \A j \in DOMAIN bps : textBar[bps[j].addr] = bps[j].orig_value
        /\ \A y \in DOMAIN Text : ~Listed(y) => textBar[y] = mem[y]
    BY TextBar DEF RInv
  <2>3. CASE Listed(x)
    <3>1. PICK k \in DOMAIN bps : bps[k].addr = x BY <2>3 DEF Listed
    <3> QED BY <3>1, <2>1, <2>2, <2>3, <1>3, <1>5
  <2>4. CASE ~Listed(x) BY <2>4, <2>1, <2>2, <1>2, <1>4
  <2> QED BY <2>3, <2>4
<1>7. textBar' = [x \in DOMAIN textBar |-> IF x \in range THEN w[2][x - w[1] + 1] ELSE textBar[x]]
  <2>1. DOMAIN textBar = DOMAIN Text /\ textBar' = [x \in DOMAIN Text |-> textBar'[x]]
    BY <1>1, TextBar, TextBarPrime DEF RInv
  <2> QED BY <2>1, <1>6
<1>8. pcBar' = pcBar BY <1>3 DEF pcBar
<1>9. Program!Write(w[1], w[2]) BY <1>3, <1>7, <1>8 DEF Program!Write
<1>10. BytesOK'
  <2>1. ASSUME NEW x \in DOMAIN Text, mem'[x] # Trap PROVE mem'[x] \in BytesAt(x)
    <3>1. CASE x \in range
      <4>1. mem'[x] = w[2][x - w[1] + 1] BY <3>1, <1>2
      <4> QED BY <3>1, <4>1 DEF BytesAt
    <3>2. CASE x \notin range BY <3>2, <2>1, <1>2 DEF RInv, BytesOK
    <3> QED BY <3>1, <3>2
  <2> QED BY <2>1, <1>3 DEF RInv, BytesOK
<1>11. StopOK' BY <1>3, <1>8 DEF RInv, StopOK
<1> QED BY <1>1, <1>9, <1>10, <1>11 DEF RInv

LEMMA InitRInv == Init => RInv
<1> SUFFICES ASSUME Init PROVE RInv OBVIOUS
<1>1. IInv BY InitArmed
<1>2. BytesOK BY DEF Init, BytesOK, BytesAt
<1>3. StopOK BY FlowAssumption DEF Init, StopOK, pcBar
<1> QED BY <1>1, <1>2, <1>3 DEF RInv

\* Every step keeps the invariant and is a step of the program, or is not seen.
LEMMA StepRefines ==
  RInv /\ [Next]_vars => RInv' /\ [ProgramStep]_<<textBar, pcBar, state = "exited">>
<1> SUFFICES ASSUME RInv, [Next]_vars
             PROVE  RInv' /\ [ProgramStep]_<<textBar, pcBar, state = "exited">>
  OBVIOUS
<1>1. CASE Execute BY <1>1, ExecuteRefines DEF ProgramStep
<1>2. CASE ExecuteTrap BY <1>2, TrapHidden
<1>3. CASE Exit BY <1>3, ExitRefines DEF ProgramStep
<1>4. CASE Stop BY <1>4, StopHidden
<1>5. CASE Step \/ Continue \/ Quit \/ UNCHANGED vars
  <2>1. /\ UNCHANGED <<mem, rip, bps, trapped>> /\ (state' # state => state = "prompt")
        /\ state' \in {state, "step", "run", "quit"}
    BY <1>5 DEF Step, Continue, Quit, vars
  <2>2. textBar' = textBar /\ pcBar' = pcBar BY <2>1 DEF textBar, Listed, pcBar
  <2>3. IInv' /\ BytesOK'
    BY <2>1 DEF RInv, IInv, MemOK, TableOK, BreakpointsArmed, Listed, BytesOK
  <2>4. StopOK'
    <3>1. CASE state' = state BY <3>1, <2>1, <2>2 DEF RInv, StopOK, Listed
    <3>2. CASE state' # state
      <4>1. trapped = FALSE BY <3>2, <2>1 DEF RInv, StopOK
      <4>2. pcBar' \in DOMAIN Text /\ rip' \in Int /\ state' # "stopped"
        BY <3>2, <2>1, <2>2 DEF RInv, StopOK
      <4> QED BY <2>1, <4>1, <4>2 DEF StopOK
    <3> QED BY <3>1, <3>2
  <2> QED BY <2>1, <2>2, <2>3, <2>4 DEF RInv
<1>6. ASSUME NEW value \in Landings, Set(value)
      PROVE  RInv' /\ ProgramStep
  BY <1>6, SetRefines DEF Set, ProgramStep
<1>7. ASSUME NEW addr \in Places, Careful(addr, 1), Break(addr)
      PROVE  RInv' /\ UNCHANGED <<textBar, pcBar, state = "exited">>
  BY <1>7, BreakHidden
<1>8. ASSUME NEW w \in Writes, Careful(w[1], Len(w[2])), Write(w[1], w[2])
      PROVE  RInv' /\ ProgramStep
  <2>1. state = "prompt" BY <1>8 DEF Write
  <2> QED BY <2>1, <1>8, WriteRefines DEF ProgramStep
<1> QED BY <1>1, <1>2, <1>3, <1>4, <1>5, <1>6, <1>7, <1>8 DEF Next

\* Under the debugger the tracee runs the instructions of the program, each once
\* and as the user has written them, and stops, breakpoints and the filling
\* up of writes are not seen, as long as control comes to the byte behind a
\* breakpoint only through it.
THEOREM ProgramRunsAsItself == Spec => ImplementsProgram
<1>1. Spec => Init /\ [][Next]_vars BY PTL DEF Spec
<1> QED BY <1>1, InitRInv, StepRefines, PTL DEF ImplementsProgram
=============================================================================
