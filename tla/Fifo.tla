-------------------------------- MODULE Fifo --------------------------------
(***************************************************************************)
(* What the message queues of core/comm.c promise: bounded queues that     *)
(* hand every message to a receiver exactly once, in the order of the      *)
(* sends.                                                                  *)
(***************************************************************************)
EXTENDS Integers, Sequences

CONSTANTS Tasks, Queues, Size, Msgs, NoMsg

VARIABLES queue,      \* the messages in each queue
          got         \* the last message each task received

Init == /\ queue = [q \in Queues |-> <<>>]
        /\ got = [t \in Tasks |-> NoMsg]

Send(q, m) == /\ Len(queue[q]) < Size[q]
              /\ queue' = [queue EXCEPT ![q] = Append(@, m)]
              /\ UNCHANGED got

Receive(t, q) == /\ queue[q] # <<>>
                 /\ got' = [got EXCEPT ![t] = Head(queue[q])]
                 /\ queue' = [queue EXCEPT ![q] = Tail(@)]

Next == \E q \in Queues : \/ \E m \in Msgs : Send(q, m)
                          \/ \E t \in Tasks : Receive(t, q)

Spec == Init /\ [][Next]_<<queue, got>>
=============================================================================
