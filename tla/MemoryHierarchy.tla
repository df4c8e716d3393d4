-------------------------- MODULE MemoryHierarchy --------------------------
(***************************************************************************)
(* The cache simulator: core/core.cc feeds a trace to memory_system/       *)
(* memory_hierarchy.cc, whose components (main memory, L2, L1) pass the    *)
(* requests on through their queues (memory_system/cache.cc).              *)
(*                                                                         *)
(* A cycle of the program is a walk of "at" over the queues in the order   *)
(* in which run_a_cycle processes them, one step per request; queues with  *)
(* nothing ready are passed over.  A request's m_rdy_cycle is "left", the  *)
(* cycles until it is ready, which a late request has below zero.          *)
(***************************************************************************)
EXTENDS TagStore

CONSTANTS
  Accesses,      \* what traces ask for, by single_request: pairs of a line
                 \* number and a type
  Modes,         \* subset of {"dram", "single", "multi"}: DRAM_ONLY, ...
  Singles,       \* values of the configuration's single_request
  Sets, Assoc,   \* geometry of each cache
  Latency,       \* of each component, in cycles
  MaxInFlight,   \* bound: requests in flight when single_request is 0
  MaxLru         \* bound, by single_request: length of an LRU list when a
                 \* request is issued

Caches == {"l1u", "l1i", "l1d", "l2"}
L1s    == Caches \ {"l2"}
Components == Caches \cup {"dram"}
Queues == {"wb", "fill", "out", "in"}
Types  == {"fetch", "store", "ifetch"}      \* REQ_DFETCH, REQ_DSTORE, REQ_IFETCH
Lines  == {a[1] : a \in UNION {Accesses[s] : s \in Singles}}

ASSUME GeometryAssumption ==
  /\ Modes \subseteq {"dram", "single", "multi"}
  /\ Singles \subseteq BOOLEAN /\ \A s \in Singles : Accesses[s] \subseteq Nat \X Types
  /\ \A c \in Caches : Sets[c] \in Nat \ {0} /\ Assoc[c] \in Nat \ {0}
  /\ \A c \in Components : Latency[c] \in Nat

VARIABLES
  mode, single,  \* the configuration
  ended,         \* the trace has been read
  at,            \* place in the schedule of the cycle; 0 between cycles
  store,         \* tag store of each cache
  queue,         \* queue[c][q], requests [line, type, dirty, left]
  inFlight,      \* m_in_flight_reqs, as a number
  wbInFlight,    \* m_in_flight_wb_queue of l2 and dram, as a number
  done,          \* m_done_queue, as a number
  unsaved        \* history: lines stored to, whose data memory lacks

vars == <<mode, single, ended, at, store, queue, inFlight, wbInFlight, done, unsaved>>

-----------------------------------------------------------------------------
\* memory_hierarchy_c::init and run_a_cycle (unified = false): the order of
\* the queues in a cycle, from memory up, and wb, fill, out, in within a cache
MemoryOrder   == <<<<"dram", "out">>, <<"dram", "in">>>>
CacheOrder(c) == <<<<c, "wb">>, <<c, "fill">>, <<c, "out">>, <<c, "in">>>>
Order == [dram   |-> MemoryOrder,
          single |-> MemoryOrder \o CacheOrder("l1u"),
          multi  |-> MemoryOrder \o CacheOrder("l2") \o CacheOrder("l1i")
                                 \o CacheOrder("l1d")]
Final == Len(Order[mode]) + 1

HasNext(c) == mode = "multi" /\ c \in L1s
Above(type) == IF type = "ifetch" THEN "l1i" ELSE "l1d"    \* m_prev_i, m_prev_d
Top(type)   == CASE mode = "dram"   -> "dram"
                 [] mode = "single" -> "l1u"
                 [] mode = "multi"  -> Above(type)

\* wb and out queues are emptied; fill and in queues wait for the ready cycle.
Ready(k, req) == k \in {"wb", "out"} \/ req.left <= 0

\* The next queue of the cycle, from place i on, with something to process
NextPlace(q, i) ==
  Min({Final} \cup
      {j \in i..Final - 1 : LET c == Order[mode][j][1]
                                k == Order[mode][j][2]
                            IN  \E n \in DOMAIN q[c][k] : Ready(k, q[c][k][n])})

Push(q, c, k, req) == [q EXCEPT ![c][k] = Append(@, req)]
Delayed(req, c)    == [req EXCEPT !.left = @ + Latency[c]]
Access(q, c, req)  == Push(q, c, "in", Delayed(req, c))     \* cache_c::access
Fill(q, c, req)    == Push(q, c, "fill", Delayed(req, c))   \* cache_c::fill

NewRequest(line, type) == [line |-> line, type |-> type, dirty |-> FALSE, left |-> 0]
WriteBack(line) == [line |-> line, type |-> "wb", dirty |-> TRUE, left |-> 0]

\* The data of the last store to a line are somewhere above memory.
Carried(line, s, q) ==
  \/ \E c \in Caches : Dirty(s[c], line)
  \/ \E c \in Components : \E k \in Queues :
       \E n \in DOMAIN q[c][k] : q[c][k][n].type = "wb" /\ q[c][k][n].line = line

-----------------------------------------------------------------------------
Init == /\ mode \in Modes /\ single \in Singles
        /\ ended = FALSE /\ at = 0
        /\ store = [c \in Caches |-> EmptyStore(Sets[c], Assoc[c])]
        /\ queue = [c \in Components |-> [k \in Queues |-> <<>>]]
        /\ inFlight = 0 /\ done = 0
        /\ wbInFlight = [c \in {"l2", "dram"} |-> 0]
        /\ unsaved = {}

WbDone == wbInFlight["dram"] = 0 /\ (mode = "multi" => wbInFlight["l2"] = 0)
MayRead == at = 0 /\ ~ended /\ (single => inFlight = 0)

\* run_sim reads a line of the trace: an access, then a cycle
Issue(line, type) ==
  /\ MayRead
  /\ inFlight < MaxInFlight
  /\ \A c \in Caches : \A s \in DOMAIN store[c] : Len(store[c][s].lru) <= MaxLru[single]
  /\ queue' = Access(queue, Top(type), NewRequest(line, type))
  /\ inFlight' = inFlight + 1
  /\ at' = NextPlace(queue', 1)
  /\ UNCHANGED <<mode, single, ended, store, wbInFlight, done, unsaved>>

\* ... or, when the line's type is none of the three, only a cycle
Skip == /\ MayRead
        /\ at' = NextPlace(queue, 1)
        /\ UNCHANGED <<mode, single, ended, store, queue, inFlight, wbInFlight, done, unsaved>>

\* With single_request, cycles without reading while a request is in flight
Wait == /\ at = 0 /\ ~ended /\ single /\ inFlight > 0
        /\ at' = NextPlace(queue, 1)
        /\ UNCHANGED <<mode, single, ended, store, queue, inFlight, wbInFlight, done, unsaved>>

EndTrace == /\ MayRead
            /\ ended' = TRUE
            /\ UNCHANGED <<mode, single, at, store, queue, inFlight, wbInFlight, done, unsaved>>

\* After the trace, until no request and no write-back is in flight
Drain == /\ at = 0 /\ ended /\ (inFlight # 0 \/ ~WbDone)
         /\ at' = NextPlace(queue, 1)
         /\ UNCHANGED <<mode, single, ended, store, queue, inFlight, wbInFlight, done, unsaved>>

Finished == at = 0 /\ ended /\ inFlight = 0 /\ WbDone

\* memory_hierarchy_c::process_done_req and the end of run_a_cycle
EndCycle ==
  /\ at = Final
  /\ at' = 0
  /\ inFlight' = inFlight - done /\ done' = 0
  /\ queue' = [c \in Components |-> [k \in Queues |->
                 [n \in DOMAIN queue[c][k] |-> [queue[c][k][n] EXCEPT !.left = @ - 1]]]]
  /\ UNCHANGED <<mode, single, ended, store, wbInFlight, unsaved>>

-----------------------------------------------------------------------------
\* In the handlers, req is the request that cache c takes from its queue, and
\* rest the queues without it.

\* cache_c::process_wb_queue
ProcessWb(c, req, rest) ==
  /\ queue' = Push(rest, c, "out", req)
  /\ UNCHANGED <<store, wbInFlight, done, unsaved>>

\* cache_c::process_out_queue; memory counts the write-backs it is given
ProcessOut(c, req, rest) ==
  /\ queue' = CASE ~HasNext(c)                   -> Access(rest, "dram", req)
                [] HasNext(c) /\ req.type # "wb" -> Access(rest, "l2", req)
                [] HasNext(c) /\ req.type = "wb" -> Fill(rest, "l2", req)
  /\ wbInFlight' = IF ~HasNext(c) /\ req.type = "wb"
                   THEN [wbInFlight EXCEPT !["dram"] = @ + 1] ELSE wbInFlight
  /\ UNCHANGED <<store, done, unsaved>>

\* cache_c::process_in_queue
ProcessIn(c, req, rest) ==
  LET a      == AccessStore(store[c], req.line, req.type, FALSE)
      missed == IF c \in L1s /\ req.type = "store"
                THEN [req EXCEPT !.dirty = TRUE, !.type = "fetch"] ELSE req
  IN  /\ store' = [store EXCEPT ![c] = a.store]
      /\ queue' = CASE ~a.hit               -> Push(rest, c, "out", missed)
                    [] a.hit /\ c \in L1s   -> rest
                    [] a.hit /\ c = "l2"    -> Fill(rest, Above(req.type), req)
      /\ done' = IF a.hit /\ c \in L1s THEN done + 1 ELSE done
      /\ unsaved' = IF a.hit /\ req.type = "store" THEN unsaved \cup {req.line} ELSE unsaved
      /\ UNCHANGED wbInFlight

\* Mutant: the dirty copy of a clean victim is dropped.
EvictedOnly(a, copyDirty) ==
  IF a.dvictim # NoVictim THEN <<WriteBack(a.dvictim)>> ELSE <<>>

\* The write-backs that a fill puts into the wb queue: one for the dirty
\* victim, or else one for a dirty copy of the victim that l1d has to give up
Evicted(a, copyDirty) ==
  CASE a.dvictim # NoVictim               -> <<WriteBack(a.dvictim)>>
    [] a.dvictim = NoVictim /\ copyDirty  -> <<WriteBack(a.victim)>>
    [] OTHER                              -> <<>>

\* cache_c::process_fill_queue, a write-back from the upper level
FillWriteBack(c, req, rest) ==
  /\ store' = [store EXCEPT ![c] = AccessStore(@, req.line, "wb", TRUE).store]
  /\ wbInFlight' = [wbInFlight EXCEPT ![c] = @ - 1]
  /\ queue' = rest
  /\ UNCHANGED <<done, unsaved>>

\* Mutant: the write-back is not entered in the next level's list.
FillL1Unlisted(c, req, rest) ==
  LET type == IF req.dirty THEN "store" ELSE req.type
      a    == AccessStore(store[c], req.line, type, TRUE)
  IN  /\ store' = [store EXCEPT ![c] = a.store]
      /\ queue' = [rest EXCEPT ![c]["wb"] = @ \o Evicted(a, FALSE)]
      /\ unsaved' = IF type = "store" THEN unsaved \cup {req.line} ELSE unsaved
      /\ done' = done + 1
      /\ UNCHANGED wbInFlight

\* cache_c::process_fill_queue at level 1: the request is done
FillL1(c, req, rest) ==
  LET type == IF req.dirty THEN "store" ELSE req.type
      a    == AccessStore(store[c], req.line, type, TRUE)
  IN  /\ store' = [store EXCEPT ![c] = a.store]
      /\ queue' = [rest EXCEPT ![c]["wb"] = @ \o Evicted(a, FALSE)]
      /\ wbInFlight' = IF HasNext(c) /\ a.dvictim # NoVictim
                       THEN [wbInFlight EXCEPT !["l2"] = @ + 1] ELSE wbInFlight
      /\ unsaved' = IF type = "store" THEN unsaved \cup {req.line} ELSE unsaved
      /\ done' = done + 1

\* Mutant: the instruction cache keeps the victim.
FillL2KeepingL1i(req, rest) ==
  LET a == AccessStore(store["l2"], req.line, req.type, TRUE)
      copyDirty == a.victim # NoVictim /\ Dirty(store["l1d"], a.victim)
  IN  /\ store' = [store EXCEPT !["l2"] = a.store,
                      !["l1d"] = IF a.victim = NoVictim THEN @
                                 ELSE BackInvalidate(@, a.victim)]
      /\ queue' = Fill([rest EXCEPT !["l2"]["wb"] = @ \o Evicted(a, copyDirty)],
                       Above(req.type), req)
      /\ UNCHANGED <<wbInFlight, done, unsaved>>

\* cache_c::process_fill_queue at level 2: the victim is invalidated in both
\* L1 caches, and the request goes up
FillL2(req, rest) ==
  LET a == AccessStore(store["l2"], req.line, req.type, TRUE)
      copyDirty == a.victim # NoVictim /\ Dirty(store["l1d"], a.victim)
  IN  /\ store' = [c \in Caches |->
                     CASE c = "l2" -> a.store
                       [] c \in {"l1d", "l1i"} /\ a.victim # NoVictim ->
                            BackInvalidate(store[c], a.victim)
                       [] OTHER -> store[c]]
      /\ queue' = Fill([rest EXCEPT !["l2"]["wb"] = @ \o Evicted(a, copyDirty)],
                       Above(req.type), req)
      /\ UNCHANGED <<wbInFlight, done, unsaved>>

\* Mutant: a write-back that is committed stays in the list.
MemoryInListed(req, rest) ==
  /\ UNCHANGED <<store, done, wbInFlight>>
  /\ IF req.type = "wb"
     THEN /\ queue' = rest
          /\ unsaved' = {l \in unsaved : l # req.line \/ Carried(l, store, rest)}
     ELSE /\ queue' = Push(rest, "dram", "out", req)
          /\ UNCHANGED unsaved

\* simple_mem_c: what is ready leaves the in queue, a write-back for good ...
MemoryIn(req, rest) ==
  /\ UNCHANGED <<store, done>>
  /\ IF req.type = "wb"
     THEN /\ queue' = rest
          /\ wbInFlight' = [wbInFlight EXCEPT !["dram"] = @ - 1]
          /\ unsaved' = {l \in unsaved : l # req.line \/ Carried(l, store, rest)}
     ELSE /\ queue' = Push(rest, "dram", "out", req)
          /\ UNCHANGED <<wbInFlight, unsaved>>

\* ... and the other requests go to the cache above, or are done
MemoryOut(req, rest) ==
  /\ queue' = CASE mode = "dram"   -> rest
                [] mode = "single" -> Fill(rest, "l1u", req)
                [] mode = "multi"  -> Fill(rest, "l2", req)
  /\ done' = IF mode = "dram" THEN done + 1 ELSE done
  /\ UNCHANGED <<store, wbInFlight, unsaved>>

\* The handler of the queues named k
Handle(c, k, req, rest) ==
  \/ c = "dram" /\ k = "in"  /\ MemoryIn(req, rest)
  \/ c = "dram" /\ k = "out" /\ MemoryOut(req, rest)
  \/ c # "dram" /\ k = "wb"  /\ ProcessWb(c, req, rest)
  \/ c # "dram" /\ k = "out" /\ ProcessOut(c, req, rest)
  \/ c # "dram" /\ k = "in"  /\ ProcessIn(c, req, rest)
  \/ k = "fill" /\ req.type = "wb" /\ FillWriteBack(c, req, rest)
  \/ k = "fill" /\ req.type # "wb" /\ c \in L1s  /\ FillL1(c, req, rest)
  \/ k = "fill" /\ req.type # "wb" /\ c = "l2"   /\ FillL2(req, rest)

\* One request of the queue at hand is processed.
Process ==
  /\ at \in 1..Final - 1
  /\ LET c == Order[mode][at][1]
         k == Order[mode][at][2]
         n == Min({i \in DOMAIN queue[c][k] : Ready(k, queue[c][k][i])})
     IN  Handle(c, k, queue[c][k][n], [queue EXCEPT ![c][k] = RemoveAt(@, n)])
  /\ at' = NextPlace(queue', at)
  /\ UNCHANGED <<mode, single, ended, inFlight>>

Cycle == Wait \/ Drain \/ Process \/ EndCycle

Next == \/ \E a \in Accesses[single] : Issue(a[1], a[2])
        \/ Skip
        \/ EndTrace
        \/ Cycle
        \/ Finished /\ UNCHANGED vars

\* run_sim is a loop: it does not stop between two statements.
Fairness == WF_vars(Cycle)
Spec == Init /\ [][Next]_vars /\ Fairness

-----------------------------------------------------------------------------
\* The queues of the write-backs that l2 waits for
FromL1 == {<<"l2", "fill">>} \cup ({"l1d", "l1i"} \X Queues)

\* Where, in some queues, the requests of some types are
Spots(q, queues, types) ==
  UNION {{<<p, n>> : n \in {i \in DOMAIN q[p[1]][p[2]] : q[p[1]][p[2]][i].type \in types}}
           : p \in queues}

\* Every request is in one queue or done, and the lists of requests and of
\* write-backs in flight, which decide when the simulation ends, say what is
\* in the queues: l2's, what comes from the L1s; memory's, what it was given.
RequestsAccounted ==
  /\ inFlight = done + Cardinality(Spots(queue, Components \X Queues, Types))
  /\ wbInFlight["dram"] = Cardinality(Spots(queue, {"dram"} \X Queues, {"wb"}))
  /\ mode = "multi" =>
       wbInFlight["l2"] = Cardinality(Spots(queue, FromL1, {"wb"}))

\* A hit finds its way in the LRU list and a miss a way to evict (find and
\* back in cache_base.cc do not check): every valid way is in its set's list,
\* and, where nothing is invalidated from below, once and nothing else.
LruListsWays ==
  \A c \in Caches : \A s \in DOMAIN store[c] :
    LET valid == DOMAIN store[c][s].entry \ Invalid(store[c][s])
        lru   == store[c][s].lru
    IN  /\ valid \subseteq ToSet(lru)
        /\ c \in {"l2", "l1u"} => ToSet(lru) = valid /\ Len(lru) = Cardinality(valid)

\* Inclusion, with one request in flight at a time: in every step of a cycle,
\* L2 holds every line that an L1 holds.
L2IncludesL1 ==
  mode = "multi" /\ single =>
    \A c \in {"l1i", "l1d"} : \A l \in Lines : Holds(store[c], l) => Holds(store["l2"], l)

\* No store is lost: until its data reach memory, a cache holds the line
\* dirty or a write-back of it is under way.  (With several requests in
\* flight, an L1 and L2 can lose one.)
StoresAreCarried ==
  (mode = "multi" => single) => \A l \in unsaved : Carried(l, store, queue)

\* After the end of the trace, the simulation ends.
RunsToTheEnd == ended ~> Finished
=============================================================================
