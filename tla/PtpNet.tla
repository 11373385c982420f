------------------------------- MODULE PtpNet -------------------------------
(***************************************************************************)
(* The message queues of the PTP daemon (PTPv2/src/dep/net.c).  The UDP    *)
(* callbacks put packets into a ring of PBUF_QUEUE_SIZE slots; they run in *)
(* the Ethernet interrupt, since ETH_IRQHandler calls lwIP itself.  The    *)
(* main loop takes packets out (netRecv), throws them away (netEmptyEventQ)*)
(* or starts the network over (netShutdown and netInit of doInit).         *)
(*                                                                         *)
(* Nothing guards the queue: `count--' of netQGet is a load and a store,   *)
(* and a callback in between has its `count++' overwritten.  All the rest  *)
(* of netQGet and the callbacks touch different words, so that is the one  *)
(* place where the order matters.  The event and the general queue run the *)
(* same code on their own rings (only the event queue is ever emptied).    *)
(*                                                                         *)
(* Packets are numbered in the order they come.                            *)
(***************************************************************************)
EXTENDS Integers, FiniteSets, Sequences

CONSTANTS
  PBUF_QUEUE_SIZE,  \* slots of the ring (4 in constants_dep.h)
  MaxPackets,       \* bound: packets that come
  Pool              \* pbufs lwIP has for received packets

ASSUME SizeAssumption    == PBUF_QUEUE_SIZE \in Nat \ {0}
ASSUME PacketsAssumption == MaxPackets \in Nat /\ Pool \in Nat \ {0}

VARIABLES
  pbuf, get, put, count,  \* the BufQueue
  pc,       \* where the main loop is in netRecv or netQEmpty
  cnt,      \* rounds netQEmpty still has to make, -1 in netRecv
  reg,      \* `count' as loaded by netQGet
  p,        \* the packet netQGet has taken
  big,      \* packets longer than PACKET_SIZE
  packets,  \* packets that have come
  alloc,    \* packets whose pbuf is not free
  queued,   \* history: packets put into the queue since netQInit, in order
  taken,    \* history: packets taken out of it, in order
  dropped,  \* history: pbufs whose last pointer was overwritten or forgotten
  lost,     \* history: increments of `count' that were overwritten
  overrun   \* history: a packet was put over one that was not taken out

queue == <<pbuf, get, put, count>>
main  == <<pc, cnt, reg, p>>
vars  == <<queue, main, big, packets, alloc, queued, taken, dropped, lost, overrun>>

Slots   == 0 .. PBUF_QUEUE_SIZE - 1
Packets == 1 .. MaxPackets

\* The packets put into the queue and not taken out yet.
Pending == SubSeq(queued, Len(taken) + 1, Len(queued))

\* The packets the ring holds, by its own count; between the load and the store
\* of `count' the packet just taken is still counted.
Uncounted == IF pc = "store" THEN 1 ELSE 0
Contents  == [i \in 1 .. count - Uncounted |-> pbuf[(get + (i - 1)) % PBUF_QUEUE_SIZE]]

-----------------------------------------------------------------------------
\* netQInit, when netInit first runs.
Init ==
  /\ pbuf = [s \in Slots |-> 0] /\ get = 0 /\ put = 0 /\ count = 0
  /\ pc = "idle" /\ cnt = -1 /\ reg = 0 /\ p = 0
  /\ big = {} /\ packets = 0 /\ alloc = {}
  /\ queued = <<>> /\ taken = <<>> /\ dropped = {} /\ lost = 0 /\ overrun = FALSE

\* Faults: a refused packet is not freed; a full ring takes one more packet.
Refuse_NotFreed(n) == alloc' = alloc \cup {n} /\ UNCHANGED <<queue, queued, overrun>>
HasRoom_OffByOne   == count <= PBUF_QUEUE_SIZE

\* netQPut: is there room?
HasRoom == count < PBUF_QUEUE_SIZE

\* netQPut.
netQPut(n) ==
  /\ pbuf' = [pbuf EXCEPT ![put] = n]
  /\ put' = (put + 1) % PBUF_QUEUE_SIZE
  /\ count' = count + 1
  /\ queued' = Append(queued, n)
  /\ alloc' = alloc \cup {n}
  /\ overrun' = (overrun \/ Len(Pending) >= PBUF_QUEUE_SIZE)
  /\ UNCHANGED get

\* A packet for which the ring has no room is freed.
Refuse(n) == UNCHANGED <<queue, queued, alloc, overrun>>

\* netRecvEventCallback: lwIP has allocated a pbuf for the packet.
RecvCallback(tooBig) ==
  /\ packets < MaxPackets
  /\ Cardinality(alloc) < Pool
  /\ packets' = packets + 1
  /\ big' = IF tooBig THEN big \cup {packets + 1} ELSE big
  /\ IF HasRoom THEN netQPut(packets + 1) ELSE Refuse(packets + 1)
  /\ UNCHANGED <<main, taken, dropped, lost>>

-----------------------------------------------------------------------------
\* Fault: a single packet does not count as something.
netRecv_MoreThanOne ==
  /\ pc = "idle" /\ count > 1
  /\ pc' = "get"
  /\ UNCHANGED <<queue, cnt, reg, p, big, packets, alloc, queued, taken, dropped, lost, overrun>>

\* netRecv, when netSelect has found something.
netRecv ==
  /\ pc = "idle" /\ count > 0
  /\ pc' = "get"
  /\ UNCHANGED <<queue, cnt, reg, p, big, packets, alloc, queued, taken, dropped, lost, overrun>>

\* netQEmpty: as many rounds as the queue holds packets now.
netQEmpty ==
  /\ pc = "idle" /\ count > 0
  /\ cnt' = count
  /\ pc' = "get"
  /\ UNCHANGED <<queue, reg, p, big, packets, alloc, queued, taken, dropped, lost, overrun>>

\* The next round of netQEmpty, or the end of either caller.
Return(n) ==
  /\ cnt' = IF n > 1 THEN n - 1 ELSE -1
  /\ pc'  = IF n > 1 THEN "get" ELSE "idle"

\* netQGet up to the load of `count'.
netQGet ==
  /\ pc = "get"
  /\ IF count = 0
     THEN Return(cnt) /\ UNCHANGED <<get, reg, p, taken>>
     ELSE /\ p' = pbuf[get]
          /\ get' = (get + 1) % PBUF_QUEUE_SIZE
          /\ reg' = count
          /\ taken' = Append(taken, pbuf[get])
          /\ pc' = "store"
          /\ UNCHANGED cnt
  /\ UNCHANGED <<pbuf, put, count, big, packets, alloc, queued, dropped, lost, overrun>>

\* Fault: an emptied queue is put to zero whatever came meanwhile.
netQGetStore_Zeroes ==
  /\ pc = "store"
  /\ count' = IF cnt = 1 THEN 0 ELSE reg - 1
  /\ lost' = lost + (count - reg)
  /\ pc' = "use"
  /\ UNCHANGED <<pbuf, get, put, cnt, reg, p, big, packets, alloc, queued, taken, dropped,
                 overrun>>

\* netQGet, the store of `count'.
netQGetStore ==
  /\ pc = "store"
  /\ count' = reg - 1
  /\ lost' = lost + (count - reg)
  /\ pc' = "use"
  /\ UNCHANGED <<pbuf, get, put, cnt, reg, p, big, packets, alloc, queued, taken, dropped,
                 overrun>>

\* The rest of netRecv, or of the round of netQEmpty.  netRecv returns without
\* freeing a packet that is too long for its buffer.
Use ==
  /\ pc = "use"
  /\ Return(cnt)
  /\ IF cnt = -1 /\ p \in big
     THEN dropped' = dropped \cup {p} /\ UNCHANGED alloc
     ELSE alloc' = alloc \ {p} /\ UNCHANGED dropped
  /\ UNCHANGED <<queue, reg, p, big, packets, queued, taken, lost, overrun>>

\* netShutdown removes the callbacks and netInit calls netQInit: packets that wait in
\* the queue would be forgotten.  Its one caller, doInit, is not reached again once it
\* has succeeded (Connected in PtpPort), so that in the daemon nothing waits then; the
\* queue is modelled for a caller that starts it over at any time.
Restart ==
  /\ pc = "idle"
  /\ get' = 0 /\ put' = 0 /\ count' = 0
  /\ queued' = <<>> /\ taken' = <<>> /\ lost' = 0 /\ overrun' = FALSE
  /\ dropped' = alloc
  /\ UNCHANGED <<pbuf, main, big, packets, alloc>>

Main == netRecv \/ netQEmpty \/ netQGet \/ netQGetStore \/ Use

Next == (\E tooBig \in BOOLEAN : RecvCallback(tooBig)) \/ Main \/ Restart

Spec == Init /\ [][Next]_vars

\* The main loop polls netSelect and finishes what it has begun; packets need not
\* come, and nothing says that the queue is ever emptied or started over.
FairSpec == Spec /\ WF_vars(netRecv \/ netQGet \/ netQGetStore \/ Use)
-----------------------------------------------------------------------------
TypeOK ==
  /\ pbuf \in [Slots -> 0 .. MaxPackets]
  /\ get \in Slots /\ put \in Slots /\ count \in 0 .. PBUF_QUEUE_SIZE
  /\ pc \in {"idle", "get", "store", "use"}
  /\ cnt \in -1 .. PBUF_QUEUE_SIZE /\ reg \in 0 .. PBUF_QUEUE_SIZE
  /\ p \in 0 .. MaxPackets /\ packets \in 0 .. MaxPackets
  /\ big \subseteq Packets /\ alloc \subseteq Packets /\ dropped \subseteq Packets
  /\ queued \in Seq(Packets) /\ taken \in Seq(0 .. MaxPackets)
  /\ lost \in Nat /\ overrun \in BOOLEAN

\* A packet is put over one that still waits only when an increment of `count' was
\* lost before.  Until that happens the ring is a queue: packets come out in the order
\* they went in, each at most once, whatever was refused or emptied meanwhile, and what
\* the ring counts are the oldest of those that were put in and not taken out (netQPut,
\* netQGet, netQEmpty).
FirstInFirstOut ==
  /\ overrun => lost > 0
  /\ ~overrun =>
       /\ Contents = SubSeq(Pending, 1, count - Uncounted)
       /\ Len(taken) <= Len(queued)
       /\ taken = SubSeq(queued, 1, Len(taken))

\* Until then, every pbuf that is not free waits in the ring, is in the hands of
\* netRecv, or was given up in one of the two known ways: too long for the buffer, or
\* waiting when the network was started over, which the daemon never does.  A lost
\* increment alone leaks nothing.
NoOtherLeak ==
  ~overrun =>
    alloc \subseteq
      {Pending[i] : i \in 1 .. Len(Pending)} \cup dropped
        \cup (IF pc \in {"store", "use"} THEN {p} ELSE {})

\* The counter only ever errs on the low side, by exactly the increments it has lost
\* to netQGet: what it counts has really been put in and not taken out (net.c:53).
CountIsLow ==
  count + lost = Len(queued) - Len(taken) + Uncounted

\* As long as no increment is lost, every packet put into the queue is taken out of
\* it or forgotten in a restart: the main loop polls until netSelect finds nothing.
Waiting(n)   == \E i \in 1 .. Len(Pending) : Pending[i] = n
PacketsTaken == \A n \in Packets : Waiting(n) ~> (~Waiting(n) \/ lost > 0)
=============================================================================
