# STM32F4_USART_DMA_IDLE: specifications and proofs

TLA+ specifications of the firmware in `src/`, TLC runs that check them on small
instances, and TLAPS proofs of what matters most for every instance. The code is the
reference; line numbers are those of the files in `src/` (GBK encoded).

Modelled: the double-buffered receive path of the serial ports and the echo through the
transmitter of the same handle (`SYSTEM/usart/usart.c`, `USER/main.c`), the memory manager
(`MALLOC/malloc.c`), network bring-up and the periodic work of the main loop with the DHCP
client under it (`LWIP/lwip_app/lwip_comm`), and the PTP daemon (`PTPv2/src`): its message
queues, its port and its arithmetic of times.

## The system

The program is a serial-to-network test bed. `main` (USER/main.c:27-58) sets up the
ports, the pool and the timers, brings up lwIP, and then only calls
`lwip_periodic_handle` (lwip_comm.c:170-197), which every 500 ms of `lwip_localtime`
runs the DHCP timers and polls `receive_str_manage` for six ports. Everything else
happens in interrupt handlers.

| Component | State | Operations | Hard part | What makes it correct |
|---|---|---|---|---|
| USART receive path, usart.c/h | `STUsart` per port: two buffers, counters, four flag bits | `com_init`, `receive_str_manage`, USARTx and DMA handlers, `HAL_UART_RxCpltCallback` | two handlers and the main loop exchange the same two buffers without a lock | no byte lost unnoticed, doubled or reordered; no write outside the buffer; flags and counters agree; reception goes on |
| HAL UART and DMA drivers, receive half (vendored) | `RxState`, `hdmarx->State`, locks, registers | `HAL_UART_Receive_DMA`, `HAL_UART_DMAStop`, both `IRQHandler`s | refuse calls in the wrong state, usually silently | the state machine usart.c relies on |
| USART transmit path, usart.c:241-308 | `gState`, Tx stream, lock | `com_send_str`, `com_send_byte`, `com_send_pstr` | shares handle and lock with the receive path; six ports echo through USART1 | what is sent is what was received; nothing dropped unnoticed |
| Memory manager, malloc.c | `memrdy`, `memmap`, the pool | `my_mem_init`, `mymalloc`, `myfree`, `myrealloc`, `my_mem_perused` | long sequences of calls, fragmentation, moving blocks | blocks apart, map right, contents kept, refusals justified |
| Network bring-up, lwip_comm.c:53-170, lan8720.c:187-215 | the pools lwIP and the driver hold | `lwip_comm_init` and its allocations, retried by `main` | failure half-way, retry | failures are reported; `main` gets out of its waits |
| Periodic handling, lwip_comm.c:170-265 | two timers, `dhcpstatus` | `lwip_periodic_handle`, `lwip_dhcp_process_handle` | wrap of the millisecond counter, order of ticks and replies | timers neither late nor early; an address or the static one in the end |
| lwIP DHCP client (vendored, dhcp.c) | state, tries, time-outs, address and `up` of the interface | its two timers, `dhcp_recv`, start, bind, release | called from the main loop and, for messages, from the Ethernet interrupt | a wait does not depend on a message that is lost; a leased address is usable |
| Timers, timer.c | `lwip_localtime`, overflow count | `TIM_*`, `Start_Tick`, `Stop_Tick` | counter and overflow read apart | the time measured |
| PTP message queues, dep/net.c (the daemon is not called by USER) | two rings of pbufs | `netQPut` in a callback; `netRecv`, `netQEmpty`, `netInit` in the main loop | a counter changed by both sides | packets in order, once, and freed |
| PTP port, protocol.c, bmc.c, ptpd.c, dep/timer.c | port state, events, timers, table of foreign masters, parent | `doState`, `handle`, `toState`, `bmc` | lost and reordered messages, time-outs at any moment | timers, parent and role fit the state; the port settles |
| PTP time arithmetic and measurements, arith.c, dep/servo.c | none | `addTime`, `subTime`, `div2Time`, `scaledNanosecondsToInternalTime`; `updateOffset` and the rest | two numbers with signs of their own | exact results in one form; the offset and the path as they are |
| PTP filters, packing, management, messages of the delay mechanisms | filters, data sets | dep/servo.c, dep/msg.c | | |
| SNTP client, UDP demo, USMART shell, board drivers, start-up | little or none | | | |
| lwIP, CMSIS (vendored) | | | | |

How they interact: the USART and DMA handlers (one preemption priority) interrupt the
main loop; the Ethernet handler (lan8720.c:146) runs the IP stack at a higher priority
and so delays them; the callback of `receive_str_manage` (main.c:92-132) starts a
transmission on USART1 from the receive buffer; network bring-up takes its pools from the
memory manager, which is called from the main loop only.

## Modules

| Module | Contents |
|---|---|
| `HalUartRx` | receive half of one HAL handle as a record, each HAL function a transformer of it |
| `UsartRx` | one port: `com_init`, both handlers, `receive_str_manage` in four steps, the line and the DMA stream |
| `RxStream` | what a receive path promises: bytes in order, once, in chunks of at most one buffer, until a byte is lost |
| `UsartRxSteps` | `receive_str_manage` statement by statement, with chosen labels open to interrupts |
| `UsartEcho` | `UsartRx` composed with the transmit half of the same handle: the callbacks of main.c and `com_send_str` |
| `UsartRxProofs` | invariants of `UsartRx`, and that it implements `RxStream` |
| `UsartRxStepsProofs` | that `UsartRxSteps` implements `UsartRx`, and that three further windows are harmless |
| `UsartEchoProofs` | that the transmit path spoils neither the reception nor what it sends |
| `Malloc` | one pool; each call one step |
| `Heap` | what the memory manager promises: blocks apart, refused only when there is no room |
| `MallocScan` | the search of `my_mem_malloc` cell by cell |
| `MCMallocScan` | `MallocScan` with the values of a byte interchangeable |
| `MallocProofs` | invariants, `Malloc` implements `Heap`, `MallocScan` implements `Malloc` |
| `LwipComm` | `main`, `lwip_comm_init`, `lwip_periodic_handle`, with the DHCP client, TIM6 and the Ethernet interrupt |
| `MCLwipComm`, `LwipCommProofs` | the five buffers of bring-up; the timers for every width of the counter, the client and the types for every order of its messages |
| `PtpNet`, `PtpNetProofs` | one message queue of the PTP daemon, its counter load by load and store by store; its invariants |
| `PtpBmc` | data set comparison, table of foreign masters and state decision, as operators |
| `PtpPort` | the port: a `PtpClock` as a record, `doState` and all it calls as transformers of it |
| `PtpArith`, `PtpArithProofs` | times as numbers of seconds and nanoseconds, what the servo computes from them before its filters, and that it is exact |
| `MCPtpPort`, `PtpPortProofs` | three other clocks; timers, role, types and parent of the port for all of them |

Operators named `..._Something` after a definition, under a comment that begins with
"Fault", are that definition with a plausible mistake; each property is shown to notice
one of them.

### Receive path

The six ports run the same code on their own records, so one port is modelled.

| Model | Code |
|---|---|
| `com` | the `STUsart`; `USART_State` as the set of its bits 0x1 `PROCESSING`, 0x2 `PROCESSED`, 0x4 `FULL`, 0x8 `PENDING` |
| `huart` | both HAL handles with the registers they mirror |
| `ByteArrives`, `LineIdle` | the line: a byte, with or without an error flag; an idle frame after the last byte |
| `USART_IRQHandler` | usart.c:482-518 (equal for all ports): line errors, then IDLE: count, stop, exchange or hold, restart |
| `DMA_IRQHandler` | usart.c:715-769 with `HAL_UART_RxCpltCallback`, 314-475: a full buffer is forced on the user |
| `ManageSwap`, `ManageCall`, `Callback`, `ManageFinish` | usart.c:66-96, 97-100, the user's function, 101-111 |
| `received`, `delivered`, `lost` | history variables |

Bytes carry their numbers, so that order and identity can be stated. `lost` becomes true
when a byte finds no running stream or unread data is overwritten; both are possible by
design, as the comment above `receive_str_manage` says, and the properties are about what
still holds, or about everything up to there.

Constants: `USART_RECEIVE_MAX` (50 in usart.h; `buff_shift` has 8 bits, hence the
assumption that it is at most 255), `MaxBytes` bounds the bytes on the line,
`UsartFirst` says which of the two handlers is served first when both wait: USART1 has IRQ
37 and its stream IRQ 68, all other ports the reverse. `Latency` says how late handlers
may be: 0, all before the next byte or idle frame; 1, those of a line error; 2, no limit,
because the Ethernet handler may run meanwhile.

Abstractions: HAL calls are one step each, with all they change: starting a reception also
clears a pending IDLE, as it clears the error flags by reading SR and DR. The handlers
cannot interrupt one another, and the effect of a handler inside a call of the main loop is
bounded by the labels around it in `UsartRxSteps`, which is where a reader should be
careful. DMA transfer errors are
excluded. The callback of `UsartRx` reads its bytes in one step; those of main.c only start
a transfer that reads them later, which is `UsartEcho`.

### Memory manager

| Model | Code |
|---|---|
| `memmap` | the map, one length per cell (malloc.c:98-101) |
| `memrdy`, `my_mem_init` | malloc.c:60-64; the maps of the external and CCM pools are not initialised at start-up, so that their entries are any value of `Junk` until then |
| `mymalloc`, `myrealloc`, `Refuse` | malloc.c:144-167 with the search 82-106: the uppermost run of free cells that is long enough |
| `Copied`, `Source` | `mymemcpy` (43-48) of the new size from the old block: it reads on behind the old block, and into its own copy when the blocks are neighbours |
| `myfree` | malloc.c:111-139 |
| `held` | the callers: what each live pointer was last seen to hold |

Callers free what they were given, once; the code itself trusts the map at any pointer
(malloc.c:119-124), and no property could hold for callers that do otherwise. The three
pools share no state.

### Echo

`UsartEcho` extends `UsartRx`; the six callbacks all send on USART1, so its port is the one
modelled, and a transfer may be of another port's message.

| Model | Code |
|---|---|
| `tx` | transmit half of the handle: `gState`, the lock, `DMAT`, `TCIE`, the stream with its source and position; `want` is history: what the callback was given |
| `SendStart`, `SendUnlock`, `SendEnd`, `SendRefused` | `com_send_str` (usart.c:241-258) with `HAL_UART_Transmit_DMA`, split where it has the lock and the stream, gives the lock back, and lets the stream have requests |
| `late` | history: interrupts have held the callback up until the other buffer was full |
| `BusyTx` | the wait of usart.c:246: `HAL_UART_GetState` is the union of both halves, so `BUSY_TX` shows only while nothing is received |
| `StopTx` | `HAL_UART_DMAStop`, transmit half, from the IDLE handler (492) and from `receive_str_manage` |
| `LockedIdle`, `LockedFull` | handlers in the middle of `HAL_UART_Transmit_DMA`: the restart of the reception is refused |
| `SendByte`, `DmaTxComplete`, `TxComplete` | the stream and the two completion interrupts |
| `OtherSends` | another port's callback |

Timing: both directions run at one baud rate, so that between two bytes received a running
stream sends one (`paced`). Bytes may come at any point of the callback, for the Ethernet
handler can interrupt it for long. When they fill the other buffer before the transfer has
begun, the buffers are exchanged under the callback and `EchoIntact` is false of that
transfer; it is therefore not claimed of transfers that are not `timely`. Bytes that come
while `com_send_str` waits of itself do not make a transfer late: that they cannot fill a
buffer is part of the claim, and the reason why the odd test of `BusyTx` does no harm.

### Bring-up and periodic work

| Model | Code |
|---|---|
| `pc` | where `main` (main.c:27-58) is: allocating, initialising the PHY, or in one of the parts of `lwip_periodic_handle` |
| `mymalloc`, `Allocated` | the calls of `ETH_Mem_Malloc` and `lwip_comm_mem_malloc`, one by one and in any order (lan8720.c:175-187, lwip_comm.c:53-66); the test for failure compares addresses of pointer variables, so it never fires |
| `LanFails`, `LanWorks` | `LAN8720_Init` and its six attempts; the rest of `lwip_comm_init` |
| `Timeouts`, `Fine`, `Coarse`, `Uarts` | lwip_comm.c:172-197 |
| `lwip_dhcp_process_handle` | lwip_comm.c:203-262 |
| `request`, `dhcp_*`, `received` | the DHCP client of lwIP: states, tries, time-outs; what a message makes of it; a start may find no memory and leave the client off (dhcp.c:692-696) |
| `net.unnamed` | history: an OFFER without a server identifier has stopped the time-out |
| `Tick`, `ETH_IRQHandler` | TIM6 (timer.c) and lan8720.c:146, between any two steps of `main` |
| `since` | history: real time since each timer was set |

An address is only its origin: none, static, leased. The client's back-off times are one
constant; when its t1 or t2 runs out is left open (the counters have 16 bits and count on
through 0, also without a lease), as are the timers inside `sys_check_timeouts`. Memory for
the client itself is taken to be there; a client without a `dhcp` record does nothing, like
one that is off. Sizes are in units of 4 KB, so that `Memory` is 16, the 64 KB of SRAMIN.

### PTP message queue

| Model | Code |
|---|---|
| `pbuf`, `get`, `put`, `count` | `BufQueue` (net.c:10-56) |
| `RecvCallback`, `netQPut`, `Refuse` | net.c:159-173, in the Ethernet interrupt |
| `netRecv`, `netQEmpty` | who calls `netQGet`: net.c:310-394, 63-75 |
| `netQGet`, `netQGetStore` | net.c:42-56, up to the load of `count` and from its store on |
| `Use` | what the caller does with the packet; oversized ones are kept by mistake (359) |
| `Restart` | `netShutdown` and `netInit` (94-132, 206-246), at any time; the daemon itself calls them only until they first succeed, with nothing waiting |
| `queued`, `taken`, `dropped`, `lost`, `overrun` | history: packets in and out, pbufs given up, increments overwritten, whether a packet was put over one not yet taken |

### PTP port

| Model | Code |
|---|---|
| `c` | the `PtpClock` as far as it decides anything, with its two queues |
| `Round` | one call of `doState`: `due` (state decision), `towards` (recommended state), `act` (protocol.c:245-480) |
| `toState`, `leave`, `started` | protocol.c:37-215 |
| `Arrive` | a callback between two rounds, from the first successful `doInit` on, also when the port is FAULTY; either kind of message may be too short |
| `handle`, `handleAnnounce`, `handleSync`, `handleFollowUp` | protocol.c:483-691, 695-763, 799-885 |
| `timerUpdate`, `timerStart`, `timerStop`, `Cleared` | dep/timer.c |
| `updateOffset` | dep/servo.c, the events it raises and the restart of the servo |
| `bmcDataSetComparison`, `addForeign`, `bestUpTo`, `stateDecision` | bmc.c |
| `Periodic`, `Loop` | ptpd.c:51-67: the loop over `doState` until the queues are empty |

A data set keeps its sender, its grandmaster, the distance, and one number for the five
qualities compared in turn. The lengths of timers are left open: any running one may be
over when time has passed. The servo's verdict is one of three distances.

## Runs

| Run | Instance | Shows |
|---|---|---|
| `rx_core` | buffers of 3, 7 bytes, USART2-6, errors served in time, with fairness | types and ranges, `DmaStaysInBuffer`, `Handshake`, `StreamIntact`, `StreamInv`, `CallbackDataStable`, implements `RxStream`, `ReceptionRestarts` |
| `rx_late_usart1` | buffers of 3, 6 bytes, USART1, any latency | the inductive invariant `IInv` holds even then |
| `rx_live_short` | one buffer of 6, 6 bytes, USART1, all in time, with fairness | `EventuallyRead`: what fits into one buffer is read in the end |
| `steps_refine` | buffers of 3, 7 bytes | `receive_str_manage` by statements is the four steps of `UsartRx` |
| `steps_windows` | as before, open before lines 99, 100, 103 | interrupts there do no harm |
| `steps_two_buffers` | violation, open before 84 | both pointers end on one buffer |
| `echo` | buffers of 2, 5 bytes, USART1, in time, with fairness | `EchoIntact`: the stream fetches the bytes the callback was given although the buffer is in use again, unless interrupts hold the callback up until the other buffer is full; `TransmitterFree`: every transfer ends; `ReceptionSound`: the reception keeps `IInv`, and `StreamIntact` until a restart is refused |
| `malloc_scan` | 4 cells of 2 bytes, sizes 0, 1 and 3, two values of a byte | map, contents, usage, the search, implements `Heap` and `Malloc` |
| `lwip` | counter of 7 values, periods 2 and 4, passes of at most 1, six PHY failures, three messages, memory for one attempt and a third as in the code, with fairness | `NeverLate`, `NeverEarly` and their reason `TimerInv`; `LeasedIsUp`; `WaitsAreTimed`, except after an OFFER that names no server; `WaitEnds`, unless the client has fallen asleep for good or bring-up went on without its buffers |
| `lwip_memory` | violation; the same instance | `lwip_comm_init` reports success without its buffers |
| `ptp_net` | ring of 2, 5 packets, 4 pbufs, with fairness | until a packet is put over another one: `FirstInFirstOut`, `NoOtherLeak`; until an increment is lost: `PacketsTaken`; always: `CountIsLow`, and that nothing is put over another packet before an increment is lost |
| `ptp_port` | three other clocks, three messages, a table of 2, queues of 2, each class, with fairness | `TimersMatchState`, `ParentMatchesState`, `RoleMatchesClass`, `LoopEnds`, `Settles`; as `ASSUME`s, with 5 nanoseconds to a second and words of 32 and 2^21 values, that the arithmetic of times is that of numbers |

Bounds. A buffer of 3 can be empty, partly filled, one short of full, and full; 7 bytes
are two full buffers and the start of a third, so that both buffers are exchanged by each
handler and by the main loop, with data held back before and after. Messages may end
anywhere. For the echo, buffers of 2 still have all of these but "one short and more than
one". Four cells are enough for a hole between two blocks that is too small while the
free cells together would do, for a move of a block next to itself, and for a request of
more than is left; sizes 1 and 3 leave a remainder in the last cell. A counter of 7 values
wraps several times, at every phase of both timers, and 7 is little more than the 4 + 2
that the assumption of the module allows. Six PHY failures are one whole failed attempt of
`lwip_comm_init`. Three DHCP messages are an offer, an answer and a late one. Five packets
fill a ring of two, are refused, and fill it again after it was emptied. Three Announce
messages overflow a table of two and change the parent.

The windows of `receive_str_manage`. With interrupts before a single further label open,
`IntactAtRest` fails for each of 72, 81-94, "99=", "103=" and 107-110= (a label "n=" lies
between the load and the store of `USART_State` at line n): in the exchange and after
the test of 0x4 bytes are lost or delivered twice; between load and store a flag that a
handler has set disappears. Lines 99, 100 and 103 are harmless, and so are the four
labels between the pieces. Worth knowing: a handler between 90 and 91 makes the next
reception one of size 0 and takes `receive_count` out of its range.

Fairness.
* Receive path: weak fairness of both handlers (an interrupt stays requested until it is
  served), of the main loop (`receive_str_manage` is polled for ever, lwip_comm.c:181-189,
  and interrupts end) and of `LineIdle` (a line on which nothing comes is seen idle by the
  receiver). None is assumed of bytes: the other side may fall silent for good.
* Echo: the same for the handlers and the main loop, and of the stream, which the hardware
  serves. None of bytes and idle frames.
* `LwipComm`: weak fairness of `main` and of the timer. None of messages or of the PHY:
  its failures are bounded instead (`MaxFailures`), for `main` would try for ever.
* `PtpNet`: weak fairness of the polling; none of packets, of emptying or of a restart.
* `PtpPort`: weak fairness of the loop; strong fairness of polls that find time to have
  passed, of rounds that find the timers of a listening port over once it has, and of an
  initialisation that succeeds: a poll every few milliseconds sees the milliseconds pass,
  timers have a length, and `netInit` is retried for ever.

### What the code does not keep

Comments and documentation that runs show to be wrong:

* usart.h:20 wants two buffers; an interrupt in the exchange of `receive_str_manage` leaves
  both pointers on one (`steps_two_buffers`).
* lwip_comm.c:51-52 and 111-112 return a failure when memory is short. The tests compare
  the addresses of the pointer variables with zero (`lwip_memory`).

Further statements of this kind are definitions of the modules without a run of their own.
Each fails with the change to a configuration given here:

| Statement | Fails | Why |
|---|---|---|
| `UsartRx!ReceptionRestarts` | in `rx_core.cfg` with `UsartFirst = TRUE` | on USART1 the IDLE handler can run before that of the full buffer and asks for a reception of 0 bytes, which the HAL refuses (usart.c:509, 513): the port stays deaf |
| `UsartRx!HeldDataIsProcessed` (usart.c:64) | in `rx_live_short.cfg` with `MaxBytes = 7` | an IDLE right after a full buffer hands over 0 bytes and clears 0x2; no callback runs, nothing sets 0x2 again |
| `UsartRx!NoMoreThanReceived` (usart.h:22) | in `rx_core.cfg` with `Latency = 2` | an error and IDLE served by one call of the handler leave `NDTR` and `_DMA_Receive_Size` of two different transfers |
| `UsartRxSteps!NothingLeftBehind` (usart.c:72) | in `steps_windows.cfg` with "81" among the open labels | a byte between the test of `NDTR` and the stop is never delivered |
| `LwipComm!EveryWaitIsTimed` (dhcp.c:365-366) | as an invariant of `lwip.cfg` | an OFFER without a server identifier stops the time-out (dhcp.c:1624) and nothing is sent (268-271) |
| `LwipComm!EveryWaitEnds` (main.c:42) | as a property of `lwip.cfg` | after such an OFFER, or after a start without memory (dhcp.c:692-696), the tries stop, so that `main` neither gets an address nor gives up |
| `LwipComm!StaticIsUsed` (lwip_comm.c:247) | as an invariant of `lwip.cfg` | after a NAK the client has taken the interface down; giving up sets the static address but not the interface up |
| `PtpPort!ChoosesBest` (bmc.c:261) | as a property of `ptp_port.cfg` | bmc.c:428 keeps the record for which the comparison says it is the worse one (`WorstIsChosen`, below) |

Other behaviour of the code the models show or had to respect:

* `sys_check_timeouts` runs lwIP's own DHCP timers, and `lwip_periodic_handle` runs them
  again, so that the client's time passes twice as fast. Its first timer also polls the
  serial ports, which are therefore served every 500 ms only.
* The DHCP client is not stopped when `lwip_dhcp_process_handle` gives up; a later lease
  replaces the static address.
* `netif_add` cannot fail as it is called, so result 4 of `lwip_comm_init` does not occur.
* `com_send_str` refuses a message at once while another is sent and something is being
  received: its wait tests a state that cannot show then. The IDLE handler breaks off a
  transfer. A restart is refused inside `HAL_UART_Transmit_DMA`.
* A lost increment (net.c:53) leaves the ring of packets behind its counter for good, as
  the daemon never starts it over; packets are then delivered late, but still in order and once.
  Only when the ring fills up is a packet put over another one (`overrun`), which is lost.
* An oversized packet (net.c:359) is never freed. Packets waiting when the queue is started
  over would not be, either, but the daemon does that only before anything has come: a port
  that is FAULTY after its first start goes to the recommended state, not through `doInit`.
* `ptpd_Periodic_Handle` does not return in PRE_MASTER when a message waits: that state
  handles no message, and time does not pass inside the loop (ptpd.c:60-67).
* A reset of the table of foreign masters leaves `best` and the records, and in `doInit`
  also `i`; the flag that a Follow_Up is awaited outlives a change of parent; what the
  parent announces is not in the table.

## Proofs

All theorems are about every value of the constants under the named assumptions of the
modules.

**Receive path.** `IInv` (`UsartRxProofs`) is inductive for either interrupt order and any
latency. It consists of `TypeOK`, `DmaStaysInBuffer`, `Handshake`, `Bookkeeping` and
`Argument`; the first four, `Kept`, are inductive together and none is alone: that the
counters keep their range needs `DMA_Receive_Count + DMA_Receive_Size = USART_RECEIVE_MAX`
and `NDTR <= DMA_Receive_Size`, which need the state of the two HAL handles to agree. From it follow `TypeCorrect`, `DmaInBounds`,
`HandshakeHolds` and the action property `CallbackDataKept`. `StreamInv` adds,
for handlers of line errors served in time (`Latency # 2`), that every restart succeeds
(`RestartsSucceed`) and that the buffers hold exactly the unread bytes; `BytesIntact`
follows, and `Refinement`: each step is one of `RxStream` or leaves its variables alone.
Without the assumption `StreamIntact` is false (`NoMoreThanReceived`, above).

**Receive path, statement by statement.** `StepsInv` (`UsartRxStepsProofs`) says for each
label of `receive_str_manage` what holds there: between the pieces `IInv`; in the exchange
the state at line 70, field by field, as changed by the statements that are done
(`Exchange`); before line 99 that something waits for the callback; at line 100 `Kept`
only, because a handler may have taken `buff` over since the test; after the callback what
is left of `Handshake` while the flags are changed (`Ending`); and that a register that was
loaded with `USART_State` is still right (`Loaded`). It is inductive when no label outside
`Safe` is open, that is, none but those between the pieces and 99, 100 and 103; with any
other label open `IntactAtRest` is false (see the windows, above), so nothing weaker would
do. `BytesInv` adds where the unread bytes are during the exchange, for `Latency # 2` as
for `UsartRx`; `WindowsAreSafe` follows. With nothing open inside the pieces `PieceInv`
keeps, for the other two pieces, what is left of the state at their beginning, and
`PiecesAreAtomic` shows that the last statement of each piece is a step of `UsartRx` and
all others change nothing it sees: `UsartRx` is right to take the pieces as atomic.

**Echo.** All steps of `UsartEcho` but two are steps of `UsartRx` (`EchoStepIsRxStep`), and
the two, handlers that find the handle locked, keep `IInv` as well, at any latency
(`EchoKeepsInvariant`). Until the first of them the bytes are kept, too
(`ReceptionIsSound`). `EchoIsIntact` rests on `TxInv`: a transfer is in one stage at a time
(`OneStage`); until it is started nothing is written to the buffer of the callback
(`MsgWaits`); while the handle is locked a full buffer stops the reception instead of
turning it on that buffer, and leaves nothing to restart it with until the stream runs
(`MsgStarts`); and once it does, a reception that has come round to its buffer is at least
one byte behind it (`MsgIsSent`), as it takes one byte sent for each one received. That
needs USART1 to be the port (`Usart1Assumption`), one byte sent for one received, and
nothing about latency or how long the callback takes before the other buffer is full.

**Memory manager.** `MInv` is inductive: types, the map and the live pointers agree
(`MapMatches`), and contents are kept; the reported usage follows (`UsageHolds`). The
argument goes through `Matches(map, D, cnt)`, which says of any map that it shows
exactly the blocks at `D`: marking a free run adds a block, clearing the cells of a
block removes it, and `myrealloc` does the one after the other. `MallocImplementsHeap`
rests on the cells that the map shows as free being those no block covers. `SearchInv`
is inductive together with `MInv`: the last `cmemb` cells are free, the run cannot be
extended upwards, and no run above holds the request; so the first run found is the
uppermost one, and a search that ends below cell 0 has shown that there is none
(`ScanImplementsMalloc`).

**Periodic work.** `TimerInv` is inductive for every width of the counter that exceeds a
period by two passes of the main loop, which is the assumption of the module: the unsigned
difference of two readings is the real time between them, because no timer is ever older
than that. For this one must know how old a timer may be at each statement: after `Fine` at
most `FINE - 1` and what the pass has taken since. `NeverLateHolds` is a consequence;
`NeverEarlyHolds` takes one more look at `Due`.

**DHCP client.** `ClientInv` is what every function of the client keeps (`NetOK`: a leased
address has its interface up, a state that waits has its timeout set, or has had it stopped
by an OFFER that names no server) and what main's own
view of the address adds: that a lease is noted only once DHCP has succeeded, as otherwise
the address assigned on giving up might be a lease on an interface that is down. There is a
lemma for each function (`Request` for all that send a message, `Release`, `Nak`, `Bind`,
`Start`, `Timeout`), and one for each way it is called (`FineTmr`, `CoarseTmr`, `Received`).

**PTP message queue.** `QueueInv` is inductive for every ring and pool. The counter is
right up to the lost increments at all times, and until a packet is put over one that was
not taken (`overrun`) the invariant says slot by slot that the ring holds what was put in
and not taken out, and for every pbuf who has it. Lost increments only make `get` fall
behind: `netQPut` compares a counter that is short of the `Backlog` by what was lost, so
that it puts a packet over another one only after an increment was lost. The two halves of `netQGet` need that what it has
loaded is between 1 and the counter. The arithmetic of the ring is in the lemmas `Behind`,
`BehindDiffer`, `BehindNext` and `NextBehind`. `FirstInFirstOutHolds` and
`NoOtherLeakHolds` translate positions back to sequences.

**PTP times.** The theorems of `PtpArithProofs` hold for every length of a second, and every
width of a word that holds two of them (`WidthAssumption`; in the code 2 * 10^9 <= 2^31).
`NormalizeIs` is the core: below two seconds of nanoseconds one carry and one correction of
the signs suffice. What `addTime`, `subTime` and `div2Time` hand to it is below that because
their arguments are in normal form, and their results are again (`SumsAreExact`,
`HalvesAreExact`). `Fits` leaves room for the carry: three seconds short of what a word of
seconds holds. `CorrectionsAreExact` needs no such room, as the
seconds of every long word fit (`LongAssumption`; 2^63 <= 2^16 * 2^31 * 10^9), and holds of
all corrections but the least long word: its negation overflows (arith.c:13-15), and where
that wraps the result has the wrong sign. `PathIsMeasured` and
`PeerPathIsMeasured` follow by counting nanoseconds; they say what the servo computes before
its filters, for a path that takes as long in both directions, and that the halving loses
nothing. `SecondsAreSeen` is why the servo may test the seconds of an offset first: what
`updateOffset` computes has none exactly when the measured time and the delay are less than
a second apart, and its nanoseconds are then the whole difference.

**PTP port.** `PortInv` adds to the two properties that the class of the clock admits the
recommended state, too: otherwise nothing would keep a slave-only clock from moving to it.
Most helpers change neither state nor timers (`Same`); `Moved` says that `toState` turns one
sound clock into another, given that only an uncalibrated port becomes a slave. It holds for
any table and any messages, so no type is needed of them.

**PTP parent and table.** `DataInv` adds what `TypeOK` and `ParentMatchesState` need to be
inductive. `Linked` and `Placed` tie the parent to the recommended state and the state of the
port to the same; `due` may break the second, and `towards` restores it, which is why the
order of the two in `doState` matters. `Heard` says that nothing is decided before a record
was written, and `Filled` that the blank records are at the end of the table, although
`count`, `i` and `best` are reset in different places: so no blank record is ever chosen.
`Begun` adds that a parent is missing only before the first successful `doInit`, which is
what `TypeOK` says of it. The
search of `bmc` is a recursive function; `SearchExists` shows that it is defined, and
`BestInTable` that it stays in the table, each by the least number for which it might fail.

**PTP choice of a master.** `WorstIsChosen` turns the finding of `ChoosesBest` into a
statement about every table: among records that agree on the quality of a grandmaster the
comparison is an order (`Comparison`), and the record at which the search ends is the least
good of all; every record of another sender compares as better. Records that disagree, as
for a moment they may when a grandmaster changes its quality, need not be ordered at all.

Only model-checked: all liveness properties (`ReceptionRestarts`, `EventuallyRead`,
`TransmitterFree`, `WaitEnds`, `PacketsTaken`, `LoopEnds`, `Settles`), as liveness under
fairness is beyond the prover. Every other property of a passing run has a theorem.

## Not modelled

The tree is mostly vendored code: the HAL and its headers, CMSIS and lwIP are some nine
tenths of its lines. Of them only what the program's own code relies on is modelled.

* The byte-by-byte build of usart.c (`USART_DMA_ENABLE` 0, usart.c:112-234), and its
  `com_send_byte` and `com_send_pstr`, which write the data register in a busy loop.
* `Start_Tick` and `Stop_Tick` of timer.c.
* Of the PTP daemon: the messages of the delay mechanisms, management messages, the servo's
  filters, and the packing of messages.
* The SNTP client and the UDP demo, which `main` does not call.
* Board drivers, USMART, start-up code: registers and parsing without a protocol.
* lwIP apart from its DHCP client, CMSIS, and the parts of the HAL that usart.c does not
  call: third-party code.

## What is left

1. The SNTP conversions and `Start_Tick`/`Stop_Tick`: operators on bounded numbers against
   their mathematical meaning, and the overflow that is counted between two reads.
2. The servo's filters, whose sums are shifted when their order changes.
3. The peer delay exchange in `PtpPort`, whose requests and answers cross.
4. `UsartEcho` with a second port, whose messages compete for the one transmitter, and the
   proof of the same.
