------------------------------ MODULE LwipComm ------------------------------
(***************************************************************************)
(* Network bring-up and the periodic work of the main loop: main, the      *)
(* functions of lwip_comm.c and ETH_Mem_Malloc, over the DHCP client of    *)
(* lwIP (dhcp.c), with the millisecond counter of TIM6 and the replies the *)
(* Ethernet interrupt hands to the client between any two steps of main.   *)
(*                                                                         *)
(* Of an address only its origin is kept, of a DHCP message only its type. *)
(* Back-off times are one constant; when the t1 and t2 counters run out    *)
(* (16 bits that count on through 0, also without a lease) and when the    *)
(* timers inside sys_check_timeouts run is left open.                      *)
(***************************************************************************)
EXTENDS Integers, FiniteSets

CONSTANTS
  Pools,        \* the buffers that bring-up allocates
  PoolSize,     \* their sizes
  Memory,       \* size of the memory they come from
  W,            \* values of lwip_localtime (2^32)
  FINE, COARSE, \* DHCP_FINE_TIMER_MSECS, DHCP_COARSE_TIMER_MSECS
  MaxPass,      \* longest time of one pass of the main loop
  Backoff,      \* fine ticks until a request is repeated
  MaxFailures,  \* bound: calls of LAN8720_Init that fail
  MaxReplies    \* bound: messages that come from other hosts

\* A pass of the main loop is short against the period of the counter.
ASSUME TimeAssumption ==
  /\ W \in Nat /\ FINE \in Nat \ {0} /\ COARSE \in Nat \ {0} /\ MaxPass \in Nat
  /\ FINE + 2 * MaxPass < W /\ COARSE + 2 * MaxPass < W

ASSUME BoundAssumption ==
  /\ PoolSize \in [Pools -> Nat] /\ Memory \in Nat
  /\ Backoff \in Nat \ {0} /\ MaxFailures \in Nat /\ MaxReplies \in Nat

LWIP_MAX_DHCP_TRIES == 4
TriesCap == 10     \* bound: no comparison tells larger values of tries apart

VARIABLES
  pc,        \* the statement main is at
  asked,     \* the buffers this bring-up has called mymalloc for
  pools,     \* the buffers whose pointer is not NULL
  used,      \* memory that has been allocated
  retry,     \* the local variable of lwip_comm_init
  result,    \* what lwip_comm_init returned last, 0 .. 4, or -1
  lwipdev,   \* its fields ip and dhcpstatus
  net,       \* lwip_netif: ip, up, its DHCP client; history: unnamed, an OFFER
             \* that names no server was taken, and nothing sent since
  clock,     \* lwip_localtime, DHCPfineTimer and DHCPcoarseTimer
  since,     \* history: real time since each timer was set, and in this pass
  env        \* failures and messages so far

vars == <<pc, asked, pools, used, retry, result, lwipdev, net, clock, since, env>>
boot == <<asked, pools, used, retry, result>>

States == {"OFF", "SELECTING", "REQUESTING", "CHECKING", "BOUND", "RENEWING",
           "REBINDING", "BACKING_OFF"}
FAILED == 255

-----------------------------------------------------------------------------
(* The DHCP client, as functions from the interface to the interface.      *)

set_state(n, s) ==
  IF n.state = s THEN n ELSE [n EXCEPT !.state = s, !.tries = 0, !.timeout = 0]

\* Fault: the state is changed last, and clears what has just been set.
request_StateLast(n, s, wait) ==
  set_state([n EXCEPT !.tries = IF @ < TriesCap THEN @ + 1 ELSE @,
                      !.timeout = wait], s)

\* A message is sent, and will be repeated after `wait' fine ticks.
request(n, s, wait) ==
  [set_state(n, s) EXCEPT !.tries = IF @ < TriesCap THEN @ + 1 ELSE @,
                          !.timeout = wait, !.unnamed = FALSE]

dhcp_discover(n) == request(n, "SELECTING", Backoff)
dhcp_select(n)   == request(n, "REQUESTING", Backoff)
dhcp_check(n)    == request(n, "CHECKING", 1)
dhcp_decline(n)  == request(n, "BACKING_OFF", Backoff)
dhcp_renew(n)    == request(n, "RENEWING", Backoff)
dhcp_rebind(n)   == request(n, "REBINDING", Backoff)

\* Fault: the address stays when the interface goes down.
without_KeepsAddress(n) == [n EXCEPT !.up = FALSE]

without(n)      == [n EXCEPT !.ip = "none", !.up = FALSE]
dhcp_release(n) == without(request(n, "OFF", Backoff))
dhcp_nak(n)     == dhcp_discover(set_state(without(n), "BACKING_OFF"))

dhcp_bind(n) ==
  set_state([n EXCEPT !.ip = "lease", !.up = TRUE], "BOUND")

\* A restart clears the client, not the address of the interface.  Without the
\* memory for the DISCOVER, or for the PCB, the client stays off.
dhcp_start(n) ==
  LET cleared == [n EXCEPT !.state = "OFF", !.tries = 0, !.timeout = 0,
                           !.unnamed = FALSE]
  IN  {dhcp_discover(cleared), cleared}

dhcp_timeout(n) ==
  CASE n.state \in {"SELECTING", "BACKING_OFF"} -> dhcp_discover(n)
    [] n.state = "REQUESTING" /\ n.tries <= 5   -> dhcp_select(n)
    [] n.state = "REQUESTING" /\ n.tries > 5    -> dhcp_discover(dhcp_release(n))
    [] n.state = "CHECKING" /\ n.tries <= 1     -> dhcp_check(n)
    [] n.state = "CHECKING" /\ n.tries > 1      -> dhcp_bind(n)
    [] n.state = "RENEWING"                     -> dhcp_renew(n)
    [] n.state = "REBINDING" /\ n.tries <= 8    -> dhcp_rebind(n)
    [] n.state = "REBINDING" /\ n.tries > 8     -> dhcp_discover(dhcp_release(n))
    [] OTHER -> n

dhcp_fine_tmr(n) ==
  LET m == [n EXCEPT !.timeout = IF @ > 0 THEN @ - 1 ELSE 0]
  IN  IF n.timeout = 1 THEN dhcp_timeout(m) ELSE m

\* t1 or t2 may run out.
dhcp_coarse_tmr(n) ==
  {n} \cup (IF n.state \in {"REQUESTING", "BOUND", "RENEWING"}
            THEN {dhcp_renew(n), dhcp_rebind(n)} ELSE {})

\* What a message makes of the client: dhcp_recv, dhcp_arp_reply.  An OFFER clears
\* the timeout, also one that names no server and is not answered.
received(n) ==
  CASE n.state = "SELECTING" ->
         LET m == [n EXCEPT !.timeout = 0]
         IN  {dhcp_select(m), [m EXCEPT !.unnamed = TRUE]}
    [] n.state = "REQUESTING" -> {dhcp_check(n), dhcp_nak(n)}
    [] n.state \in {"RENEWING", "REBINDING"} -> {dhcp_bind(n), dhcp_nak(n)}
    [] n.state = "CHECKING" -> {dhcp_decline(n)}
    [] OTHER -> {}

-----------------------------------------------------------------------------
(* Bring-up.                                                               *)

Init ==
  /\ pc = "init"
  /\ asked = {} /\ pools = {} /\ used = 0 /\ retry = 0 /\ result = -1
  /\ lwipdev = [ip |-> "none", dhcpstatus |-> 0]
  /\ net = [ip |-> "none", up |-> FALSE, state |-> "OFF", tries |-> 0,
            timeout |-> 0, unnamed |-> FALSE]
  /\ clock = [now |-> 0, fine |-> 0, coarse |-> 0]
  /\ since = [fine |-> 0, coarse |-> 0, pass |-> 0]
  /\ env = [failures |-> 0, replies |-> 0]

\* One call of mymalloc: it fails, and makes the pointer NULL, when too little is
\* left.  What an earlier attempt has allocated is never freed.
mymalloc(p) ==
  /\ pc = "init" /\ p \notin asked
  /\ asked' = asked \cup {p}
  /\ IF used + PoolSize[p] <= Memory
     THEN pools' = pools \cup {p} /\ used' = used + PoolSize[p]
     ELSE pools' = pools \ {p} /\ UNCHANGED used
  /\ UNCHANGED <<pc, retry, result, lwipdev, net, clock, since, env>>

\* The calls are over, and no failure has been seen.
Allocated ==
  /\ pc = "init" /\ asked = Pools
  /\ pc' = "lan" /\ asked' = {} /\ retry' = 0
  /\ lwipdev' = [ip |-> "static", dhcpstatus |-> 0]
  /\ UNCHANGED <<pools, used, result, net, clock, since, env>>

Allocate == Allocated \/ \E p \in Pools : mymalloc(p)

\* Fault: one attempt too many.
LanFails_OffByOne ==
  /\ pc = "lan" /\ env.failures < MaxFailures
  /\ env' = [env EXCEPT !.failures = @ + 1]
  /\ retry' = IF retry > 5 THEN 0 ELSE retry + 1
  /\ IF retry > 5 THEN pc' = "init" /\ result' = 3 ELSE UNCHANGED <<pc, result>>
  /\ UNCHANGED <<asked, pools, used, lwipdev, net, clock, since>>

\* LAN8720_Init fails; after the sixth time so does lwip_comm_init.
LanFails ==
  /\ pc = "lan" /\ env.failures < MaxFailures
  /\ env' = [env EXCEPT !.failures = @ + 1]
  /\ retry' = IF retry = 5 THEN 0 ELSE retry + 1
  /\ IF retry = 5 THEN pc' = "init" /\ result' = 3 ELSE UNCHANGED <<pc, result>>
  /\ UNCHANGED <<asked, pools, used, lwipdev, net, clock, since>>

\* LAN8720_Init succeeds, and the rest of lwip_comm_init cannot fail.  What it
\* does without one of the buffers is undefined.
LanWorks ==
  /\ pc = "lan"
  /\ result' = 0 /\ retry' = 0
  /\ pc' = IF pools = Pools THEN "timeouts" ELSE "undefined"
  /\ \E n \in dhcp_start(net) : net' = [n EXCEPT !.up = TRUE]
  /\ lwipdev' = [lwipdev EXCEPT !.dhcpstatus = 0]
  /\ since' = [since EXCEPT !.pass = 0]
  /\ env' = [env EXCEPT !.failures = MaxFailures]
  /\ UNCHANGED <<asked, pools, used, clock>>

-----------------------------------------------------------------------------
(* lwip_periodic_handle.                                                   *)

decided == lwipdev.dhcpstatus \in {2, FAILED}

\* sys_check_timeouts, which has timers of its own for the DHCP client.
Timeouts ==
  /\ pc = "timeouts"
  /\ pc' = "fine"
  /\ \E n \in {net, dhcp_fine_tmr(net)} : net' \in dhcp_coarse_tmr(n)
  /\ UNCHANGED <<boot, lwipdev, clock, since, env>>

\* Faults: the sum overflows; the counter overflows.
Due_SumWraps(timer, period) == clock.now >= (clock[timer] + period) % W
Due_Signed(timer, period)   == clock.now - clock[timer] >= period

\* lwip_localtime - DHCPfineTimer >= DHCP_FINE_TIMER_MSECS, in 32 bits.
Due(timer, period) == (clock.now - clock[timer]) % W >= period

Fine ==
  /\ pc = "fine"
  /\ IF Due("fine", FINE)
     THEN /\ clock' = [clock EXCEPT !.fine = clock.now]
          /\ since' = [since EXCEPT !.fine = 0]
          /\ net' = dhcp_fine_tmr(net)
          /\ pc' = IF decided THEN "uarts" ELSE "process"
     ELSE /\ pc' = "coarse"
          /\ UNCHANGED <<clock, since, net>>
  /\ UNCHANGED <<boot, lwipdev, env>>

\* Fault: a number of tries that the client does not reach.
GiveUp_TooMany == net.tries > 2 * TriesCap

\* The client has asked often enough.
GiveUp == net.tries > LWIP_MAX_DHCP_TRIES

lwip_dhcp_process_handle ==
  /\ pc = "process"
  /\ pc' = "uarts"
  /\ \/ /\ lwipdev.dhcpstatus = 0
        /\ net' \in dhcp_start(net)
        /\ lwipdev' = [lwipdev EXCEPT !.dhcpstatus = 1]
     \/ /\ lwipdev.dhcpstatus = 1 /\ net.ip # "none"
        /\ lwipdev' = [ip |-> net.ip, dhcpstatus |-> 2]
        /\ UNCHANGED net
     \/ /\ lwipdev.dhcpstatus = 1 /\ net.ip = "none" /\ GiveUp
        /\ lwipdev' = [lwipdev EXCEPT !.dhcpstatus = FAILED]
        /\ net' = [net EXCEPT !.ip = lwipdev.ip]
     \/ /\ lwipdev.dhcpstatus = 1 /\ net.ip = "none" /\ ~GiveUp
        /\ UNCHANGED <<lwipdev, net>>
  /\ UNCHANGED <<boot, clock, since, env>>

\* receive_str_manage for each of the six ports.
Uarts ==
  /\ pc = "uarts"
  /\ pc' = "coarse"
  /\ UNCHANGED <<boot, lwipdev, net, clock, since, env>>

Coarse ==
  /\ pc = "coarse"
  /\ pc' = "timeouts"
  /\ IF Due("coarse", COARSE)
     THEN /\ clock' = [clock EXCEPT !.coarse = clock.now]
          /\ since' = [since EXCEPT !.coarse = 0, !.pass = 0]
          /\ net' \in dhcp_coarse_tmr(net)
     ELSE /\ since' = [since EXCEPT !.pass = 0]
          /\ UNCHANGED <<clock, net>>
  /\ UNCHANGED <<boot, lwipdev, env>>

Main ==
  \/ Allocate \/ LanFails \/ LanWorks
  \/ Timeouts \/ Fine \/ lwip_dhcp_process_handle \/ Uarts \/ Coarse

-----------------------------------------------------------------------------
\* The interrupt of TIM6, once in a millisecond.
Tick ==
  /\ pc # "undefined" /\ since.pass < MaxPass
  /\ clock' = [clock EXCEPT !.now = (@ + 1) % W]
  /\ since' = [fine |-> since.fine + 1, coarse |-> since.coarse + 1,
               pass |-> since.pass + 1]
  /\ UNCHANGED <<pc, boot, lwipdev, net, env>>

\* ETH_IRQHandler hands a message to the DHCP client.
ETH_IRQHandler ==
  /\ pc \notin {"init", "lan", "undefined"}
  /\ env.replies < MaxReplies
  /\ env' = [env EXCEPT !.replies = @ + 1]
  /\ net' \in received(net)
  /\ UNCHANGED <<pc, boot, lwipdev, clock, since>>

\* After a bring-up without its buffers nothing more is claimed.
Undefined == pc = "undefined" /\ UNCHANGED vars

Next == Main \/ Tick \/ ETH_IRQHandler \/ Undefined

Spec == Init /\ [][Next]_vars

\* Main runs on, and so does the timer.
FairSpec == Spec /\ WF_vars(Main) /\ WF_vars(Tick)

-----------------------------------------------------------------------------
(***************************************************************************)
(* Properties.                                                             *)
(***************************************************************************)

\* Every variable has its type.
TypeOK ==
  /\ pc \in {"init", "lan", "timeouts", "fine", "process", "uarts", "coarse",
             "undefined"}
  /\ asked \subseteq Pools /\ pools \subseteq Pools /\ used \in 0 .. Memory
  /\ retry \in 0 .. 5 /\ result \in {-1, 0, 3}
  /\ lwipdev \in [ip : {"none", "static", "lease"},
                  dhcpstatus : {0, 1, 2, FAILED}]
  /\ net \in [ip : {"none", "static", "lease"}, up : BOOLEAN, state : States,
              tries : 0 .. TriesCap, timeout : 0 .. Backoff, unnamed : BOOLEAN]
  /\ clock \in [now : 0 .. W - 1, fine : 0 .. W - 1, coarse : 0 .. W - 1]
  /\ since \in [fine : Nat, coarse : Nat, pass : 0 .. MaxPass]
  /\ env \in [failures : 0 .. MaxFailures, replies : 0 .. MaxReplies]

\* The timers survive the wrap of lwip_localtime: neither is ever overdue by more
\* than the main loop takes for a pass, whatever the counter stands at
\* (lwip_comm.c:175, 193).
NeverLate ==
  /\ since.fine < FINE + 2 * MaxPass
  /\ since.coarse < COARSE + 2 * MaxPass

\* Nor is one ever served early: the client's timers and the six serial ports
\* are served at most once in a period (lwip_comm.c:174, 192).
NeverEarly ==
  [][ /\ clock'.fine # clock.fine => since.fine >= FINE
      /\ clock'.coarse # clock.coarse => since.coarse >= COARSE ]_vars

\* Why: the 32-bit difference is the real time that has passed, as every pass
\* looks at both timers and the boot is no longer than a pass.
TimerType ==
  /\ clock \in [now : 0 .. W - 1, fine : 0 .. W - 1, coarse : 0 .. W - 1]
  /\ since \in [fine : Nat, coarse : Nat, pass : 0 .. MaxPass]

TimersAgree ==
  /\ (clock.now - clock.fine) % W = since.fine
  /\ (clock.now - clock.coarse) % W = since.coarse

TimersBounded ==
  /\ pc \in {"init", "lan"} =>
       since.fine = since.pass /\ since.coarse = since.pass
  /\ pc \in {"process", "uarts", "coarse"} => since.fine <= FINE - 1 + since.pass
  /\ since.fine <= FINE - 1 + MaxPass + since.pass
  /\ since.coarse <= COARSE - 1 + MaxPass + since.pass

TimerInv == TimerType /\ TimersAgree /\ TimersBounded

\* The device can be reached under a leased address: the interface is up as long
\* as it has one, whichever of the client's timers and messages come between the
\* steps of main (dhcp.c:197-214, 1005-1013).
LeasedIsUp == net.ip = "lease" => net.up

Waiting == {"SELECTING", "REQUESTING", "CHECKING", "BACKING_OFF", "RENEWING",
            "REBINDING"}

\* While the client waits for an answer, or has been turned down, a timeout that
\* will wake it is set, so that it does not depend on a message that is lost
\* (dhcp.c:369-392, 1253-1260).  The one exception is an OFFER that names no
\* server: its receipt stops the timeout and sends nothing (dhcp.c:1624, 268-271).
WaitsAreTimed ==
  net.state \in Waiting =>
    net.timeout > 0 \/ (net.state = "SELECTING" /\ net.unnamed)

\* The client rests with nothing to wake it: after such an OFFER, or after a start
\* that found no memory (dhcp.c:692-696).
Asleep == net.unnamed \/ (net.state = "OFF" /\ pc \notin {"init", "lan"})

\* Once other hosts are silent and the Ethernet controller works, main gets out
\* of its first loop (main.c:42): DHCP succeeds or is given up, unless bring-up
\* went on without its buffers or the client has fallen asleep for good.
WaitEnds == <>decided \/ <>(pc = "undefined") \/ <>[]Asleep

-----------------------------------------------------------------------------
(***************************************************************************)
(* Statements of the comments that the code does not keep.                 *)
(***************************************************************************)

\* lwip_comm.c:51-52, 111-112: 0 is returned on success, another value when
\* memory could not be allocated.
FailureIsReported == result = 0 => pools = Pools

\* dhcp.c:365-366: the timer checks whether an outstanding request is timed out.
EveryWaitIsTimed == net.state \in Waiting => net.timeout > 0

\* main.c:42: the loop waits until DHCP has succeeded or timed out.
EveryWaitEnds == <>decided \/ <>(pc = "undefined")

\* lwip_comm.c:247: after DHCP has failed the static address is used.
StaticIsUsed == lwipdev.dhcpstatus = FAILED /\ net.ip = "static" => net.up
=============================================================================
