--------------------------- MODULE LwipCommProofs ---------------------------
(***************************************************************************)
(* The two timers of lwip_periodic_handle keep time for every width of the *)
(* counter, every period and every length of a pass.                       *)
(***************************************************************************)
EXTENDS LwipComm, TLAPS

\* What the remainder is near zero.
LEMMA ModSmall == ASSUME NEW n \in Nat \ {0}, NEW x \in 0 .. n - 1 PROVE x % n = x
  BY SMT
\* A value past n but within twice n loses n once.
LEMMA ModLarge ==
  ASSUME NEW n \in Nat \ {0}, NEW x \in n .. 2 * n - 1 PROVE x % n = x - n
  BY SMT
\* A negative value within n of 0 gains n once.
LEMMA ModNegative ==
  ASSUME NEW n \in Nat \ {0}, NEW x \in Int, -n <= x, x < 0 PROVE x % n = x + n
  BY SMT

\* The difference of two readings of a counter that wraps.
LEMMA Elapsed ==
  ASSUME NEW n \in Nat \ {0}, NEW a \in 0 .. n - 1, NEW b \in 0 .. n - 1
  PROVE  (a - b) % n = IF a >= b THEN a - b ELSE (a - b) + n
<1>1. CASE a >= b
  BY <1>1, ModSmall, a - b \in 0 .. n - 1
<1>2. CASE a < b
  BY <1>2, ModNegative, a - b \in Int, -n <= a - b, a - b < 0
<1> QED BY <1>1, <1>2

\* A counter of n values goes up by one or wraps to 0.
LEMMA NextReading ==
  ASSUME NEW n \in Nat \ {0}, NEW a \in 0 .. n - 1
  PROVE  /\ (a + 1) % n = IF a + 1 = n THEN 0 ELSE a + 1
         /\ (a + 1) % n \in 0 .. n - 1
<1>1. CASE a + 1 = n
  BY <1>1, ModLarge, a + 1 \in n .. 2 * n - 1
<1>2. CASE a + 1 # n
  BY <1>2, ModSmall, a + 1 \in 0 .. n - 1
<1> QED BY <1>1, <1>2

\* The counter goes on by one, over its end: so does every difference to an
\* earlier reading that is not yet as long as the period of the counter.
LEMMA ElapsedNext ==
  ASSUME NEW n \in Nat \ {0}, NEW a \in 0 .. n - 1, NEW b \in 0 .. n - 1,
         ((a - b) % n) + 1 < n
  PROVE  (((a + 1) % n) - b) % n = ((a - b) % n) + 1
<1> DEFINE c == (a + 1) % n
<1>1. c = (IF a + 1 = n THEN 0 ELSE a + 1) /\ c \in 0 .. n - 1
  BY NextReading
<1>2. (a - b) % n = IF a >= b THEN a - b ELSE (a - b) + n
  BY Elapsed
<1> HIDE DEF c
<1>3. (c - b) % n = IF c >= b THEN c - b ELSE (c - b) + n
  BY <1>1, Elapsed
<1>4. (c - b) % n = ((a - b) % n) + 1
  <2> DEFINE d == (a - b) % n
             e == (c - b) % n
  <2>1. /\ d = IF a >= b THEN a - b ELSE (a - b) + n
        /\ e = IF c >= b THEN c - b ELSE (c - b) + n
        /\ d + 1 < n
    BY <1>2, <1>3
  <2> HIDE DEF d, e
  <2>2. e = d + 1
    BY <1>1, <2>1
  <2> QED BY <2>2 DEF d, e
<1> QED BY <1>4 DEF c

\* What the assumptions of the module say of the periods and the wrap.
LEMMA WType == W \in Nat \ {0} /\ FINE \in Nat \ {0} /\ COARSE \in Nat \ {0} /\ MaxPass \in Nat
  BY TimeAssumption

\* The timers start as the invariant says.
LEMMA InitTimer == Init => TimerInv
<1> SUFFICES ASSUME Init PROVE TimerInv OBVIOUS
<1>1. 0 % W = 0
  BY WType, ModSmall, 0 \in 0 .. W - 1
<1> QED BY <1>1, WType DEF Init, TimerInv, TimerType, TimersAgree, TimersBounded

\* One millisecond.
LEMMA TickTimer == TimerInv /\ Tick => TimerInv'
<1> SUFFICES ASSUME TimerInv, Tick PROVE TimerInv' OBVIOUS
<1> USE WType
<1>1. /\ ((clock.now - clock.fine) % W) + 1 < W
      /\ ((clock.now - clock.coarse) % W) + 1 < W
  BY TimeAssumption DEF TimerInv, TimerType, TimersAgree, TimersBounded, Tick
<1>2. /\ clock'.now = (clock.now + 1) % W
      /\ clock'.fine = clock.fine /\ clock'.coarse = clock.coarse
      /\ since' = [fine |-> since.fine + 1, coarse |-> since.coarse + 1,
                   pass |-> since.pass + 1]
      /\ pc' = pc /\ since.pass < MaxPass
  BY DEF Tick, TimerInv, TimerType
<1>3. (clock.now + 1) % W \in 0 .. W - 1
  BY NextReading DEF TimerInv, TimerType
<1>4. (clock'.now - clock'.fine) % W = since'.fine
  BY <1>1, <1>2, ElapsedNext DEF TimerInv, TimerType, TimersAgree
<1>5. (clock'.now - clock'.coarse) % W = since'.coarse
  BY <1>1, <1>2, ElapsedNext DEF TimerInv, TimerType, TimersAgree
<1>6. clock' \in [now : 0 .. W - 1, fine : 0 .. W - 1, coarse : 0 .. W - 1]
  BY <1>2, <1>3 DEF TimerInv, TimerType, Tick
<1>7. since' \in [fine : Nat, coarse : Nat, pass : 0 .. MaxPass]
  BY <1>2 DEF TimerInv, TimerType
<1>8. TimersBounded'
  BY <1>2, <1>7 DEF TimerInv, TimerType, TimersBounded
<1> QED BY <1>4, <1>5, <1>6, <1>7, <1>8 DEF TimerInv, TimerType, TimersAgree

\* The test of the code is about the real time.
LEMMA DueMeans ==
  TimerInv => /\ Due("fine", FINE) <=> since.fine >= FINE
              /\ Due("coarse", COARSE) <=> since.coarse >= COARSE
  BY DEF Due, TimerInv, TimersAgree

\* The pass looks at the timer of 500 ms.
LEMMA FineTimer == TimerInv /\ Fine => TimerInv'
<1> SUFFICES ASSUME TimerInv, Fine PROVE TimerInv' OBVIOUS
<1> USE WType
<1>1. CASE Due("fine", FINE)
  <2>1. (clock.now - clock.now) % W = 0
    BY Elapsed DEF TimerInv, TimerType
  <2>2. /\ clock' = [clock EXCEPT !.fine = clock.now]
        /\ since' = [since EXCEPT !.fine = 0]
        /\ pc' \in {"uarts", "process"}
    BY <1>1 DEF Fine
  <2>3. /\ clock'.now = clock.now /\ clock'.fine = clock.now
        /\ clock'.coarse = clock.coarse
    BY <2>2 DEF TimerInv, TimerType
  <2>4. clock' \in [now : 0 .. W - 1, fine : 0 .. W - 1, coarse : 0 .. W - 1]
    <3>1. clock.now \in 0 .. W - 1
      BY DEF TimerInv, TimerType
    <3> QED BY <3>1, <2>2 DEF TimerInv, TimerType
  <2>5. since' \in [fine : Nat, coarse : Nat, pass : 0 .. MaxPass]
    BY <2>2 DEF TimerInv, TimerType
  <2>6. since'.fine = 0 /\ since'.coarse = since.coarse /\ since'.pass = since.pass
    BY <2>2 DEF TimerInv, TimerType
  <2>7. TimersAgree'
    BY <2>1, <2>3, <2>6 DEF TimerInv, TimersAgree
  <2>8. TimersBounded'
    BY <2>2, <2>5, <2>6 DEF TimerInv, TimersBounded, TimerType
  <2> QED BY <2>4, <2>5, <2>7, <2>8 DEF TimerInv, TimerType
<1>2. CASE ~Due("fine", FINE)
  <2>1. since.fine < FINE
    BY <1>2, DueMeans, WType DEF TimerInv, TimerType
  <2>2. clock' = clock /\ since' = since /\ pc' = "coarse"
    BY <1>2 DEF Fine
  <2>3. TimersBounded'
    BY <2>1, <2>2 DEF TimerInv, TimerType, TimersBounded
  <2> QED BY <2>2, <2>3 DEF TimerInv, TimerType, TimersAgree
<1> QED BY <1>1, <1>2

\* The pass ends with the timer of 60 s.
LEMMA CoarseTimer == TimerInv /\ Coarse => TimerInv'
<1> SUFFICES ASSUME TimerInv, Coarse PROVE TimerInv' OBVIOUS
<1> USE WType
<1>1. CASE Due("coarse", COARSE)
  <2>1. (clock.now - clock.now) % W = 0
    BY Elapsed DEF TimerInv, TimerType
  <2>2. /\ clock' = [clock EXCEPT !.coarse = clock.now]
        /\ since' = [since EXCEPT !.coarse = 0, !.pass = 0]
        /\ pc = "coarse" /\ pc' = "timeouts"
    BY <1>1 DEF Coarse
  <2>3. /\ clock'.now = clock.now /\ clock'.coarse = clock.now
        /\ clock'.fine = clock.fine
    BY <2>2 DEF TimerInv, TimerType
  <2>4. clock' \in [now : 0 .. W - 1, fine : 0 .. W - 1, coarse : 0 .. W - 1]
    <3>1. clock.now \in 0 .. W - 1
      BY DEF TimerInv, TimerType
    <3> QED BY <3>1, <2>2 DEF TimerInv, TimerType
  <2>5. since' \in [fine : Nat, coarse : Nat, pass : 0 .. MaxPass]
    <3>1. since' = [fine |-> since.fine, coarse |-> 0, pass |-> 0]
      BY <2>2 DEF TimerInv, TimerType
    <3>2. since.fine \in Nat /\ 0 \in 0 .. MaxPass
      BY DEF TimerInv, TimerType
    <3> QED BY <3>1, <3>2
  <2>6. since'.fine = since.fine /\ since'.coarse = 0 /\ since'.pass = 0
    BY <2>2 DEF TimerInv, TimerType
  <2>7. TimersAgree'
    BY <2>1, <2>3, <2>6 DEF TimerInv, TimersAgree
  <2>8. TimersBounded'
    BY <2>2, <2>5, <2>6 DEF TimerInv, TimersBounded, TimerType
  <2> QED BY <2>4, <2>5, <2>7, <2>8 DEF TimerInv, TimerType
<1>2. CASE ~Due("coarse", COARSE)
  <2>1. since.coarse < COARSE
    BY <1>2, DueMeans, WType DEF TimerInv, TimerType
  <2>2. /\ clock' = clock /\ since' = [since EXCEPT !.pass = 0]
        /\ pc = "coarse" /\ pc' = "timeouts"
    BY <1>2 DEF Coarse
  <2>3. /\ since'.fine = since.fine /\ since'.coarse = since.coarse
        /\ since'.pass = 0
    BY <2>2 DEF TimerInv, TimerType
  <2>4. since' \in [fine : Nat, coarse : Nat, pass : 0 .. MaxPass]
    BY <2>2 DEF TimerInv, TimerType
  <2>5. TimersBounded'
    BY <2>1, <2>2, <2>3, <2>4 DEF TimerInv, TimerType, TimersBounded
  <2> QED BY <2>2, <2>3, <2>4, <2>5 DEF TimerInv, TimerType, TimersAgree
<1> QED BY <1>1, <1>2

\* Every step of the main loop, the tick and the client keeps the timers.
LEMMA NextTimer == TimerInv /\ [Next]_vars => TimerInv'
<1> SUFFICES ASSUME TimerInv, [Next]_vars PROVE TimerInv' OBVIOUS
<1> USE WType
<1>1. CASE Tick BY <1>1, TickTimer
<1>2. CASE Fine BY <1>2, FineTimer
<1>3. CASE Coarse BY <1>3, CoarseTimer
<1>4. CASE Allocate
  BY <1>4 DEF Allocate, Allocated, mymalloc, TimerInv, TimerType, TimersAgree, TimersBounded
<1>5. CASE LanFails BY <1>5 DEF LanFails, TimerInv, TimerType, TimersAgree, TimersBounded
<1>6. CASE LanWorks
  <2>1. /\ clock' = clock /\ since' = [since EXCEPT !.pass = 0]
        /\ pc = "lan" /\ pc' \in {"timeouts", "undefined"}
    BY <1>6 DEF LanWorks
  <2>2. since'.fine = since.fine /\ since'.coarse = since.coarse /\ since'.pass = 0
    BY <2>1 DEF TimerInv, TimerType
  <2>3. since' \in [fine : Nat, coarse : Nat, pass : 0 .. MaxPass]
    BY <2>1 DEF TimerInv, TimerType
  <2>4. TimersBounded'
    BY <2>1, <2>2, <2>3 DEF TimerInv, TimerType, TimersBounded
  <2> QED BY <2>1, <2>2, <2>3, <2>4 DEF TimerInv, TimerType, TimersAgree
<1>7. CASE Timeouts BY <1>7 DEF Timeouts, TimerInv, TimerType, TimersAgree, TimersBounded
<1>8. CASE lwip_dhcp_process_handle
  BY <1>8 DEF lwip_dhcp_process_handle, TimerInv, TimerType, TimersAgree, TimersBounded
<1>9. CASE Uarts BY <1>9 DEF Uarts, TimerInv, TimerType, TimersAgree, TimersBounded
<1>10. CASE ETH_IRQHandler BY <1>10 DEF ETH_IRQHandler, TimerInv, TimerType, TimersAgree, TimersBounded
<1>11. CASE UNCHANGED vars BY <1>11 DEF vars, TimerInv, TimerType, TimersAgree, TimersBounded
<1> QED BY <1>1, <1>2, <1>3, <1>4, <1>5, <1>6, <1>7, <1>8, <1>9, <1>10, <1>11
       DEF Next, Main, Undefined

\* The difference of counter and timer is the time that has really passed,
\* through every wrap of lwip_localtime (lwip_comm.c:175, 193, timer.c:146).
THEOREM TimersTrue == Spec => []TimerInv
  BY InitTimer, NextTimer, PTL DEF Spec

\* So neither timer is ever overdue by more than two passes of the main loop.
THEOREM NeverLateHolds == Spec => []NeverLate
<1>1. TimerInv => NeverLate
  BY WType DEF TimerInv, TimerType, TimersBounded, NeverLate
<1> QED BY <1>1, TimersTrue, PTL

\* And neither is served before its period is over.
THEOREM NeverEarlyHolds == Spec => NeverEarly
<1> DEFINE Early == /\ clock'.fine # clock.fine => since.fine >= FINE
                    /\ clock'.coarse # clock.coarse => since.coarse >= COARSE
<1>1. ASSUME TimerInv, Next PROVE Early
  <2> USE WType
  <2>1. CASE Fine
    <3>1. CASE Due("fine", FINE)
      <4>1. clock' = [clock EXCEPT !.fine = clock.now]
        BY <2>1, <3>1 DEF Fine
      <4>2. clock'.coarse = clock.coarse
        BY <1>1, <4>1 DEF TimerInv, TimerType
      <4> QED BY <1>1, <3>1, <4>2, DueMeans
    <3>2. CASE ~Due("fine", FINE)
      BY <2>1, <3>2 DEF Fine
    <3> QED BY <3>1, <3>2
  <2>2. CASE Coarse
    <3>1. CASE Due("coarse", COARSE)
      <4>1. clock' = [clock EXCEPT !.coarse = clock.now]
        BY <2>2, <3>1 DEF Coarse
      <4>2. clock'.fine = clock.fine
        BY <1>1, <4>1 DEF TimerInv, TimerType
      <4> QED BY <1>1, <3>1, <4>2, DueMeans
    <3>2. CASE ~Due("coarse", COARSE)
      BY <2>2, <3>2 DEF Coarse
    <3> QED BY <3>1, <3>2
  <2>3. CASE Tick BY <1>1, <2>3 DEF Tick, TimerInv, TimerType
  <2>4. CASE UNCHANGED clock BY <2>4
  <2> QED BY <1>1, <2>1, <2>2, <2>3, <2>4
          DEF Next, Main, Allocate, Allocated, mymalloc, LanFails, LanWorks, Timeouts, Uarts,
              lwip_dhcp_process_handle, ETH_IRQHandler, Undefined, vars
<1>2. TimerInv /\ [Next]_vars => [Early]_vars
  BY <1>1
<1> HIDE DEF Early
<1>3. Spec => [][Early]_vars
  BY <1>2, TimersTrue, PTL DEF Spec
<1> QED BY <1>3 DEF NeverEarly, Early

-----------------------------------------------------------------------------
(* The interface and the DHCP client: every function of the client keeps   *)
(* the address, the interface and the timeout together.                    *)

NetType == [ip : {"none", "static", "lease"}, up : BOOLEAN, state : States,
            tries : 0 .. TriesCap, timeout : 0 .. Backoff, unnamed : BOOLEAN]

Reachable(n) == n.ip = "lease" => n.up
Timed(n)     ==
  n.state \in Waiting => n.timeout > 0 \/ (n.state = "SELECTING" /\ n.unnamed)

\* What holds of the interface between any two functions of the client.
NetOK(n) == n \in NetType /\ Reachable(n) /\ Timed(n)

\* The address that is assigned when the client gives up is not a lease.
DevOK ==
  /\ lwipdev \in [ip : {"none", "static", "lease"}, dhcpstatus : {0, 1, 2, FAILED}]
  /\ lwipdev.ip = "lease" => lwipdev.dhcpstatus = 2
  /\ pc = "lan" => lwipdev.ip # "lease"

ClientInv == NetOK(net) /\ DevOK

\* A request waits at least one fine tick before it is repeated.
LEMMA BType == Backoff \in Nat \ {0}
  BY BoundAssumption

\* dhcp_set_state touches neither the address nor the interface.
LEMMA SetState ==
  ASSUME NEW n \in NetType, NEW s \in States
  PROVE  /\ set_state(n, s) \in NetType
         /\ set_state(n, s).ip = n.ip /\ set_state(n, s).up = n.up
         /\ set_state(n, s).state = s
<1> DEFINE m == [n EXCEPT !.state = s, !.tries = 0, !.timeout = 0]
<1>1. 0 \in 0 .. TriesCap /\ 0 \in 0 .. Backoff
  BY BType DEF TriesCap
<1>2. m \in NetType
  BY <1>1 DEF NetType
<1>4. m.ip = n.ip /\ m.up = n.up /\ m.state = s
  BY DEF NetType
<1>3. set_state(n, s) = IF n.state = s THEN n ELSE m
  BY DEF set_state
<1> HIDE DEF m
<1> QED BY <1>2, <1>3, <1>4

\* A request waits for its answer, whatever the state before.
LEMMA Request ==
  ASSUME NEW n \in NetType, NEW s \in States, NEW wait \in 1 .. Backoff, Reachable(n)
  PROVE  NetOK(request(n, s, wait))
<1> DEFINE m == set_state(n, s)
<1>1. m \in NetType /\ m.ip = n.ip /\ m.up = n.up /\ m.state = s
  BY SetState
<1> HIDE DEF m
<1> DEFINE more == IF m.tries < TriesCap THEN m.tries + 1 ELSE m.tries
<1>5. more \in 0 .. TriesCap /\ wait \in 0 .. Backoff
  BY <1>1, BType DEF NetType, TriesCap
<1>3. request(n, s, wait) =
        [m EXCEPT !.tries = more, !.timeout = wait, !.unnamed = FALSE]
  BY DEF request, m
<1> HIDE DEF more
<1>2. [m EXCEPT !.tries = more, !.timeout = wait, !.unnamed = FALSE] \in NetType
  BY <1>1, <1>5 DEF NetType
<1>4. /\ request(n, s, wait).ip = n.ip /\ request(n, s, wait).up = n.up
      /\ request(n, s, wait).timeout = wait
  BY <1>1, <1>3 DEF NetType
<1> QED BY <1>2, <1>3, <1>4 DEF NetOK, Reachable, Timed

\* What each request leaves is sound, whichever state it was sent from.
LEMMA Requests ==
  ASSUME NEW n \in NetType, Reachable(n)
  PROVE  /\ NetOK(dhcp_discover(n)) /\ NetOK(dhcp_select(n)) /\ NetOK(dhcp_check(n))
         /\ NetOK(dhcp_decline(n)) /\ NetOK(dhcp_renew(n)) /\ NetOK(dhcp_rebind(n))
<1>1. Backoff \in 1 .. Backoff /\ 1 \in 1 .. Backoff
  BY BType
<1>2. {"SELECTING", "REQUESTING", "CHECKING", "BACKING_OFF", "RENEWING", "REBINDING"}
        \subseteq States
  BY DEF States
<1> QED BY <1>1, <1>2, Request
        DEF dhcp_discover, dhcp_select, dhcp_check, dhcp_decline, dhcp_renew, dhcp_rebind

\* Taking the address away leaves a client in the same state of DHCP.
LEMMA Without ==
  ASSUME NEW n \in NetType
  PROVE  without(n) \in NetType /\ Reachable(without(n))
  BY DEF without, NetType, Reachable

\* A client that gives its lease back and starts again is sound.
LEMMA Release ==
  ASSUME NEW n \in NetType, Reachable(n)
  PROVE  NetOK(dhcp_discover(dhcp_release(n)))
<1>1. Backoff \in 1 .. Backoff /\ "OFF" \in States
  BY BType DEF States
<1>2. request(n, "OFF", Backoff) \in NetType
  BY <1>1, Request DEF NetOK
<1> QED BY <1>2, Without, Requests DEF dhcp_release

\* A NAK takes the address and the interface down together.
LEMMA Nak ==
  ASSUME NEW n \in NetType PROVE NetOK(dhcp_nak(n))
<1> DEFINE m == without(n)
<1>1. m \in NetType /\ Reachable(m) BY Without
<1>2. "BACKING_OFF" \in States BY DEF States
<1> HIDE DEF m
<1>3. set_state(m, "BACKING_OFF") \in NetType /\ Reachable(set_state(m, "BACKING_OFF"))
  BY <1>1, <1>2, SetState DEF Reachable
<1>4. NetOK(dhcp_discover(set_state(m, "BACKING_OFF")))
  BY <1>3, Requests
<1> QED BY <1>4 DEF dhcp_nak, m

\* A lease brings the interface up.
LEMMA Bind ==
  ASSUME NEW n \in NetType PROVE NetOK(dhcp_bind(n))
<1> DEFINE m == [n EXCEPT !.ip = "lease", !.up = TRUE]
<1>1. m \in NetType /\ m.up = TRUE
  BY DEF NetType
<1> HIDE DEF m
<1>2. "BOUND" \in States
  BY DEF States
<1>3. /\ set_state(m, "BOUND") \in NetType /\ set_state(m, "BOUND").up = TRUE
      /\ set_state(m, "BOUND").state = "BOUND"
  BY <1>1, <1>2, SetState
<1> QED BY <1>3 DEF dhcp_bind, m, NetOK, Reachable, Timed, Waiting

\* dhcp_start leaves a sound client, also when one is running already, and also
\* when it finds no memory.
LEMMA Start ==
  ASSUME NEW n \in NetType, Reachable(n), NEW k \in dhcp_start(n) PROVE NetOK(k)
<1> DEFINE m == [n EXCEPT !.state = "OFF", !.tries = 0, !.timeout = 0, !.unnamed = FALSE]
<1>1. 0 \in 0 .. TriesCap /\ 0 \in 0 .. Backoff /\ "OFF" \in States
  BY BType DEF TriesCap, States
<1>2. m \in NetType
  BY <1>1 DEF NetType
<1>3. Reachable(m) /\ m.state = "OFF"
  BY DEF NetType, Reachable
<1>4. k = dhcp_discover(m) \/ k = m
  BY DEF dhcp_start
<1> HIDE DEF m
<1>5. NetOK(dhcp_discover(m))
  BY <1>2, <1>3, Requests
<1>6. NetOK(m)
  BY <1>2, <1>3 DEF NetOK, Timed, Waiting
<1> QED BY <1>4, <1>5, <1>6

\* When a timeout has run out the client asks again, in every state that waits.
LEMMA Timeout ==
  ASSUME NEW n \in NetType, Reachable(n) PROVE NetOK(dhcp_timeout(n))
<1>1. n.tries \in Int /\ n.state \in States
  BY DEF NetType
<1>2. CASE n.state \in {"SELECTING", "BACKING_OFF"}
  BY <1>2, Requests DEF dhcp_timeout
<1>3. CASE n.state = "REQUESTING"
  BY <1>1, <1>3, Requests, Release DEF dhcp_timeout
<1>4. CASE n.state = "CHECKING"
  BY <1>1, <1>4, Requests, Bind DEF dhcp_timeout
<1>5. CASE n.state = "RENEWING"
  BY <1>5, Requests DEF dhcp_timeout
<1>6. CASE n.state = "REBINDING"
  BY <1>1, <1>6, Requests, Release DEF dhcp_timeout
<1>7. CASE n.state \notin Waiting
  <2>1. dhcp_timeout(n) = n
    BY <1>7 DEF dhcp_timeout, Waiting
  <2> QED BY <1>7, <2>1 DEF NetOK, Timed
<1> QED BY <1>2, <1>3, <1>4, <1>5, <1>6, <1>7 DEF Waiting

\* The fine timer leaves a sound client.
LEMMA FineTmr ==
  ASSUME NEW n, NetOK(n) PROVE NetOK(dhcp_fine_tmr(n))
<1> DEFINE m == [n EXCEPT !.timeout = IF @ > 0 THEN @ - 1 ELSE 0]
<1>1. n \in NetType /\ Reachable(n) /\ Timed(n) BY DEF NetOK
<1>2. /\ m \in NetType /\ m.ip = n.ip /\ m.up = n.up /\ m.state = n.state
      /\ m.unnamed = n.unnamed
  BY <1>1, BType DEF NetType
<1>3. n.timeout > 1 => m.timeout > 0
  BY <1>1, BType DEF NetType
<1>4. n.timeout \in Nat BY <1>1, BType DEF NetType
<1>5. dhcp_fine_tmr(n) = IF n.timeout = 1 THEN dhcp_timeout(m) ELSE m
  BY DEF dhcp_fine_tmr
<1> HIDE DEF m
<1>6. Reachable(m) BY <1>1, <1>2 DEF Reachable
<1>7. CASE n.timeout = 1 BY <1>2, <1>5, <1>6, <1>7, Timeout
<1>8. CASE n.timeout # 1
  <2>1. Timed(m) BY <1>1, <1>2, <1>3, <1>4, <1>8 DEF Timed
  <2> QED BY <1>2, <1>5, <1>6, <1>8, <2>1 DEF NetOK
<1> QED BY <1>7, <1>8

\* The coarse timer leaves a sound client, in each outcome it may have.
LEMMA CoarseTmr ==
  ASSUME NEW n, NetOK(n), NEW m \in dhcp_coarse_tmr(n) PROVE NetOK(m)
  BY Requests DEF NetOK, dhcp_coarse_tmr

\* Whatever message comes, in whatever state.
LEMMA Received ==
  ASSUME NEW n, NetOK(n), NEW m \in received(n) PROVE NetOK(m)
<1>1. n \in NetType /\ Reachable(n) /\ Timed(n) BY DEF NetOK
<1>2. CASE n.state = "SELECTING"
  <2> DEFINE k == [n EXCEPT !.timeout = 0]
             u == [k EXCEPT !.unnamed = TRUE]
  <2>1. k \in NetType /\ Reachable(k) /\ k.state = "SELECTING"
    BY <1>1, <1>2, BType DEF NetType, Reachable
  <2>2. received(n) = {dhcp_select(k), u} BY <1>2 DEF received
  <2> HIDE DEF k
  <2>3. u \in NetType /\ Reachable(u) /\ u.state = "SELECTING" /\ u.unnamed
    BY <2>1 DEF NetType, Reachable
  <2>4. NetOK(u) BY <2>3 DEF NetOK, Timed
  <2> HIDE DEF u
  <2> QED BY <2>1, <2>2, <2>4, Requests
<1>3. CASE n.state = "REQUESTING"
  BY <1>1, <1>3, Requests, Nak DEF received
<1>4. CASE n.state \in {"RENEWING", "REBINDING"}
  BY <1>1, <1>4, Bind, Nak DEF received
<1>5. CASE n.state = "CHECKING"
  BY <1>1, <1>5, Requests DEF received
<1>6. CASE n.state \notin {"SELECTING", "REQUESTING", "RENEWING", "REBINDING", "CHECKING"}
  <2>1. received(n) = {} BY <1>6 DEF received
  <2> QED BY <2>1
<1> QED BY <1>2, <1>3, <1>4, <1>5, <1>6

\* The client starts as the invariant says.
LEMMA InitClient == Init => ClientInv
<1>1. 0 \in 0 .. TriesCap /\ 0 \in 0 .. Backoff /\ "OFF" \in States
  BY BType DEF TriesCap, States
<1> QED BY <1>1 DEF Init, ClientInv, NetOK, NetType, Reachable, Timed, Waiting, DevOK

\* The giving up and the taking over of an address.
LEMMA ProcessClient == ClientInv /\ lwip_dhcp_process_handle => ClientInv'
<1> SUFFICES ASSUME ClientInv, lwip_dhcp_process_handle PROVE ClientInv' OBVIOUS
<1>1. /\ net \in NetType /\ Reachable(net) /\ Timed(net)
      /\ lwipdev \in [ip : {"none", "static", "lease"}, dhcpstatus : {0, 1, 2, FAILED}]
      /\ lwipdev.ip = "lease" => lwipdev.dhcpstatus = 2
      /\ pc' = "uarts"
  BY DEF ClientInv, NetOK, DevOK, lwip_dhcp_process_handle
<1>2. CASE lwipdev.dhcpstatus = 0
  <2>1. net' \in dhcp_start(net) /\ lwipdev' = [lwipdev EXCEPT !.dhcpstatus = 1]
    BY <1>2 DEF lwip_dhcp_process_handle
  <2>2. lwipdev.ip # "lease" BY <1>1, <1>2
  <2>3. NetOK(net') BY <1>1, <2>1, Start
  <2>4. DevOK' BY <1>1, <2>1, <2>2 DEF DevOK
  <2> QED BY <2>3, <2>4 DEF ClientInv
<1>3. CASE lwipdev.dhcpstatus = 1 /\ net.ip # "none"
  <2>1. net' = net /\ lwipdev' = [ip |-> net.ip, dhcpstatus |-> 2]
    BY <1>3 DEF lwip_dhcp_process_handle
  <2>2. NetOK(net') BY <1>1, <2>1 DEF NetOK
  <2>3. net.ip \in {"none", "static", "lease"} BY <1>1 DEF NetType
  <2>4. DevOK' BY <1>1, <2>1, <2>3 DEF DevOK
  <2> QED BY <2>2, <2>4 DEF ClientInv
<1>4. CASE lwipdev.dhcpstatus = 1 /\ net.ip = "none" /\ GiveUp
  <2>1. /\ lwipdev' = [lwipdev EXCEPT !.dhcpstatus = FAILED]
        /\ net' = [net EXCEPT !.ip = lwipdev.ip]
    BY <1>4 DEF lwip_dhcp_process_handle
  <2>2. lwipdev.ip \in {"none", "static"} BY <1>1, <1>4
  <2>3. net' \in NetType BY <1>1, <2>1, <2>2 DEF NetType
  <2>4. /\ net'.ip # "lease" /\ net'.state = net.state /\ net'.timeout = net.timeout
        /\ net'.unnamed = net.unnamed
    BY <1>1, <2>1, <2>2 DEF NetType
  <2>5. NetOK(net') BY <1>1, <2>3, <2>4 DEF NetOK, Reachable, Timed
  <2>6. DevOK' BY <1>1, <2>1, <2>2 DEF DevOK
  <2> QED BY <2>5, <2>6 DEF ClientInv
<1>5. CASE UNCHANGED <<lwipdev, net>>
  <2>1. NetOK(net') BY <1>1, <1>5 DEF NetOK
  <2>2. DevOK' BY <1>1, <1>5 DEF DevOK
  <2> QED BY <2>1, <2>2 DEF ClientInv
<1> QED BY <1>2, <1>3, <1>4, <1>5 DEF lwip_dhcp_process_handle

\* Every step keeps the client sound.
LEMMA NextClient == ClientInv /\ [Next]_vars => ClientInv'
<1> SUFFICES ASSUME ClientInv, [Next]_vars PROVE ClientInv' OBVIOUS
<1>1. NetOK(net) /\ net \in NetType /\ Reachable(net) /\ DevOK
  BY DEF ClientInv, NetOK
<1>2. CASE Allocated
  <2>1. net' = net /\ lwipdev' = [ip |-> "static", dhcpstatus |-> 0]
    BY <1>2 DEF Allocated
  <2> QED BY <1>1, <2>1 DEF ClientInv, DevOK
<1>3. CASE LanWorks
  <2>0. PICK m \in dhcp_start(net) : net' = [m EXCEPT !.up = TRUE]
    BY <1>3 DEF LanWorks
  <2>1. NetOK(m) BY <1>1, Start
  <2>2. /\ net' = [m EXCEPT !.up = TRUE] /\ pc = "lan" /\ pc' # "lan"
        /\ lwipdev' = [lwipdev EXCEPT !.dhcpstatus = 0]
    BY <1>3, <2>0 DEF LanWorks
  <2>3. net' \in NetType /\ net'.up = TRUE
    BY <2>1, <2>2 DEF NetOK, NetType
  <2>4. /\ net'.state = m.state /\ net'.timeout = m.timeout
        /\ net'.unnamed = m.unnamed
    BY <2>1, <2>2 DEF NetOK, NetType
  <2>5. NetOK(net') BY <2>1, <2>3, <2>4 DEF NetOK, Reachable, Timed
  <2>6. DevOK' BY <1>1, <2>2 DEF DevOK
  <2> QED BY <2>5, <2>6 DEF ClientInv
<1>4. CASE Timeouts
  <2>1. PICK n \in {net, dhcp_fine_tmr(net)} : net' \in dhcp_coarse_tmr(n)
    BY <1>4 DEF Timeouts
  <2>2. NetOK(n) BY <1>1, FineTmr
  <2>3. NetOK(net') BY <2>1, <2>2, CoarseTmr
  <2>4. DevOK' BY <1>1, <1>4 DEF Timeouts, DevOK
  <2> QED BY <2>3, <2>4 DEF ClientInv
<1>5. CASE Fine
  <2>1. net' = net \/ net' = dhcp_fine_tmr(net) BY <1>5 DEF Fine
  <2>2. NetOK(net') BY <1>1, <2>1, FineTmr
  <2>3. DevOK' BY <1>1, <1>5 DEF Fine, DevOK
  <2> QED BY <2>2, <2>3 DEF ClientInv
<1>6. CASE Coarse
  <2>1. net' = net \/ net' \in dhcp_coarse_tmr(net) BY <1>6 DEF Coarse
  <2>2. NetOK(net') BY <1>1, <2>1, CoarseTmr
  <2>3. DevOK' BY <1>1, <1>6 DEF Coarse, DevOK
  <2> QED BY <2>2, <2>3 DEF ClientInv
<1>7. CASE ETH_IRQHandler
  <2>1. net' \in received(net) BY <1>7 DEF ETH_IRQHandler
  <2>2. NetOK(net') BY <1>1, <2>1, Received
  <2>3. DevOK' BY <1>1, <1>7 DEF ETH_IRQHandler, DevOK
  <2> QED BY <2>2, <2>3 DEF ClientInv
<1>8. CASE lwip_dhcp_process_handle
  BY <1>8, ProcessClient
<1>9. CASE UNCHANGED <<net, lwipdev>> /\ (pc' = pc \/ pc' # "lan")
  BY <1>1, <1>9 DEF ClientInv, DevOK
<1> QED BY <1>2, <1>3, <1>4, <1>5, <1>6, <1>7, <1>8, <1>9
        DEF Next, Main, Allocate, mymalloc, LanFails, Uarts, Tick, Undefined, vars

\* The client is sound in every reachable state.
LEMMA ClientHolds == Spec => []ClientInv
  BY InitClient, NextClient, PTL DEF Spec

\* The interface is up as long as it has a leased address: giving an address up
\* and taking the interface down are one step for every message and every timer
\* (dhcp.c:197-214, 1005-1013, 1205-1210), and the address that is assigned when
\* the client gives up is the static one (lwip_comm.c:247).
THEOREM LeasedIsUpHolds == Spec => []LeasedIsUp
<1>1. ClientInv => LeasedIsUp
  BY DEF ClientInv, NetOK, Reachable, LeasedIsUp
<1> QED BY <1>1, ClientHolds, PTL

\* The client waits with a timeout set: each state that expects an answer is
\* entered, and asked in again, with the timeout set after the state
\* (dhcp.c:369-461, 907-917, 1253-1260).  The receipt of an OFFER that names no
\* server (dhcp.c:1624, 268-271) is the only step of the client, of main and of
\* either timer after which it waits without one.
THEOREM WaitsAreTimedHolds == Spec => []WaitsAreTimed
<1>1. ClientInv => WaitsAreTimed
  BY DEF ClientInv, NetOK, Timed, Waiting, WaitsAreTimed
<1> QED BY <1>1, ClientHolds, PTL

\* What TypeOK says beyond the client and the timers.
BootOK ==
  /\ pc \in {"init", "lan", "timeouts", "fine", "process", "uarts", "coarse",
             "undefined"}
  /\ asked \subseteq Pools /\ pools \subseteq Pools /\ used \in 0 .. Memory
  /\ retry \in 0 .. 5 /\ result \in {-1, 0, 3}
  /\ env \in [failures : 0 .. MaxFailures, replies : 0 .. MaxReplies]

\* The bring-up starts as its invariant says.
LEMMA InitBoot == Init => BootOK
  BY BoundAssumption DEF Init, BootOK

\* Every step of the bring-up and of the main loop keeps it.
LEMMA NextBoot == BootOK /\ [Next]_vars => BootOK'
<1> SUFFICES ASSUME BootOK, [Next]_vars PROVE BootOK' OBVIOUS
<1> USE BoundAssumption
<1>1. ASSUME NEW p \in Pools, mymalloc(p) PROVE BootOK'
  <2>1. PoolSize[p] \in Nat BY BoundAssumption
  <2> QED BY <1>1, <2>1 DEF mymalloc, BootOK
<1>2. CASE Allocated BY <1>2 DEF Allocated, BootOK
<1>3. CASE LanFails BY <1>3 DEF LanFails, BootOK
<1>4. CASE LanWorks BY <1>4 DEF LanWorks, BootOK
<1>5. CASE Timeouts \/ Uarts \/ Tick
  BY <1>5 DEF Timeouts, Uarts, Tick, BootOK, boot
<1>6. CASE Fine \/ Coarse \/ lwip_dhcp_process_handle
  BY <1>6 DEF Fine, Coarse, lwip_dhcp_process_handle, BootOK, boot
<1>7. CASE ETH_IRQHandler BY <1>7 DEF ETH_IRQHandler, BootOK, boot
<1>8. CASE UNCHANGED vars BY <1>8 DEF vars, BootOK
<1> QED BY <1>1, <1>2, <1>3, <1>4, <1>5, <1>6, <1>7, <1>8 DEF Next, Main, Allocate, Undefined

\* Every variable of bring-up, of the main loop and of the client has its type:
\* no call of mymalloc takes more than there is, main starts LAN8720_Init at most
\* six times (lwip_comm.c:127-131), and the client never waits longer than asked.
THEOREM TypesHold == Spec => []TypeOK
<1>1. Spec => []BootOK BY InitBoot, NextBoot, PTL DEF Spec
<1>2. BootOK /\ TimerInv /\ ClientInv => TypeOK
  BY DEF BootOK, TimerInv, TimerType, ClientInv, NetOK, NetType, DevOK, TypeOK
<1> QED BY <1>1, <1>2, TimersTrue, ClientHolds, PTL
=============================================================================
