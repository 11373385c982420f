------------------------------ MODULE PtpPort ------------------------------
(***************************************************************************)
(* The port of the PTP daemon (PTPv2/src/protocol.c, driven by ptpd.c):    *)
(* its states, the events that change them, the timers that drive them and *)
(* the Announce, Sync and Follow_Up messages.  The peer delay exchange is  *)
(* not modelled; PtpNet models the queues step by step.                    *)
(*                                                                         *)
(* A PtpClock is one record `c', and each function of the code that        *)
(* changes it is an operator from records to records.  ptpd_Periodic_Handle*)
(* calls doState until the queues are empty; a callback may queue messages *)
(* between two calls.  What the network and the clock hand to doState is   *)
(* chosen by the action: which running timers are over (S), how far off    *)
(* the servo finds the clock (offset), whether netInit works (up).         *)
(*                                                                         *)
(* Left out: sending (netSend reports success whatever happens, so it never*)
(* changes the state), messageActivity, and DISABLED, which nothing enters.*)
(***************************************************************************)
EXTENDS PtpBmc, FiniteSets, Sequences

CONSTANTS
  MaxMessages,  \* bound: messages that come
  QueueSize,    \* messages each queue takes (PBUF_QUEUE_SIZE)
  SeqIds        \* sequence numbers of Sync and Follow_Up

ASSUME MessageAssumption == MaxMessages \in Nat /\ QueueSize \in Nat /\ SeqIds # {}

VARIABLES
  c,        \* the PtpClock
  class,    \* the class of the clock, chosen once
  pc,       \* "idle", or "run" inside ptpd_Periodic_Handle
  arrived   \* messages that have come

vars == <<c, class, pc, arrived>>

States == {"INITIALIZING", "FAULTY", "LISTENING", "PRE_MASTER", "MASTER",
           "PASSIVE", "UNCALIBRATED", "SLAVE"}
Events == {"STATE_DECISION", "MASTER_CHANGED", "MASTER_SELECTED", "SYNC_FAULT"}
Timers == {"SYNC", "ANNOUNCE", "RECEIPT", "QUALIFICATION", "MANAGEMENT"}

\* How far the servo finds the clock from its master; "huge" makes it set the clock.
\* Anything between "close" and "far" has the effect of "far" in UNCALIBRATED and of
\* "close" in SLAVE: none.
Offsets == {"close", "far", "huge"}

EventMsg   == [kind : {"sync"}, src : Masters, seq : SeqIds, twoStep : BOOLEAN]
                \cup [kind : {"short"}]
GeneralMsg == [kind : {"announce"}, ds : Announces]
                \cup [kind : {"follow"}, src : Masters, seq : SeqIds]
                \cup [kind : {"short"}]

ClockType ==
  [portState : States, recommended : States, events : SUBSET Events,
   fm : ForeignType, parent : Announces \cup {Own, Blank},
   running : SUBSET Timers, expire : SUBSET Timers, elapsed : BOOLEAN,
   waitingForFollowUp : BOOLEAN, recvSync : SeqIds,
   eventQ : Seq(EventMsg), generalQ : Seq(GeneralMsg)]

-----------------------------------------------------------------------------
\* timer.c.  `elapsed' says whether elapsed_ms is positive; the qualification
\* timer runs for one millisecond, the others end when S says so.
timerUpdate(d, S) ==
  IF d.elapsed
  THEN [d EXCEPT !.elapsed = FALSE,
                 !.expire = @ \cup (d.running \cap (S \cup {"QUALIFICATION"}))]
  ELSE d
timerStop(d, T)  == [d EXCEPT !.running = @ \ T]
timerStart(d, T) == [d EXCEPT !.running = @ \cup T, !.expire = @ \ T]

\* timerExpired, after timerUpdate: the flag is tested and cleared.
Cleared(d, T) == [d EXCEPT !.expire = @ \ T]

\* initClock: the servo starts over and the event queue is emptied.
initClock(d) == [d EXCEPT !.waitingForFollowUp = FALSE, !.eventQ = <<>>]

\* m1 and s1, the data sets of a master and of a slave.
m1(d) == [d EXCEPT !.parent = Own]
s1(d, ds) ==
  [d EXCEPT !.parent = ds,
            !.events = IF d.parent.src = ds.src THEN @ ELSE @ \cup {"MASTER_CHANGED"}]

\* toState, the tasks of the state that is left.
leave(d, state) ==
  CASE d.portState = "MASTER" -> timerStop(initClock(d), {"SYNC", "ANNOUNCE"})
    [] d.portState \in {"UNCALIBRATED", "SLAVE"} ->
         IF state \in {"UNCALIBRATED", "SLAVE"} THEN d
         ELSE initClock(timerStop(d, {"RECEIPT", "MANAGEMENT"}))
    [] d.portState \in {"PASSIVE", "LISTENING"} -> timerStop(initClock(d), {"RECEIPT"})
    [] d.portState = "PRE_MASTER" -> timerStop(initClock(d), {"QUALIFICATION"})
    [] OTHER -> d

\* Fault: a passive port does not wait for announcements.
started_NotPassive(state) ==
  CASE state \in {"LISTENING", "UNCALIBRATED"} -> {"RECEIPT"}
    [] state = "PRE_MASTER" -> {"QUALIFICATION"}
    [] state = "MASTER"     -> {"SYNC", "ANNOUNCE"}
    [] state = "SLAVE"      -> {"MANAGEMENT"}
    [] OTHER -> {}

\* toState, the timers of the state that is entered.
started(state) ==
  CASE state \in {"LISTENING", "PASSIVE", "UNCALIBRATED"} -> {"RECEIPT"}
    [] state = "PRE_MASTER" -> {"QUALIFICATION"}
    [] state = "MASTER"     -> {"SYNC", "ANNOUNCE"}
    [] state = "SLAVE"      -> {"MANAGEMENT"}
    [] OTHER -> {}

toState(d, state) ==
  [timerStart(leave(d, state), started(state)) EXCEPT
     !.portState = state,
     !.recommended = IF state \in {"INITIALIZING", "LISTENING"} THEN state ELSE @]
-----------------------------------------------------------------------------
\* handleAnnounce: a slave keeps what its parent says out of the table.
handleAnnounce(d, ds) ==
  LET e == [d EXCEPT !.events = @ \cup {"STATE_DECISION"}]
  IN  CASE d.portState \in {"INITIALIZING", "FAULTY"} -> d
        [] d.portState \in {"UNCALIBRATED", "SLAVE"} /\ d.parent.src = ds.src ->
             timerStart(s1(e, ds), {"RECEIPT"})
        [] d.portState = "PASSIVE" ->
             timerStart([e EXCEPT !.fm = addForeign(@, ds)], {"RECEIPT"})
        [] OTHER -> [e EXCEPT !.fm = addForeign(@, ds)]

\* updateOffset, which reports what it finds as an event, and updateClock, which
\* starts the servo over when it has to set the clock.
updateOffset(d, offset) ==
  LET e == [d EXCEPT !.waitingForFollowUp = FALSE,
                     !.events = @ \cup
      (CASE d.portState = "UNCALIBRATED" /\ offset = "close" -> {"MASTER_SELECTED"}
         [] d.portState = "SLAVE" /\ offset # "close" -> {"SYNC_FAULT"}
         [] OTHER -> {})]
  IN  IF offset = "huge" THEN initClock(e) ELSE e

FromParent(d, m) == d.portState \in {"UNCALIBRATED", "SLAVE"} /\ m.src = d.parent.src

handleSync(d, m, offset) ==
  IF ~FromParent(d, m) THEN d
  ELSE IF m.twoStep
       THEN [d EXCEPT !.waitingForFollowUp = TRUE, !.recvSync = m.seq]
       ELSE updateOffset(d, offset)

handleFollowUp(d, m, offset) ==
  IF FromParent(d, m) /\ d.waitingForFollowUp /\ m.seq = d.recvSync
  THEN updateOffset(d, offset)
  ELSE d

\* handle: one message, the event queue first.  A message shorter than its kind
\* allows is a fault.
handle(d, offset) ==
  LET n == Head(d.eventQ)
      e == [d EXCEPT !.eventQ = Tail(@)]
      m == Head(d.generalQ)
      g == [d EXCEPT !.generalQ = Tail(@)]
  IN  IF d.eventQ # <<>>
      THEN IF n.kind = "sync" THEN handleSync(e, n, offset) ELSE toState(e, "FAULTY")
      ELSE IF d.generalQ = <<>> THEN d
      ELSE CASE m.kind = "announce" -> handleAnnounce(g, m.ds)
             [] m.kind = "follow"   -> handleFollowUp(g, m, offset)
             [] OTHER               -> toState(g, "FAULTY")
-----------------------------------------------------------------------------
\* Fault: every clock takes what the algorithm says.
decide_AnyClass(d) ==
  LET best == bestUpTo(d.fm)
      e == [d EXCEPT !.events = @ \ {"STATE_DECISION"}, !.fm.best = best]
      state == stateDecision(class, d.portState, d.fm, d.fm.records[best])
      f == [e EXCEPT !.recommended = state]
  IN  IF state = "MASTER" THEN m1(f)
      ELSE IF state = "SLAVE" THEN s1(f, d.fm.records[best]) ELSE f

\* doState, the state decision: bmc updates the data sets and recommends a state.
decide(d) ==
  LET best == bestUpTo(d.fm)
      e == [d EXCEPT !.events = @ \ {"STATE_DECISION"}, !.fm.best = best]
      state == stateDecision(class, d.portState, d.fm, d.fm.records[best])
      f == [e EXCEPT !.recommended = recommend(class, state)]
  IN  IF state = "MASTER" THEN m1(f)
      ELSE IF state = "SLAVE" THEN s1(f, d.fm.records[best]) ELSE f

\* doState: towards the recommended state.
towardsSlave(d) ==
  LET handled(e, event) == [e EXCEPT !.events = @ \ {event}]
      selected == IF "MASTER_SELECTED" \in d.events
                  THEN toState(handled(d, "MASTER_SELECTED"), "SLAVE") ELSE d
      fault    == IF "SYNC_FAULT" \in d.events
                  THEN toState(handled(d, "SYNC_FAULT"), "UNCALIBRATED") ELSE d
  IN  CASE d.portState = "UNCALIBRATED" -> handled(selected, "MASTER_CHANGED")
        [] d.portState = "SLAVE" ->
             IF "MASTER_CHANGED" \in d.events
             THEN toState(handled(fault, "MASTER_CHANGED"), "UNCALIBRATED") ELSE fault
        [] OTHER -> toState(d, "UNCALIBRATED")

towards(d, S) ==
  LET timed == timerUpdate(d, S)
  IN  CASE d.recommended = "MASTER" /\ d.portState = "PRE_MASTER" ->
             IF "QUALIFICATION" \in timed.expire
             THEN toState(Cleared(timed, {"QUALIFICATION"}), "MASTER") ELSE timed
        [] d.recommended = "MASTER" /\ d.portState # "PRE_MASTER" ->
             IF d.portState = "MASTER" THEN d ELSE toState(d, "PRE_MASTER")
        [] d.recommended = "SLAVE" -> towardsSlave(d)
        [] d.recommended \in {"PASSIVE", "LISTENING"} ->
             IF d.portState = d.recommended THEN d ELSE toState(d, d.recommended)
        [] OTHER -> d

\* doInit with initData, initTimer and netInit: the table of foreign masters is
\* emptied, but neither `i', `best' nor the records are reset.
doInit(d, up) ==
  IF up THEN toState(m1(initClock([d EXCEPT !.fm.count = 0, !.elapsed = FALSE,
                                            !.eventQ = <<>>, !.generalQ = <<>>])),
                     "LISTENING")
  ELSE toState(d, "FAULTY")

\* Fault: the new master keeps the parent it lost.
receiptTimeout_KeepsParent(d) ==
  LET e == [d EXCEPT !.fm.count = 0, !.fm.i = 0]
  IN  IF class # "slaveOnly"
      THEN toState([e EXCEPT !.recommended = "MASTER"], "MASTER")
      ELSE IF d.portState # "LISTENING" THEN toState(e, "LISTENING") ELSE e

\* doState: nothing was announced for too long.
receiptTimeout(d) ==
  LET e == [d EXCEPT !.fm.count = 0, !.fm.i = 0]
  IN  IF class # "slaveOnly"
      THEN toState([m1(e) EXCEPT !.recommended = "MASTER"], "MASTER")
      ELSE IF d.portState # "LISTENING" THEN toState(e, "LISTENING") ELSE e

\* doState: the port listens to a master, or for one.
listen(d, S, offset) ==
  LET u == timerUpdate(d, S)
      managed == IF d.portState # "PASSIVE" /\ "MANAGEMENT" \in u.expire
                 THEN handle(Cleared(u, {"MANAGEMENT"}), offset) ELSE u
  IN  IF "RECEIPT" \in managed.expire
      THEN receiptTimeout(Cleared(managed, {"RECEIPT"}))
      ELSE handle(managed, offset)

\* Fault: a master handles no messages.
act_MasterDeaf(d, S, offset, up) ==
  CASE d.portState = "INITIALIZING" -> doInit(d, up)
    [] d.portState = "FAULTY" -> toState(d, "INITIALIZING")
    [] d.portState \in {"LISTENING", "UNCALIBRATED", "SLAVE", "PASSIVE"} ->
         listen(d, S, offset)
    [] OTHER -> Cleared(timerUpdate(d, S), {"SYNC", "ANNOUNCE"})

\* doState, the last switch: PRE_MASTER has no case of its own, so it handles no message.
act(d, S, offset, up) ==
  CASE d.portState = "INITIALIZING" -> doInit(d, up)
    [] d.portState = "FAULTY" -> toState(d, "INITIALIZING")
    [] d.portState \in {"LISTENING", "UNCALIBRATED", "SLAVE", "PASSIVE"} ->
         listen(d, S, offset)
    [] d.portState = "MASTER" ->
         handle(Cleared(timerUpdate(d, S), {"SYNC", "ANNOUNCE"}), offset)
    [] OTHER -> d

\* doState: is a state decision due?
due(d) ==
  IF "STATE_DECISION" \in d.events /\ d.portState \notin {"INITIALIZING", "FAULTY"}
  THEN decide(d) ELSE d

\* netSelect.
Waiting(d) == d.eventQ # <<>> \/ d.generalQ # <<>>
-----------------------------------------------------------------------------
\* PTPd_Init with ptpdStartup: static memory, and toState(PTP_INITIALIZING).
Init ==
  /\ class \in Classes
  /\ c = [portState |-> "INITIALIZING", recommended |-> "INITIALIZING", events |-> {},
          fm |-> [records |-> [j \in Entries |-> Blank], count |-> 0, i |-> 0, best |-> 0],
          parent |-> Blank, running |-> {}, expire |-> {}, elapsed |-> FALSE,
          waitingForFollowUp |-> FALSE, recvSync |-> CHOOSE s \in SeqIds : TRUE,
          eventQ |-> <<>>, generalQ |-> <<>>]
  /\ pc = "idle" /\ arrived = 0

\* A UDP callback, once netInit has registered it: from the first successful doInit on,
\* as a port that is FAULTY later moves to the recommended state and not through doInit.
Connected == c.recommended # "INITIALIZING"
Arrive ==
  /\ arrived < MaxMessages /\ Connected
  /\ arrived' = arrived + 1
  /\ \/ /\ Len(c.eventQ) < QueueSize
        /\ \E m \in EventMsg : c' = [c EXCEPT !.eventQ = Append(@, m)]
     \/ /\ Len(c.generalQ) < QueueSize
        /\ \E m \in GeneralMsg : c' = [c EXCEPT !.generalQ = Append(@, m)]
  /\ UNCHANGED <<class, pc>>

\* ptpd_Periodic_Handle is called; some milliseconds may have gone by.
Periodic ==
  /\ pc = "idle"
  /\ pc' = "run"
  /\ \E ms \in BOOLEAN : c' = [c EXCEPT !.elapsed = @ \/ ms]
  /\ UNCHANGED <<class, arrived>>

\* One round of its loop: doState decides, moves and acts.
Round(S, offset, up) ==
  /\ pc = "run"
  /\ \E decided \in {due(c)} : \E moved \in {towards(decided, S)} :
       c' = act(moved, S, offset, up)
  /\ pc' = IF Waiting(c') THEN "run" ELSE "idle"
  /\ UNCHANGED <<class, arrived>>

\* The timers whose end matters to a listening port; those of a master only send.
Listening == {"RECEIPT", "MANAGEMENT"}

\* What the network and the clock may hand to the next round, as far as it matters.
Endings   == IF c.elapsed THEN SUBSET (c.running \cap Listening) ELSE {{}}
Measures  == IF Waiting(c) THEN Offsets ELSE {"far"}
NetWorks  == IF c.portState = "INITIALIZING" THEN BOOLEAN ELSE {TRUE}

Loop == \E S \in Endings, offset \in Measures, up \in NetWorks : Round(S, offset, up)

Next ==
  \/ Arrive
  \/ Periodic
  \/ Loop

Spec == Init /\ [][Next]_vars

\* The main loop keeps polling, doState returns, time goes by and no timer runs
\* for ever, and the network comes up when it is tried again and again.
FairSpec ==
  /\ Spec
  /\ WF_vars(Loop)
  /\ SF_vars(Periodic /\ c'.elapsed)
  /\ SF_vars(c.elapsed /\ \E offset \in Measures, up \in NetWorks : Round(Listening, offset, up))
  /\ SF_vars(c.portState = "INITIALIZING" /\ Round({}, "far", TRUE))
-----------------------------------------------------------------------------
\* The types; and once the network is up no record that was never written is the parent.
TypeOK ==
  /\ c \in ClockType /\ class \in Classes /\ pc \in {"idle", "run"}
  /\ arrived \in 0 .. MaxMessages
  /\ Connected => c.parent # Blank

\* Every state runs the timers that lead out of it, and no state runs the timers of
\* another one: a port that listens to a master waits for its announcements, also
\* after it moved between UNCALIBRATED and SLAVE; a master does not time itself out.
TimersMatchState ==
  /\ "RECEIPT" \in c.running
       <=> c.portState \in {"LISTENING", "UNCALIBRATED", "SLAVE", "PASSIVE"}
  /\ "QUALIFICATION" \in c.running <=> c.portState = "PRE_MASTER"
  /\ {"SYNC", "ANNOUNCE"} \cap c.running
       = IF c.portState = "MASTER" THEN {"SYNC", "ANNOUNCE"} ELSE {}
  /\ c.portState = "SLAVE" => "MANAGEMENT" \in c.running
  /\ "MANAGEMENT" \in c.running => c.portState \in {"UNCALIBRATED", "SLAVE"}

\* The parent data set agrees with the state: a master is its own parent and a
\* slave has another one, whatever came between the decision and the timeouts.
ParentMatchesState ==
  /\ c.portState \in {"PRE_MASTER", "MASTER"} => c.parent = Own
  /\ c.portState \in {"UNCALIBRATED", "SLAVE"} => c.parent.src \in Masters

\* A clock never takes a role its class forbids: a slave-only clock is no master,
\* and one of class below 128 no slave.
RoleMatchesClass ==
  /\ class = "slaveOnly" => c.portState \notin {"PRE_MASTER", "MASTER", "PASSIVE"}
  /\ class = "below128"  => c.portState \notin {"UNCALIBRATED", "SLAVE"}

\* The state decision follows the best of the other clocks (bmc).
ChoosesBest ==
  [][c.recommended # "SLAVE" /\ c'.recommended = "SLAVE" =>
       \A k \in 0 .. c'.fm.count - 1 :
         bmcDataSetComparison(c'.fm.records[k], c'.fm.records[c'.fm.best]) # 1]_vars

\* ptpd_Periodic_Handle returns once the messages are handled; only PRE_MASTER, in
\* which no message is handled and no time goes by, can hold it for ever.
LoopEnds == pc = "run" ~> (pc = "idle" \/ c.portState = "PRE_MASTER")

\* When no more messages come, the port ends as a master, or listening when it is
\* slave-only, whatever it was told before; or it is held in PRE_MASTER.
Settles ==
  <>[](\/ c.portState = IF class = "slaveOnly" THEN "LISTENING" ELSE "MASTER"
       \/ c.portState = "PRE_MASTER" /\ Waiting(c))
=============================================================================
