---------------------------- MODULE PtpPortProofs ----------------------------
(***************************************************************************)
(* The timers, the role, the types and the parent of a PTP port, for every *)
(* table of foreign masters, every set of other clocks and any number of   *)
(* messages.                                                               *)
(***************************************************************************)
EXTENDS PtpPort, WellFoundedInduction, TLAPS

Fields == {"portState", "recommended", "events", "fm", "parent", "running", "expire",
           "elapsed", "waitingForFollowUp", "recvSync", "eventQ", "generalQ"}

\* TimersMatchState of the clock d.
Timed(d) ==
  /\ "RECEIPT" \in d.running
       <=> d.portState \in {"LISTENING", "UNCALIBRATED", "SLAVE", "PASSIVE"}
  /\ "QUALIFICATION" \in d.running <=> d.portState = "PRE_MASTER"
  /\ "SYNC" \in d.running <=> d.portState = "MASTER"
  /\ "ANNOUNCE" \in d.running <=> d.portState = "MASTER"
  /\ d.portState = "SLAVE" => "MANAGEMENT" \in d.running
  /\ "MANAGEMENT" \in d.running => d.portState \in {"UNCALIBRATED", "SLAVE"}

\* A state the class of the clock admits, as one to be in and as one to go to.
Admitted(state) ==
  /\ class = "slaveOnly" => state \notin {"PRE_MASTER", "MASTER", "PASSIVE"}
  /\ class = "below128"  => state \notin {"UNCALIBRATED", "SLAVE"}

Sound(d) ==
  /\ DOMAIN d = Fields
  /\ d.portState \in States /\ Timed(d)
  /\ Admitted(d.portState) /\ Admitted(d.recommended)

PortInv == class \in Classes /\ Sound(c)

\* A step that leaves all of this alone.
Same(d, e) ==
  /\ DOMAIN e = Fields
  /\ e.portState = d.portState /\ e.recommended = d.recommended
  /\ e.running = d.running

-----------------------------------------------------------------------------
\* A step that changes nothing relevant leaves a sound clock.
LEMMA SameSound ==
  ASSUME NEW d, NEW e, Sound(d), Same(d, e) PROVE Sound(e)
BY DEF Same, Sound, Timed

\* Two such steps make one.
LEMMA SameTwice ==
  ASSUME NEW d, NEW e, NEW f, Same(d, e), Same(e, f) PROVE Same(d, f)
BY DEF Same

(* The helpers that move neither the state nor a timer.                    *)
LEMMA Updated ==
  ASSUME NEW d, DOMAIN d = Fields, NEW S PROVE Same(d, timerUpdate(d, S))
BY DEF timerUpdate, Same, Fields

\* Clearing expired timers stops none of them.
LEMMA ClearedSame ==
  ASSUME NEW d, DOMAIN d = Fields, NEW T PROVE Same(d, Cleared(d, T))
BY DEF Cleared, Same, Fields

\* initClock neither moves the state nor touches a timer.
LEMMA InitClockSame ==
  ASSUME NEW d, DOMAIN d = Fields PROVE Same(d, initClock(d))
BY DEF initClock, Same, Fields

\* The data set updates m1 and s1 neither move the state nor touch a timer.
LEMMA DataSetsSame ==
  ASSUME NEW d, DOMAIN d = Fields, NEW ds PROVE Same(d, m1(d)) /\ Same(d, s1(d, ds))
<1>1. Same(d, m1(d)) BY DEF m1, Same, Fields
<1>2. Same(d, s1(d, ds)) BY DEF s1, Same, Fields
<1> QED BY <1>1, <1>2

-----------------------------------------------------------------------------
(* toState.                                                                *)

\* What leaving a state does to the timers.
LEMMA Leaving ==
  ASSUME NEW d, Sound(d), NEW state \in States
  PROVE  /\ DOMAIN leave(d, state) = Fields
         /\ leave(d, state).portState = d.portState
         /\ leave(d, state).recommended = d.recommended
         /\ leave(d, state).running \cap Timers \subseteq
              IF {d.portState, state} \subseteq {"UNCALIBRATED", "SLAVE"}
              THEN {"RECEIPT", "MANAGEMENT"} ELSE {}
         /\ d.portState \in {"UNCALIBRATED", "SLAVE"} /\ state \in {"UNCALIBRATED", "SLAVE"}
              => leave(d, state) = d
<1>1. DOMAIN d = Fields /\ d.portState \in States /\ Timed(d) BY DEF Sound
<1>2. ASSUME NEW T
      PROVE  /\ DOMAIN timerStop(d, T) = Fields
             /\ timerStop(d, T).portState = d.portState
             /\ timerStop(d, T).recommended = d.recommended
             /\ timerStop(d, T).running = d.running \ T
  BY <1>1 DEF timerStop, Fields
<1>3. ASSUME NEW T
      PROVE  /\ DOMAIN timerStop(initClock(d), T) = Fields
             /\ timerStop(initClock(d), T).portState = d.portState
             /\ timerStop(initClock(d), T).recommended = d.recommended
             /\ timerStop(initClock(d), T).running = d.running \ T
  BY <1>1, InitClockSame DEF timerStop, Same, Fields
<1>4. ASSUME NEW T PROVE Same(timerStop(d, T), initClock(timerStop(d, T)))
  BY <1>2, InitClockSame
<1>5. CASE d.portState = "MASTER"
  <2>1. leave(d, state) = timerStop(initClock(d), {"SYNC", "ANNOUNCE"})
    BY <1>5 DEF leave
  <2> QED BY <1>1, <1>3, <1>5, <2>1 DEF Timed, Timers
<1>6. CASE d.portState \in {"UNCALIBRATED", "SLAVE"} /\ state \in {"UNCALIBRATED", "SLAVE"}
  <2>1. leave(d, state) = d BY <1>6 DEF leave
  <2> QED BY <1>1, <1>6, <2>1 DEF Timed, Timers
<1>7. CASE d.portState \in {"UNCALIBRATED", "SLAVE"} /\ state \notin {"UNCALIBRATED", "SLAVE"}
  <2>1. leave(d, state) = initClock(timerStop(d, {"RECEIPT", "MANAGEMENT"}))
    BY <1>7 DEF leave
  <2> QED BY <1>1, <1>2, <1>4, <1>7, <2>1 DEF Timed, Timers, Same
<1>8. CASE d.portState \in {"PASSIVE", "LISTENING"}
  <2>1. leave(d, state) = timerStop(initClock(d), {"RECEIPT"}) BY <1>8 DEF leave
  <2> QED BY <1>1, <1>3, <1>8, <2>1 DEF Timed, Timers
<1>9. CASE d.portState = "PRE_MASTER"
  <2>1. leave(d, state) = timerStop(initClock(d), {"QUALIFICATION"}) BY <1>9 DEF leave
  <2> QED BY <1>1, <1>3, <1>9, <2>1 DEF Timed, Timers
<1>10. CASE d.portState \in {"INITIALIZING", "FAULTY"}
  <2>1. leave(d, state) = d BY <1>10 DEF leave
  <2> QED BY <1>1, <1>10, <2>1 DEF Timed, Timers
<1> QED BY <1>1, <1>5, <1>6, <1>7, <1>8, <1>9, <1>10 DEF States

\* A slave was uncalibrated before.
LEMMA Moved ==
  ASSUME NEW d, Sound(d), NEW state \in States, Admitted(state),
         state = "SLAVE" => d.portState \in {"UNCALIBRATED", "SLAVE"}
  PROVE  Sound(toState(d, state)) /\ toState(d, state).portState = state
<1> DEFINE l == leave(d, state)
           t == timerStart(l, started(state))
<1>1. /\ DOMAIN l = Fields /\ l.portState = d.portState
      /\ l.recommended = d.recommended
      /\ l.running \cap Timers \subseteq
           IF {d.portState, state} \subseteq {"UNCALIBRATED", "SLAVE"}
           THEN {"RECEIPT", "MANAGEMENT"} ELSE {}
      /\ d.portState \in {"UNCALIBRATED", "SLAVE"} /\ state \in {"UNCALIBRATED", "SLAVE"}
           => l = d
  BY Leaving
<1> HIDE DEF l
<1>2. /\ DOMAIN t = Fields /\ t.recommended = d.recommended
      /\ t.running = l.running \cup started(state)
  BY <1>1 DEF timerStart, Fields
<1> HIDE DEF t
<1>3. toState(d, state) =
        [t EXCEPT !.portState = state,
                  !.recommended = IF state \in {"INITIALIZING", "LISTENING"}
                                  THEN state ELSE @]
  BY DEF toState, t, l
<1> DEFINE r == toState(d, state)
<1>4. /\ DOMAIN r = Fields /\ r.portState = state
      /\ r.running = l.running \cup started(state)
      /\ r.recommended = IF state \in {"INITIALIZING", "LISTENING"}
                         THEN state ELSE d.recommended
  BY <1>2, <1>3 DEF Fields
<1> HIDE DEF r
<1>5. Admitted(r.recommended)
  BY <1>4 DEF Sound, Admitted
<1>6. Timed(r)
  <2>1. CASE state \in {"LISTENING", "PASSIVE"}
    <3>1. started(state) = {"RECEIPT"} BY <2>1 DEF started
    <3> QED BY <1>1, <1>4, <2>1, <3>1 DEF Timed, Timers
  <2>2. CASE state = "UNCALIBRATED"
    <3>1. started(state) = {"RECEIPT"} BY <2>2 DEF started
    <3> QED BY <1>1, <1>4, <2>2, <3>1 DEF Timed, Timers
  <2>3. CASE state = "PRE_MASTER"
    <3>1. started(state) = {"QUALIFICATION"} BY <2>3 DEF started
    <3> QED BY <1>1, <1>4, <2>3, <3>1 DEF Timed, Timers
  <2>4. CASE state = "MASTER"
    <3>1. started(state) = {"SYNC", "ANNOUNCE"} BY <2>4 DEF started
    <3> QED BY <1>1, <1>4, <2>4, <3>1 DEF Timed, Timers
  <2>5. CASE state = "SLAVE" /\ d.portState \in {"UNCALIBRATED", "SLAVE"}
    <3>1. started(state) = {"MANAGEMENT"} BY <2>5 DEF started
    <3>2. "RECEIPT" \in l.running BY <1>1, <2>5 DEF Sound, Timed
    <3> QED BY <1>1, <1>4, <2>5, <3>1, <3>2 DEF Timed, Timers
  <2>6. CASE state \in {"INITIALIZING", "FAULTY"}
    <3>1. started(state) = {} BY <2>6 DEF started
    <3> QED BY <1>1, <1>4, <2>6, <3>1 DEF Timed, Timers
  <2> QED BY <2>1, <2>2, <2>3, <2>4, <2>5, <2>6 DEF States
<1> QED BY <1>4, <1>5, <1>6 DEF Sound, r

-----------------------------------------------------------------------------
(* The messages.                                                           *)

\* handleAnnounce restarts a timer only where it may run.
LEMMA AnnounceSound ==
  ASSUME NEW d, Sound(d), NEW ds PROVE Sound(handleAnnounce(d, ds))
<1> DEFINE e == [d EXCEPT !.events = @ \cup {"STATE_DECISION"}]
           g == [e EXCEPT !.fm = addForeign(@, ds)]
<1>1. DOMAIN d = Fields BY DEF Sound
<1>2. Same(d, e) BY <1>1 DEF Same, Fields
<1>3. Same(e, g) BY <1>2 DEF Same, Fields
<1>4. Same(e, s1(e, ds)) BY <1>2, DataSetsSame DEF Same
<1>5. Sound(e) /\ Sound(g) /\ Sound(s1(e, ds))
      /\ e.portState = d.portState /\ g.portState = d.portState
      /\ s1(e, ds).portState = d.portState
  BY <1>2, <1>3, <1>4, SameSound DEF Same
<1> HIDE DEF e, g
<1>6. ASSUME NEW f, Sound(f), f.portState \in {"UNCALIBRATED", "SLAVE", "PASSIVE"}
      PROVE  Sound(timerStart(f, {"RECEIPT"}))
  <2>1. /\ DOMAIN f = Fields /\ Timed(f) BY <1>6 DEF Sound
  <2>2. /\ DOMAIN timerStart(f, {"RECEIPT"}) = Fields
        /\ timerStart(f, {"RECEIPT"}).portState = f.portState
        /\ timerStart(f, {"RECEIPT"}).recommended = f.recommended
        /\ timerStart(f, {"RECEIPT"}).running = f.running \cup {"RECEIPT"}
    BY <2>1 DEF timerStart, Fields
  <2> QED BY <1>6, <2>1, <2>2 DEF Sound, Timed
<1>7. CASE d.portState \in {"INITIALIZING", "FAULTY"}
  <2>1. handleAnnounce(d, ds) = d BY <1>7 DEF handleAnnounce
  <2> QED BY <2>1
<1>8. CASE d.portState \in {"UNCALIBRATED", "SLAVE"} /\ d.parent.src = ds.src
  <2>1. handleAnnounce(d, ds) = timerStart(s1(e, ds), {"RECEIPT"})
    BY <1>8 DEF handleAnnounce, e
  <2> QED BY <1>5, <1>6, <1>8, <2>1
<1>9. CASE d.portState = "PASSIVE"
  <2>1. handleAnnounce(d, ds) = timerStart(g, {"RECEIPT"})
    BY <1>9 DEF handleAnnounce, e, g
  <2> QED BY <1>5, <1>6, <1>9, <2>1
<1>10. CASE /\ d.portState \notin {"INITIALIZING", "FAULTY", "PASSIVE"}
            /\ ~(d.portState \in {"UNCALIBRATED", "SLAVE"} /\ d.parent.src = ds.src)
  <2>1. handleAnnounce(d, ds) = g BY <1>10 DEF handleAnnounce, e, g
  <2> QED BY <1>5, <2>1
<1> QED BY <1>7, <1>8, <1>9, <1>10

\* updateOffset neither moves the state nor touches a timer.
LEMMA OffsetSame ==
  ASSUME NEW d, DOMAIN d = Fields, NEW offset PROVE Same(d, updateOffset(d, offset))
<1> DEFINE e == [d EXCEPT !.waitingForFollowUp = FALSE,
                          !.events = @ \cup
      (CASE d.portState = "UNCALIBRATED" /\ offset = "close" -> {"MASTER_SELECTED"}
         [] d.portState = "SLAVE" /\ offset # "close" -> {"SYNC_FAULT"}
         [] OTHER -> {})]
<1>1. Same(d, e) BY DEF Same, Fields
<1>2. updateOffset(d, offset) = IF offset = "huge" THEN initClock(e) ELSE e
  BY DEF updateOffset
<1> HIDE DEF e
<1>3. Same(e, initClock(e)) BY <1>1, InitClockSame DEF Same
<1> QED BY <1>1, <1>2, <1>3, SameTwice

\* handleSync and handleFollowUp neither move the state nor touch a timer.
LEMMA SyncSame ==
  ASSUME NEW d, DOMAIN d = Fields, NEW m, NEW offset
  PROVE  Same(d, handleSync(d, m, offset)) /\ Same(d, handleFollowUp(d, m, offset))
<1>1. Same(d, d) BY DEF Same
<1>2. Same(d, [d EXCEPT !.waitingForFollowUp = TRUE, !.recvSync = m.seq])
  BY DEF Same, Fields
<1>3. Same(d, updateOffset(d, offset)) BY OffsetSame
<1>4. Same(d, handleSync(d, m, offset)) BY <1>1, <1>2, <1>3 DEF handleSync
<1>5. Same(d, handleFollowUp(d, m, offset)) BY <1>1, <1>3 DEF handleFollowUp
<1> QED BY <1>4, <1>5

\* handle leaves a sound clock, whichever message it takes.
LEMMA Handled == ASSUME NEW d, Sound(d), NEW offset PROVE Sound(handle(d, offset))
<1> DEFINE m == Head(d.generalQ)
           g == [d EXCEPT !.generalQ = Tail(@)]
           s == [d EXCEPT !.eventQ = Tail(@)]
           n == Head(d.eventQ)
<1>1. DOMAIN d = Fields BY DEF Sound
<1>2. Same(d, g) /\ Same(d, s) BY <1>1 DEF Same, Fields
<1>3. handle(d, offset) =
        IF d.eventQ # <<>>
        THEN IF n.kind = "sync" THEN handleSync(s, n, offset) ELSE toState(s, "FAULTY")
        ELSE IF d.generalQ = <<>> THEN d
        ELSE CASE m.kind = "announce" -> handleAnnounce(g, m.ds)
               [] m.kind = "follow"   -> handleFollowUp(g, m, offset)
               [] OTHER               -> toState(g, "FAULTY")
  BY DEF handle
<1> HIDE DEF m, g, s, n
<1>4. Sound(g) /\ Sound(s) /\ DOMAIN g = Fields /\ DOMAIN s = Fields
  BY <1>2, SameSound DEF Same
<1>5. Sound(handleSync(s, n, offset)) BY <1>4, SyncSame, SameSound
<1>6. Sound(handleAnnounce(g, m.ds)) BY <1>4, AnnounceSound
<1>7. Sound(handleFollowUp(g, m, offset)) BY <1>4, SyncSame, SameSound
<1>8. Sound(toState(g, "FAULTY")) /\ Sound(toState(s, "FAULTY"))
  BY <1>4, Moved, "FAULTY" \in States, Admitted("FAULTY") DEF States, Admitted
<1> QED BY <1>3, <1>5, <1>6, <1>7, <1>8

-----------------------------------------------------------------------------
(* doState.                                                                *)

\* What the algorithm recommends, the class admits.
LEMMA Recommended ==
  ASSUME class \in Classes, NEW portState, NEW fm, NEW ds
  PROVE  Admitted(recommend(class, stateDecision(class, portState, fm, ds)))
<1> DEFINE s == stateDecision(class, portState, fm, ds)
<1>1. /\ s \in {"LISTENING", "MASTER", "PASSIVE", "SLAVE"}
      /\ class = "below128" => s # "SLAVE"
  BY DEF stateDecision
<1> HIDE DEF s
<1>2. Admitted(recommend(class, s)) BY <1>1 DEF recommend, Admitted
<1> QED BY <1>2 DEF s

\* A state decision that is due recommends a state the class admits.
LEMMA Decided ==
  ASSUME class \in Classes, NEW d, Sound(d) PROVE Sound(due(d))
<1> DEFINE best  == bestUpTo(d.fm)
           ds    == d.fm.records[best]
           state == stateDecision(class, d.portState, d.fm, ds)
           e == [d EXCEPT !.events = @ \ {"STATE_DECISION"}, !.fm.best = best]
           f == [e EXCEPT !.recommended = recommend(class, state)]
<1>1. decide(d) = IF state = "MASTER" THEN m1(f)
                  ELSE IF state = "SLAVE" THEN s1(f, ds) ELSE f
  BY DEF decide
<1>2. Admitted(recommend(class, state)) BY Recommended
<1> HIDE DEF best, ds, state
<1>3. DOMAIN d = Fields BY DEF Sound
<1>4. Same(d, e)
  <2>1. e = [[d EXCEPT !.events = @ \ {"STATE_DECISION"}] EXCEPT !.fm.best = best]
    OBVIOUS
  <2> QED BY <1>3 DEF Same, Fields
<1> HIDE DEF e
<1>5. Sound(e) /\ DOMAIN e = Fields BY <1>4, SameSound DEF Same
<1>6. /\ DOMAIN f = Fields /\ f.portState = e.portState /\ f.running = e.running
      /\ f.recommended = recommend(class, state)
  BY <1>5 DEF Fields
<1> HIDE DEF f
<1>7. Sound(f) BY <1>2, <1>5, <1>6 DEF Sound, Timed
<1>8. Sound(m1(f)) /\ Sound(s1(f, ds)) BY <1>6, <1>7, DataSetsSame, SameSound
<1>9. Sound(decide(d)) BY <1>1, <1>7, <1>8
<1> QED BY <1>9 DEF due

\* towardsSlave leaves a sound clock when the class admits a slave.
LEMMA TowardsSlave ==
  ASSUME NEW d, Sound(d), class # "below128" PROVE Sound(towardsSlave(d))
<1> DEFINE handled(e, event) == [e EXCEPT !.events = @ \ {event}]
           selected == IF "MASTER_SELECTED" \in d.events
                       THEN toState(handled(d, "MASTER_SELECTED"), "SLAVE") ELSE d
           fault    == IF "SYNC_FAULT" \in d.events
                       THEN toState(handled(d, "SYNC_FAULT"), "UNCALIBRATED") ELSE d
<1>1. towardsSlave(d) =
        CASE d.portState = "UNCALIBRATED" -> handled(selected, "MASTER_CHANGED")
          [] d.portState = "SLAVE" ->
               IF "MASTER_CHANGED" \in d.events
               THEN toState(handled(fault, "MASTER_CHANGED"), "UNCALIBRATED") ELSE fault
          [] OTHER -> toState(d, "UNCALIBRATED")
  BY DEF towardsSlave
<1>2. ASSUME NEW e, Sound(e), NEW event
      PROVE  Sound(handled(e, event)) /\ handled(e, event).portState = e.portState
  <2>1. DOMAIN e = Fields BY <1>2 DEF Sound
  <2>2. Same(e, handled(e, event)) BY <2>1 DEF Same, Fields
  <2> QED BY <1>2, <2>2, SameSound DEF Same
<1> HIDE DEF handled
<1>3. Admitted("SLAVE") /\ Admitted("UNCALIBRATED") BY DEF Admitted
<1>4. "SLAVE" \in States /\ "UNCALIBRATED" \in States BY DEF States
<1>5. CASE d.portState = "UNCALIBRATED"
  <2>1. Sound(selected)
    BY <1>2, <1>3, <1>4, <1>5, Moved
  <2> QED BY <1>1, <1>2, <1>5, <2>1
<1>6. CASE d.portState = "SLAVE"
  <2>1. Sound(fault) BY <1>2, <1>3, <1>4, Moved
  <2>2. Sound(toState(handled(fault, "MASTER_CHANGED"), "UNCALIBRATED"))
    BY <1>2, <1>3, <1>4, <2>1, Moved
  <2> QED BY <1>1, <1>6, <2>1, <2>2
<1>7. CASE d.portState \notin {"UNCALIBRATED", "SLAVE"}
  <2>1. Sound(toState(d, "UNCALIBRATED")) BY <1>3, <1>4, Moved
  <2> QED BY <1>1, <1>7, <2>1
<1> QED BY <1>5, <1>6, <1>7

\* Following the recommendation leaves a sound clock.
LEMMA Towards == ASSUME NEW d, Sound(d), NEW S PROVE Sound(towards(d, S))
<1> DEFINE timed == timerUpdate(d, S)
           cleared == Cleared(timed, {"QUALIFICATION"})
<1>1. DOMAIN d = Fields /\ Admitted(d.recommended) BY DEF Sound
<1>2. Same(d, timed) BY <1>1, Updated
<1>3. Same(timed, cleared) BY <1>2, ClearedSame DEF Same
<1>4. Sound(timed) /\ Sound(cleared) BY <1>2, <1>3, SameSound
<1>5. towards(d, S) =
        CASE d.recommended = "MASTER" /\ d.portState = "PRE_MASTER" ->
               IF "QUALIFICATION" \in timed.expire THEN toState(cleared, "MASTER")
               ELSE timed
          [] d.recommended = "MASTER" /\ d.portState # "PRE_MASTER" ->
               IF d.portState = "MASTER" THEN d ELSE toState(d, "PRE_MASTER")
          [] d.recommended = "SLAVE" -> towardsSlave(d)
          [] d.recommended \in {"PASSIVE", "LISTENING"} ->
               IF d.portState = d.recommended THEN d ELSE toState(d, d.recommended)
          [] OTHER -> d
  BY DEF towards
<1> HIDE DEF timed, cleared
<1>6. CASE d.recommended = "MASTER"
  <2>1. Admitted("MASTER") /\ Admitted("PRE_MASTER") BY <1>1, <1>6 DEF Admitted
  <2>2. "MASTER" \in States /\ "PRE_MASTER" \in States BY DEF States
  <2>3. Sound(toState(cleared, "MASTER")) /\ Sound(toState(d, "PRE_MASTER"))
    BY <1>4, <2>1, <2>2, Moved
  <2> QED BY <1>4, <1>5, <1>6, <2>3
<1>7. CASE d.recommended = "SLAVE"
  <2>1. class # "below128" BY <1>1, <1>7 DEF Admitted
  <2> QED BY <1>5, <1>7, <2>1, TowardsSlave
<1>8. CASE d.recommended \in {"PASSIVE", "LISTENING"}
  <2>1. d.recommended \in States BY <1>8 DEF States
  <2>2. Sound(toState(d, d.recommended)) BY <1>1, <1>8, <2>1, Moved
  <2> QED BY <1>5, <1>8, <2>2
<1>9. CASE d.recommended \notin {"MASTER", "SLAVE", "PASSIVE", "LISTENING"}
  BY <1>5, <1>9
<1> QED BY <1>6, <1>7, <1>8, <1>9

\* doInit leaves a sound clock, whether or not the network comes up.
LEMMA InitSound ==
  ASSUME NEW d, Sound(d), NEW up \in BOOLEAN PROVE Sound(doInit(d, up))
<1> DEFINE e == [d EXCEPT !.fm.count = 0, !.elapsed = FALSE,
                          !.eventQ = <<>>, !.generalQ = <<>>]
<1>1. doInit(d, up) = IF up THEN toState(m1(initClock(e)), "LISTENING")
                      ELSE toState(d, "FAULTY")
  BY DEF doInit
<1>2. DOMAIN d = Fields BY DEF Sound
<1>3. Same(d, e) BY <1>2 DEF Same, Fields
<1> HIDE DEF e
<1>4. Same(e, initClock(e)) BY <1>3, InitClockSame DEF Same
<1>5. Same(initClock(e), m1(initClock(e))) BY <1>4, DataSetsSame DEF Same
<1>6. Sound(m1(initClock(e))) BY <1>3, <1>4, <1>5, SameSound
<1>7. /\ Admitted("LISTENING") /\ Admitted("FAULTY")
      /\ "LISTENING" \in States /\ "FAULTY" \in States
  BY DEF Admitted, States
<1> QED BY <1>1, <1>6, <1>7, Moved

\* A receipt timeout leaves a sound clock.
LEMMA TimeoutSound ==
  ASSUME class \in Classes, NEW d, Sound(d) PROVE Sound(receiptTimeout(d))
<1> DEFINE e == [d EXCEPT !.fm.count = 0, !.fm.i = 0]
           f == [m1(e) EXCEPT !.recommended = "MASTER"]
<1>1. receiptTimeout(d) =
        IF class # "slaveOnly" THEN toState(f, "MASTER")
        ELSE IF d.portState # "LISTENING" THEN toState(e, "LISTENING") ELSE e
  BY DEF receiptTimeout
<1>2. DOMAIN d = Fields BY DEF Sound
<1>3. Same(d, e) BY <1>2 DEF Same, Fields
<1> HIDE DEF e
<1>4. Sound(e) /\ DOMAIN e = Fields BY <1>3, SameSound DEF Same
<1>5. Sound(m1(e)) /\ DOMAIN m1(e) = Fields BY <1>4, DataSetsSame, SameSound DEF Same
<1>6. /\ DOMAIN f = Fields /\ f.portState = m1(e).portState
      /\ f.running = m1(e).running /\ f.recommended = "MASTER"
  BY <1>5 DEF Fields
<1> HIDE DEF f
<1>7. "MASTER" \in States /\ "LISTENING" \in States /\ Admitted("LISTENING")
  BY DEF States, Admitted
<1>8. CASE class # "slaveOnly"
  <2>1. Admitted("MASTER") BY <1>8 DEF Admitted
  <2>2. Sound(f) BY <1>5, <1>6, <2>1 DEF Sound, Timed
  <2> QED BY <1>1, <1>7, <1>8, <2>1, <2>2, Moved
<1>9. CASE class = "slaveOnly" BY <1>1, <1>4, <1>7, <1>9, Moved
<1> QED BY <1>8, <1>9

\* A port that listens, to a master or for one, leaves a sound clock.
LEMMA ListenSound ==
  ASSUME class \in Classes, NEW d, Sound(d), NEW S, NEW offset
  PROVE  Sound(listen(d, S, offset))
<1> DEFINE u == timerUpdate(d, S)
           v == Cleared(u, {"MANAGEMENT"})
           managed == IF d.portState # "PASSIVE" /\ "MANAGEMENT" \in u.expire
                      THEN handle(v, offset) ELSE u
           w == Cleared(managed, {"RECEIPT"})
<1>1. listen(d, S, offset) =
        IF "RECEIPT" \in managed.expire THEN receiptTimeout(w)
        ELSE handle(managed, offset)
  BY DEF listen
<1>2. Same(d, u) BY Updated DEF Sound
<1>3. Same(u, v) BY <1>2, ClearedSame DEF Same
<1>4. Sound(u) /\ Sound(v) BY <1>2, <1>3, SameSound
<1> HIDE DEF u, v
<1>5. Sound(managed) BY <1>4, Handled
<1> HIDE DEF managed
<1>6. Same(managed, w) BY <1>5, ClearedSame DEF Sound
<1>7. Sound(w) BY <1>5, <1>6, SameSound
<1> QED BY <1>1, <1>5, <1>7, TimeoutSound, Handled

\* doState leaves a sound clock in each of its states.
LEMMA Acted ==
  ASSUME class \in Classes, NEW d, Sound(d), NEW S, NEW offset, NEW up \in BOOLEAN
  PROVE  Sound(act(d, S, offset, up))
<1> DEFINE u == timerUpdate(d, S)
           v == Cleared(u, {"SYNC", "ANNOUNCE"})
<1>1. act(d, S, offset, up) =
        CASE d.portState = "INITIALIZING" -> doInit(d, up)
          [] d.portState = "FAULTY" -> toState(d, "INITIALIZING")
          [] d.portState \in {"LISTENING", "UNCALIBRATED", "SLAVE", "PASSIVE"} ->
               listen(d, S, offset)
          [] d.portState = "MASTER" -> handle(v, offset)
          [] OTHER -> d
  BY DEF act
<1>2. Same(d, u) BY Updated DEF Sound
<1>3. Same(u, v) BY <1>2, ClearedSame DEF Same
<1>4. Sound(v) BY <1>2, <1>3, SameSound
<1> HIDE DEF u, v
<1>5. Sound(handle(v, offset)) BY <1>4, Handled
<1>6. Sound(doInit(d, up)) /\ Sound(listen(d, S, offset)) BY InitSound, ListenSound
<1>7. Sound(toState(d, "INITIALIZING"))
  <2>1. "INITIALIZING" \in States /\ Admitted("INITIALIZING") BY DEF States, Admitted
  <2> QED BY <2>1, Moved
<1> QED BY <1>1, <1>5, <1>6, <1>7

-----------------------------------------------------------------------------
(* The steps.                                                              *)

\* The port starts as the invariant says.
LEMMA InitPort == Init => PortInv
<1> SUFFICES ASSUME Init PROVE PortInv OBVIOUS
<1>1. /\ class \in Classes /\ DOMAIN c = Fields
      /\ c.portState = "INITIALIZING" /\ c.recommended = "INITIALIZING"
      /\ c.running = {}
  BY DEF Init, Fields
<1> QED BY <1>1 DEF PortInv, Sound, Timed, Admitted, States

\* Every step keeps it.
LEMMA NextPort == PortInv /\ [Next]_vars => PortInv'
<1> SUFFICES ASSUME PortInv, [Next]_vars PROVE PortInv' OBVIOUS
<1>1. class' = class
  BY DEF Next, Arrive, Periodic, Loop, Round, vars
<1>2. ASSUME Sound(c') PROVE PortInv'
  BY <1>1, <1>2 DEF PortInv, Sound, Timed, Admitted
<1>3. Sound(c) /\ DOMAIN c = Fields /\ class \in Classes BY DEF PortInv, Sound
<1>4. CASE UNCHANGED vars BY <1>2, <1>3, <1>4 DEF vars
<1>5. CASE Arrive
  <2>1. Same(c, c')
    <3>1. \/ \E m \in EventMsg : c' = [c EXCEPT !.eventQ = Append(@, m)]
          \/ \E m \in GeneralMsg : c' = [c EXCEPT !.generalQ = Append(@, m)]
      BY <1>5 DEF Arrive
    <3>2. ASSUME NEW m PROVE /\ Same(c, [c EXCEPT !.eventQ = Append(@, m)])
                             /\ Same(c, [c EXCEPT !.generalQ = Append(@, m)])
      BY <1>3 DEF Same, Fields
    <3> QED BY <3>1, <3>2
  <2> QED BY <1>2, <1>3, <2>1, SameSound
<1>6. CASE Periodic
  <2>1. PICK ms \in BOOLEAN : c' = [c EXCEPT !.elapsed = @ \/ ms]
    BY <1>6 DEF Periodic
  <2>2. Same(c, c') BY <1>3, <2>1 DEF Same, Fields
  <2> QED BY <1>2, <1>3, <2>2, SameSound
<1>7. CASE Loop
  <2>1. PICK S \in Endings, offset \in Measures, up \in NetWorks : Round(S, offset, up)
    BY <1>7 DEF Loop
  <2>2. c' = act(towards(due(c), S), S, offset, up)
    BY <2>1 DEF Round
  <2>3. up \in BOOLEAN BY <2>1 DEF NetWorks
  <2>4. Sound(towards(due(c), S)) BY <1>3, Decided, Towards
  <2>5. Sound(c') BY <1>3, <2>2, <2>3, <2>4, Acted
  <2> QED BY <1>2, <2>5
<1> QED BY <1>4, <1>5, <1>6, <1>7 DEF Next

-----------------------------------------------------------------------------
\* The timers of the port fit its state, and its state and the one recommended to it
\* suit its class (toState, bmcStateDecision, doState).
THEOREM PortInvariant == Spec => []PortInv
<1> QED BY InitPort, NextPort, PTL DEF Spec

\* Every state runs the timers that lead out of it and none of another state,
\* through any messages and timeouts (toState, handleAnnounce).
THEOREM TimersFitState == Spec => []TimersMatchState
<1>1. PortInv => TimersMatchState
  BY DEF PortInv, Sound, Timed, TimersMatchState
<1> QED BY <1>1, PortInvariant, PTL

\* A slave-only clock is never a master, and one of class below 128 never a slave
\* (bmcStateDecision, doState).
THEOREM RoleFitsClass == Spec => []RoleMatchesClass
<1>1. PortInv => RoleMatchesClass
  BY DEF PortInv, Sound, Admitted, RoleMatchesClass
<1> QED BY <1>1, PortInvariant, PTL

-----------------------------------------------------------------------------
(* The search of bmc.                                                      *)

\* Every set of numbers has a least one.
LEMMA Least ==
  ASSUME NEW T, T \subseteq Nat, T # {}
  PROVE  \E x \in T : \A y \in T : x <= y
<1> DEFINE R == OpToRel(<, Nat)
<1>3. IsWellFoundedOn(R, Nat) BY NatLessThanWellFounded
<1> HIDE DEF R
<1>1. PICK x \in T : \A y \in T : ~ (<<y, x>> \in R)
  BY <1>3, WFMin
<1>2. ASSUME NEW y \in T PROVE x <= y
  <2>1. R = {s \in Nat \X Nat : s[1] < s[2]} BY DEF R, OpToRel
  <2>2. y \in Nat /\ x \in Nat /\ <<y, x>> \in Nat \X Nat OBVIOUS
  <2>3. ~ (<<y, x>>[1] < <<y, x>>[2]) BY <1>1, <2>1, <2>2
  <2> QED BY <2>2, <2>3
<1> QED BY <1>2

\* The search of bmc is defined: from its values up to one entry the next follows.
Search(fm, n, b) ==
  b = [k \in 0 .. n |->
         IF k = 0 THEN 0
         ELSE IF bmcDataSetComparison(fm.records[k], fm.records[b[k - 1]]) < 0
              THEN k ELSE b[k - 1]]

\* The search of the best foreign master has a result after any number of entries.
LEMMA SearchExists ==
  ASSUME NEW fm, NEW n \in Nat PROVE \E b : Search(fm, n, b)
<1> DEFINE T == {k \in Nat : ~ \E b : Search(fm, k, b)}
<1> SUFFICES ASSUME T # {} PROVE FALSE OBVIOUS
<1>1. PICK x \in T : \A y \in T : x <= y
  BY Least
<1>2. x \in Nat /\ ~ \E b : Search(fm, x, b) OBVIOUS
<1>3. CASE x = 0
  <2>1. Search(fm, 0, [k \in 0 .. 0 |-> 0])
    BY DEF Search
  <2> QED BY <1>2, <1>3, <2>1
<1>4. CASE x # 0
  <2>1. x - 1 \in Nat /\ x - 1 \notin T BY <1>1, <1>2, <1>4
  <2>2. PICK b : Search(fm, x - 1, b) BY <2>1
  <2> DEFINE step(f, k) == IF k = 0 THEN 0
         ELSE IF bmcDataSetComparison(fm.records[k], fm.records[f[k - 1]]) < 0
              THEN k ELSE f[k - 1]
             last == step(b, x)
             e == [k \in 0 .. x |-> IF k = x THEN last ELSE b[k]]
  <2>3. b = [k \in 0 .. x - 1 |-> step(b, k)] BY <2>2 DEF Search
  <2>4. ASSUME NEW k \in 0 .. x PROVE e[k] = step(e, k)
    <3>1. k # 0 => e[k - 1] = b[k - 1]
      BY <1>2
    <3>2. step(e, k) = step(b, k) BY <3>1
    <3> HIDE DEF step
    <3>3. CASE k = x BY <3>2, <3>3
    <3>4. CASE k # x
      <4>1. k \in 0 .. x - 1 BY <1>2, <3>4
      <4>2. b[k] = step(b, k) BY <2>3, <4>1
      <4> QED BY <3>2, <3>4, <4>2
    <3> QED BY <3>3, <3>4
  <2>5. e = [k \in 0 .. x |-> step(e, k)] BY <2>4
  <2>6. Search(fm, x, e) BY <2>5 DEF Search
  <2> QED BY <1>2, <2>6
<1> QED BY <1>3, <1>4

\* What it has found after k entries is one of them.
LEMMA SearchRange ==
  ASSUME NEW fm, NEW n \in Nat, NEW b, Search(fm, n, b)
  PROVE  \A k \in 0 .. n : b[k] \in 0 .. k
<1> DEFINE T == {k \in 0 .. n : b[k] \notin 0 .. k}
<1> SUFFICES ASSUME T # {} PROVE FALSE OBVIOUS
<1>1. PICK x \in T : \A y \in T : x <= y
  BY Least, T \subseteq Nat
<1>2. x \in 0 .. n /\ b[x] \notin 0 .. x OBVIOUS
<1>3. b[x] = IF x = 0 THEN 0
             ELSE IF bmcDataSetComparison(fm.records[x], fm.records[b[x - 1]]) < 0
                  THEN x ELSE b[x - 1]
  BY <1>2 DEF Search
<1>4. x # 0 => b[x - 1] \in 0 .. x - 1
  BY <1>1, <1>2
<1> QED BY <1>2, <1>3, <1>4

\* The best foreign master is an entry of the table.
LEMMA BestInTable ==
  ASSUME NEW fm, fm.count \in 0 .. Capacity
  PROVE  bestUpTo(fm) \in 0 .. (IF fm.count > 1 THEN fm.count - 1 ELSE 0)
<1> DEFINE b == CHOOSE b : Search(fm, Capacity - 1, b)
           last == IF fm.count > 1 THEN fm.count - 1 ELSE 0
<1>1. Capacity - 1 \in Nat /\ last \in 0 .. Capacity - 1 BY CapacityAssumption
<1>2. Search(fm, Capacity - 1, b) BY <1>1, SearchExists
<1>3. bestUpTo(fm) = b[last]
  BY DEF bestUpTo, Search, Entries
<1> HIDE DEF b, last
<1>4. b[last] \in 0 .. last BY <1>1, <1>2, SearchRange
<1> QED BY <1>3, <1>4 DEF last

-----------------------------------------------------------------------------
(* What the search of bmc finds.                                           *)

\* Data sets of other clocks that agree on the quality of a grandmaster.
OneQuality(S) == S \subseteq Announces /\ \A A, B \in S : A.gm = B.gm => A.prio = B.prio

\* Among them the comparison is an order by quality, grandmaster, distance and
\* sender, in which only data sets of one sender are equal.
LEMMA Comparison ==
  ASSUME NEW S, OneQuality(S), NEW A \in S, NEW B \in S
  PROVE  /\ bmcDataSetComparison(A, B) \in {-1, 0, 1}
         /\ bmcDataSetComparison(A, B) = -bmcDataSetComparison(B, A)
         /\ A.src # B.src => bmcDataSetComparison(A, B) # 0
         /\ \A C \in S : bmcDataSetComparison(A, B) >= 0 /\ bmcDataSetComparison(B, C) > 0 =>
                          bmcDataSetComparison(A, C) > 0
<1>1. \A a \in S : /\ a.src \in Nat /\ a.gm \in Nat /\ a.prio \in Nat /\ a.steps \in Nat
                  /\ a.src # Own.src
  <2> SUFFICES ASSUME NEW a \in S
               PROVE  /\ a.src \in Nat /\ a.gm \in Nat /\ a.prio \in Nat /\ a.steps \in Nat
                      /\ a.src # Own.src
    OBVIOUS
  <2>1. a \in Announces /\ a \in DataSet BY DataSetAssumption DEF OneQuality
  <2>2. a.src \in Masters BY <2>1 DEF Masters
  <2> QED BY <2>1, <2>2, DataSetAssumption DEF DataSet
<1>2. \A a, b \in S : a.gm = b.gm => a.prio = b.prio BY DEF OneQuality
<1>3. /\ bmcDataSetComparison(A, B) \in {-1, 0, 1}
      /\ bmcDataSetComparison(A, B) = -bmcDataSetComparison(B, A)
      /\ A.src # B.src => bmcDataSetComparison(A, B) # 0
  BY <1>1, SMT DEF bmcDataSetComparison, CompareWays, Compare
<1>4. ASSUME NEW C \in S, bmcDataSetComparison(A, B) >= 0, bmcDataSetComparison(B, C) > 0
      PROVE  bmcDataSetComparison(A, C) > 0
  BY <1>1, <1>2, <1>4, SMT DEF bmcDataSetComparison, CompareWays, Compare
<1> QED BY <1>3, <1>4

\* bmc.c:421-432: the search for the best foreign master ends at the worst one.  As long
\* as the records agree on the quality of a grandmaster, no record compares as less than
\* the chosen one, and those of all other senders compare as better.
THEOREM WorstIsChosen ==
  ASSUME NEW fm, fm.count \in 1 .. Capacity,
         OneQuality({fm.records[k] : k \in 0 .. fm.count - 1}),
         NEW j \in 0 .. fm.count - 1
  PROVE  LET chosen == fm.records[bestUpTo(fm)]
         IN  /\ bmcDataSetComparison(fm.records[j], chosen) >= 0
             /\ fm.records[j].src # chosen.src => bmcDataSetComparison(fm.records[j], chosen) = 1
<1> DEFINE S == {fm.records[k] : k \in 0 .. fm.count - 1}
           cmp(A, B) == bmcDataSetComparison(A, B)
           b == CHOOSE b : Search(fm, Capacity - 1, b)
           last == fm.count - 1
<1>1. /\ Capacity - 1 \in Nat /\ last \in 0 .. Capacity - 1
      /\ (IF fm.count > 1 THEN fm.count - 1 ELSE 0) = last
  BY CapacityAssumption
<1>2. Search(fm, Capacity - 1, b) BY <1>1, SearchExists
<1>3. bestUpTo(fm) = b[last]
  BY <1>1 DEF bestUpTo, Search, Entries
<1> HIDE DEF b
<1>4. \A k \in 0 .. last : b[k] \in 0 .. k
  <2>1. \A k \in 0 .. Capacity - 1 : b[k] \in 0 .. k BY <1>1, <1>2, SearchRange, Zenon
  <2> QED BY <1>1, <2>1
<1>5. /\ b[0] = 0
      /\ \A k \in 1 .. last : b[k] = IF cmp(fm.records[k], fm.records[b[k - 1]]) < 0
                                    THEN k ELSE b[k - 1]
  BY <1>1, <1>2 DEF Search
<1>6. \A k \in 0 .. last : fm.records[k] \in S BY Zenon
<1> HIDE DEF S, cmp
<1>7. /\ \A A, B \in S : cmp(A, B) \in {-1, 0, 1}
      /\ \A A, B \in S : cmp(A, B) = -cmp(B, A)
      /\ \A A, B \in S : A.src # B.src => cmp(A, B) # 0
      /\ \A A, B, C \in S : cmp(A, B) >= 0 /\ cmp(B, C) > 0 => cmp(A, C) > 0
  <2>1. OneQuality(S) BY Zenon DEF S
  <2>2. \A A, B \in S :
          /\ cmp(A, B) \in {-1, 0, 1}
          /\ cmp(A, B) = -cmp(B, A)
          /\ A.src # B.src => cmp(A, B) # 0
          /\ \A C \in S : cmp(A, B) >= 0 /\ cmp(B, C) > 0 => cmp(A, C) > 0
    BY <2>1, Comparison, Zenon DEF cmp
  <2> QED BY <2>2, Zenon
<1> DEFINE Worst(k) == \A i \in 0 .. k : cmp(fm.records[i], fm.records[b[k]]) >= 0
           T == {k \in 0 .. last : ~Worst(k)}
<1>8. Worst(last)
  <2> SUFFICES ASSUME T # {} PROVE FALSE BY <1>1
  <2>1. PICK x \in T : \A y \in T : x <= y
    BY Least, T \subseteq Nat
  <2>2. x \in 0 .. last /\ ~Worst(x) OBVIOUS
  <2>3. ASSUME NEW A \in S PROVE cmp(A, A) = 0
    <3>1. cmp(A, A) = -cmp(A, A) /\ cmp(A, A) \in {-1, 0, 1} BY <1>7, Zenon
    <3> QED BY <3>1
  <2>4. PICK i \in 0 .. x : ~(cmp(fm.records[i], fm.records[b[x]]) >= 0) BY <2>2
  <2>5. fm.records[i] \in S /\ fm.records[x] \in S BY <1>6, <2>2, <2>4
  <2>6. CASE x = 0
    <3>1. i = 0 /\ b[x] = 0 BY <1>5, <2>4, <2>6
    <3> QED BY <2>3, <2>4, <2>5, <2>6, <3>1
  <2>7. CASE x # 0
    <3> HIDE DEF Worst
    <3>1. x - 1 \in 0 .. last /\ x \in 1 .. last /\ x - 1 \notin T BY <2>1, <2>2, <2>7
    <3>2. Worst(x - 1) BY <3>1
    <3> DEFINE rx == fm.records[x]
               rb == fm.records[b[x - 1]]
    <3>3. rb \in S BY <1>4, <1>6, <3>1
    <3>4. b[x] = IF cmp(rx, rb) < 0 THEN x ELSE b[x - 1] BY <1>5, <3>1
    <3>5. cmp(rx, rb) \in {-1, 0, 1} /\ cmp(rb, rx) = -cmp(rx, rb) BY <1>7, <2>5, <3>3, Zenon
    <3>6. CASE i = x
      BY <2>3, <2>4, <2>5, <3>4, <3>5, <3>6
    <3>7. CASE i # x
      <4>1. cmp(fm.records[i], rb) >= 0
        <5>1. i \in 0 .. x - 1 BY <2>2, <2>4, <3>7
        <5> QED BY <3>2, <5>1 DEF Worst
      <4>2. CASE cmp(rx, rb) < 0
        <5>1. cmp(rb, rx) > 0 BY <3>5, <4>2
        <5>2. cmp(fm.records[i], rx) > 0 BY <1>7, <2>5, <3>3, <4>1, <5>1, Zenon
        <5>3. cmp(fm.records[i], rx) \in {-1, 0, 1} BY <1>7, <2>5, Zenon
        <5>4. b[x] = x BY <3>4, <4>2
        <5>5. ~(cmp(fm.records[i], rx) >= 0) BY <2>4, <5>4, Zenon
        <5> HIDE DEF rx
        <5> QED BY <5>2, <5>3, <5>5
      <4>3. CASE ~(cmp(rx, rb) < 0)
        <5>1. b[x] = b[x - 1] BY <3>4, <4>3
        <5> QED BY <2>4, <4>1, <5>1, Zenon
      <4> QED BY <4>2, <4>3
    <3> QED BY <3>6, <3>7
  <2> QED BY <2>6, <2>7
<1>9. b[last] \in 0 .. last /\ j \in 0 .. last BY <1>1, <1>4
<1>10. cmp(fm.records[j], fm.records[b[last]]) >= 0 BY <1>8, <1>9
<1>11. /\ cmp(fm.records[j], fm.records[b[last]]) \in {-1, 0, 1}
       /\ fm.records[j].src # fm.records[b[last]].src =>
             cmp(fm.records[j], fm.records[b[last]]) # 0
  <2>1. fm.records[j] \in S /\ fm.records[b[last]] \in S BY <1>6, <1>9
  <2> QED BY <1>7, <2>1, Zenon
<1> DEFINE chosen == fm.records[b[last]]
           v == cmp(fm.records[j], chosen)
<1>12. v \in {-1, 0, 1} /\ v >= 0 /\ (fm.records[j].src # chosen.src => v # 0)
  BY <1>10, <1>11
<1> HIDE DEF v, chosen
<1>13. v >= 0 /\ (fm.records[j].src # chosen.src => v = 1) BY <1>12
<1> QED BY <1>3, <1>13, Zenon DEF cmp, v, chosen

-----------------------------------------------------------------------------
(* The data of the port: the table of foreign masters, the parent and the  *)
(* state that is recommended.                                              *)

Slaves  == {"UNCALIBRATED", "SLAVE"}
Senders == {"PRE_MASTER", "MASTER"}

\* The records are written from the first one on: the blank ones are at the end,
\* and `count', which is reset alone, never passes `i' while there are any.
Filled(fm) ==
  (\E j \in Entries : fm.records[j] = Blank) =>
     /\ fm.count <= fm.i
     /\ \A j \in Entries : fm.records[j] = Blank => j >= fm.i

\* Nothing is decided, and nobody followed, before somebody was heard.
Heard(d) ==
  \/ "STATE_DECISION" \in d.events
  \/ d.recommended = "SLAVE" \/ d.portState \in Slaves
  => d.fm.records[0] \in Announces

\* The parent goes with the state that is recommended ...
Linked(d) ==
  /\ d.recommended = "SLAVE"  => d.parent \in Announces
  /\ d.recommended = "MASTER" => d.parent = Own

\* ... and there is one from the first successful doInit on ...
Begun(d) ==
  d.parent = Blank =>
    d.recommended = "INITIALIZING" /\ d.portState \in {"INITIALIZING", "FAULTY"}

\* ... and the state of the port goes with it once doState has moved.
Placed(d) ==
  /\ d.portState \in Slaves  => d.recommended = "SLAVE"
  /\ d.portState \in Senders => d.recommended = "MASTER"

Data(d)  == d \in ClockType /\ Filled(d.fm) /\ Heard(d) /\ Linked(d) /\ Begun(d)
Whole(d) == Data(d) /\ Placed(d)

DataInv == Whole(c) /\ pc \in {"idle", "run"} /\ arrived \in 0 .. MaxMessages

\* A step that moves none of this.
Keeps(d, e) ==
  /\ e \in ClockType
  /\ e.portState = d.portState /\ e.recommended = d.recommended
  /\ e.fm = d.fm /\ e.parent = d.parent
  /\ "STATE_DECISION" \in e.events => "STATE_DECISION" \in d.events

\* A step that changes no data set leaves the data sets whole.
LEMMA KeepsData ==
  ASSUME NEW d, NEW e, Keeps(d, e)
  PROVE  (Data(d) => Data(e)) /\ (Whole(d) => Whole(e))
BY DEF Keeps, Data, Whole, Heard, Linked, Begun, Placed

\* A record that was written differs from one that was not.
LEMMA Written == Blank \notin Announces \cup {Own}
  BY DataSetAssumption DEF Blank, Masters

\* Two such steps make one.
LEMMA KeepsTwice ==
  ASSUME NEW d, NEW e, NEW f, Keeps(d, e), Keeps(e, f) PROVE Keeps(d, f)
BY DEF Keeps

\* The helpers of the timers, and initClock, change no data set.
LEMMA HelpersKeep ==
  ASSUME NEW d \in ClockType, NEW S
  PROVE  /\ Keeps(d, timerUpdate(d, S)) /\ Keeps(d, Cleared(d, S))
         /\ Keeps(d, timerStop(d, S)) /\ Keeps(d, initClock(d))
         /\ S \subseteq Timers => Keeps(d, timerStart(d, S))
<1>1. Keeps(d, timerUpdate(d, S))
  <2> DEFINE more == d.expire \cup (d.running \cap (S \cup {"QUALIFICATION"}))
             e == [d EXCEPT !.elapsed = FALSE, !.expire = more]
  <2>1. more \in SUBSET Timers BY DEF ClockType
  <2>2. timerUpdate(d, S) = IF d.elapsed THEN e ELSE d BY DEF timerUpdate
  <2> HIDE DEF more
  <2>3. e \in ClockType BY <2>1 DEF ClockType
  <2> QED BY <2>2, <2>3 DEF Keeps, ClockType
<1>2. Keeps(d, Cleared(d, S))
  <2>1. d.expire \ S \in SUBSET Timers BY DEF ClockType
  <2> QED BY <2>1 DEF Cleared, Keeps, ClockType
<1>3. Keeps(d, timerStop(d, S))
  <2>1. d.running \ S \in SUBSET Timers BY DEF ClockType
  <2> QED BY <2>1 DEF timerStop, Keeps, ClockType
<1>4. Keeps(d, initClock(d))
  <2>1. <<>> \in Seq(EventMsg) OBVIOUS
  <2> QED BY <2>1 DEF initClock, Keeps, ClockType
<1>5. ASSUME S \subseteq Timers PROVE Keeps(d, timerStart(d, S))
  <2>1. d.running \cup S \in SUBSET Timers /\ d.expire \ S \in SUBSET Timers
    BY <1>5 DEF ClockType
  <2> QED BY <2>1 DEF timerStart, Keeps, ClockType
<1> QED BY <1>1, <1>2, <1>3, <1>4, <1>5

\* Leaving a state changes no data set.
LEMMA LeavingKeeps ==
  ASSUME NEW d \in ClockType, NEW state PROVE Keeps(d, leave(d, state))
<1>1. Keeps(d, d) BY DEF Keeps
<1>2. ASSUME NEW T PROVE /\ Keeps(d, timerStop(initClock(d), T))
                         /\ Keeps(d, initClock(timerStop(d, T)))
  <2>1. Keeps(d, initClock(d)) /\ Keeps(d, timerStop(d, T)) BY HelpersKeep
  <2>2. initClock(d) \in ClockType /\ timerStop(d, T) \in ClockType BY <2>1 DEF Keeps
  <2>3. /\ Keeps(initClock(d), timerStop(initClock(d), T))
        /\ Keeps(timerStop(d, T), initClock(timerStop(d, T)))
    BY <2>2, HelpersKeep
  <2> QED BY <2>1, <2>3, KeepsTwice
<1> QED BY <1>1, <1>2 DEF leave

\* toState sets the state and the recommendation, and changes no data set.
LEMMA Moves ==
  ASSUME NEW d \in ClockType, NEW state \in States
  PROVE  /\ toState(d, state) \in ClockType
         /\ toState(d, state).portState = state
         /\ toState(d, state).recommended = IF state \in {"INITIALIZING", "LISTENING"}
                                            THEN state ELSE d.recommended
         /\ toState(d, state).fm = d.fm /\ toState(d, state).parent = d.parent
         /\ "STATE_DECISION" \in toState(d, state).events => "STATE_DECISION" \in d.events
<1> DEFINE l == leave(d, state)
           t == timerStart(l, started(state))
           next == IF state \in {"INITIALIZING", "LISTENING"} THEN state
                   ELSE t.recommended
<1>1. Keeps(d, l) BY LeavingKeeps
<1> HIDE DEF l
<1>2. l \in ClockType BY <1>1 DEF Keeps
<1>3. started(state) \subseteq Timers BY DEF started, Timers
<1>4. Keeps(l, t) BY <1>2, <1>3, HelpersKeep
<1>5. toState(d, state) = [t EXCEPT !.portState = state, !.recommended = next]
  BY DEF toState, t, l
<1> HIDE DEF t
<1>6. Keeps(d, t) /\ t \in ClockType BY <1>1, <1>4, KeepsTwice DEF Keeps
<1>7. next \in States BY <1>6 DEF ClockType
<1>8. next = IF state \in {"INITIALIZING", "LISTENING"} THEN state ELSE d.recommended
  BY <1>6 DEF Keeps
<1> HIDE DEF next
<1>9. toState(d, state) \in ClockType BY <1>5, <1>6, <1>7 DEF ClockType
<1>10. /\ toState(d, state).portState = state
       /\ toState(d, state).recommended = next
       /\ toState(d, state).fm = t.fm /\ toState(d, state).parent = t.parent
       /\ toState(d, state).events = t.events
  BY <1>5, <1>6 DEF ClockType
<1> QED BY <1>6, <1>8, <1>9, <1>10 DEF Keeps

\* A move is sound when the recommended state asks for it ...
LEMMA MovesWhole ==
  ASSUME NEW d, Data(d), NEW state \in States,
         state \in Slaves => d.recommended = "SLAVE",
         state \in Senders => d.recommended = "MASTER",
         state = "FAULTY" \/ d.recommended # "INITIALIZING"
  PROVE  Whole(toState(d, state))
<1> DEFINE r == toState(d, state)
<1>1. /\ d \in ClockType /\ Filled(d.fm) /\ Heard(d) /\ Linked(d) /\ Begun(d)
  BY DEF Data
<1>2. /\ r \in ClockType /\ r.portState = state
      /\ r.recommended = IF state \in {"INITIALIZING", "LISTENING"}
                         THEN state ELSE d.recommended
      /\ r.fm = d.fm /\ r.parent = d.parent
      /\ "STATE_DECISION" \in r.events => "STATE_DECISION" \in d.events
  BY <1>1, Moves
<1> HIDE DEF r
<1>3. Heard(r) /\ Linked(r) /\ Begun(r) /\ Placed(r)
  BY <1>1, <1>2 DEF Heard, Linked, Begun, Placed, Slaves, Senders
<1> QED BY <1>1, <1>2, <1>3 DEF Whole, Data, r

\* ... or when it starts over, whoever the parent was, if there was one.
LEMMA StartsOver ==
  ASSUME NEW d \in ClockType, Filled(d.fm), Heard(d),
         NEW state \in {"INITIALIZING", "LISTENING"},
         state = "INITIALIZING" \/ d.parent # Blank
  PROVE  Whole(toState(d, state))
<1> DEFINE r == toState(d, state)
<1>1. state \in States BY DEF States
<1>2. /\ r \in ClockType /\ r.portState = state /\ r.recommended = state
      /\ r.fm = d.fm /\ r.parent = d.parent
      /\ "STATE_DECISION" \in r.events => "STATE_DECISION" \in d.events
  BY <1>1, Moves
<1> HIDE DEF r
<1>3. Heard(r) /\ Linked(r) /\ Begun(r) /\ Placed(r)
  BY <1>2 DEF Heard, Linked, Begun, Placed, Slaves, Senders
<1> QED BY <1>2, <1>3 DEF Whole, Data, r

-----------------------------------------------------------------------------
(* The table of foreign masters.                                           *)

\* The table of foreign masters has a first entry.
LEMMA FirstEntry == 0 \in Entries /\ Capacity \in Nat \ {0}
  BY CapacityAssumption DEF Entries

\* A foreign master that is found was recorded.
LEMMA KnownEntries ==
  ASSUME NEW fm \in ForeignType, NEW src, NEW k \in Known(fm, src)
  PROVE  fm.count > 0 /\ Looked(fm, k) \in Entries
<1>1. /\ fm.count \in 0 .. Capacity /\ fm.best \in Entries
      /\ k \in 0 .. fm.count - 1
  BY DEF ForeignType, Known
<1>2. fm.count > 0 /\ fm.count \in Nat \ {0} BY <1>1, FirstEntry
<1>3. CASE k = 0 BY <1>1, <1>2, <1>3 DEF Looked
<1>4. CASE k # 0
  <2>1. fm.best + k \in Int BY <1>1, FirstEntry DEF Entries
  <2>2. (fm.best + k) % fm.count \in 0 .. fm.count - 1
    BY <1>2, <2>1
  <2> QED BY <1>1, <1>2, <1>4, <2>2, FirstEntry DEF Looked, Entries
<1> QED BY <1>3, <1>4

\* Whoever is heard first is in the first record: a message refreshes a record
\* or takes the next blank one, until there is none.
LEMMA TableGrows ==
  ASSUME NEW fm \in ForeignType, Filled(fm), NEW ds \in Announces
  PROVE  /\ addForeign(fm, ds) \in ForeignType
         /\ Filled(addForeign(fm, ds))
         /\ addForeign(fm, ds).records[0] \in Announces
<1>1. /\ fm.records \in [Entries -> Announces \cup {Blank}]
      /\ fm.count \in 0 .. Capacity /\ fm.i \in Entries /\ fm.best \in Entries
  BY DEF ForeignType
<1>2. Blank \notin Announces BY Written
<1>3. CASE \E k \in Known(fm, ds.src) : TRUE
  <2> DEFINE k == CHOOSE k \in Known(fm, ds.src) : \A l \in Known(fm, ds.src) : k <= l
             j == Looked(fm, k)
  <2>1. k \in Known(fm, ds.src)
    <3>1. Known(fm, ds.src) # {} /\ Known(fm, ds.src) \subseteq Nat
      BY <1>1, <1>3, FirstEntry DEF Known
    <3>2. \E x \in Known(fm, ds.src) : \A l \in Known(fm, ds.src) : x <= l
      BY <3>1, Least
    <3> QED BY <3>2
  <2>2. addForeign(fm, ds) = [fm EXCEPT !.records[j] = ds]
    BY <1>3 DEF addForeign
  <2>3. fm.count > 0 /\ j \in Entries BY <2>1, KnownEntries
  <2> HIDE DEF k, j
  <2> DEFINE g == addForeign(fm, ds)
  <2>4. /\ g.records = [fm.records EXCEPT ![j] = ds]
        /\ g.count = fm.count /\ g.i = fm.i /\ g \in ForeignType
    <3>1. g = [fm EXCEPT !.records = [fm.records EXCEPT ![j] = ds]] BY <2>2
    <3>2. [fm.records EXCEPT ![j] = ds] \in [Entries -> Announces \cup {Blank}]
      BY <1>1, <2>3
    <3> QED BY <3>1, <3>2 DEF ForeignType
  <2> HIDE DEF g
  <2>5. \A l \in Entries : g.records[l] = Blank => fm.records[l] = Blank
    BY <1>1, <1>2, <2>3, <2>4
  <2>6. Filled(g) BY <2>4, <2>5 DEF Filled
  <2>7. g.records[0] \in Announces
    <3>1. CASE g.records[0] = Blank
      <4>1. fm.count <= fm.i /\ 0 >= fm.i
        BY <2>5, <3>1, FirstEntry DEF Filled
      <4> QED BY <1>1, <2>3, <4>1, FirstEntry DEF Entries
    <3>2. CASE g.records[0] # Blank
      BY <2>4, <3>2, FirstEntry DEF ForeignType
    <3> QED BY <3>1, <3>2
  <2> QED BY <2>4, <2>6, <2>7 DEF g
<1>4. CASE ~ \E k \in Known(fm, ds.src) : TRUE
  <2> DEFINE more == IF fm.count < Capacity THEN fm.count + 1 ELSE fm.count
             next == (fm.i + 1) % Capacity
             g == addForeign(fm, ds)
  <2>1. g = [fm EXCEPT !.records[fm.i] = ds, !.count = more, !.i = next]
    BY <1>4 DEF addForeign
  <2>2. more \in 0 .. Capacity /\ more <= fm.count + 1 BY <1>1, FirstEntry
  <2>3. next = (IF fm.i + 1 = Capacity THEN 0 ELSE fm.i + 1) /\ next \in Entries
    <3>1. fm.i \in 0 .. Capacity - 1 BY <1>1 DEF Entries
    <3>2. CASE fm.i + 1 = Capacity
      <4>1. Capacity % Capacity = 0 BY FirstEntry
      <4> QED BY <3>2, <4>1, FirstEntry
    <3>3. CASE fm.i + 1 # Capacity
      <4>1. fm.i + 1 \in 0 .. Capacity - 1 BY <3>1, <3>3, FirstEntry
      <4>2. (fm.i + 1) % Capacity = fm.i + 1 BY <4>1, FirstEntry
      <4> QED BY <3>3, <4>1, <4>2 DEF Entries
    <3> QED BY <3>2, <3>3
  <2> HIDE DEF more, next, g
  <2>4. /\ g.records = [fm.records EXCEPT ![fm.i] = ds]
        /\ g.count = more /\ g.i = next /\ g \in ForeignType
    <3>1. g = [fm EXCEPT !.records = [fm.records EXCEPT ![fm.i] = ds],
                         !.count = more, !.i = next]
      BY <2>1
    <3>2. [fm.records EXCEPT ![fm.i] = ds] \in [Entries -> Announces \cup {Blank}]
      BY <1>1
    <3> QED BY <2>2, <2>3, <3>1, <3>2 DEF ForeignType
  <2>5. \A l \in Entries : g.records[l] = Blank => fm.records[l] = Blank /\ l # fm.i
    BY <1>1, <1>2, <2>4
  <2>6. ASSUME NEW l \in Entries, g.records[l] = Blank
        PROVE  l >= fm.i + 1 /\ fm.count <= fm.i /\ fm.i + 1 < Capacity
    <3>1. fm.count <= fm.i /\ l >= fm.i /\ l # fm.i
      BY <2>5, <2>6 DEF Filled
    <3> QED BY <1>1, <3>1, FirstEntry DEF Entries
  <2>7. Filled(g)
    BY <1>1, <2>2, <2>3, <2>4, <2>6, FirstEntry DEF Filled, Entries
  <2>8. g.records[0] \in Announces
    <3>1. g.records[0] # Blank
      BY <1>1, <2>6, FirstEntry DEF Entries
    <3> QED BY <2>4, <3>1, FirstEntry DEF ForeignType
  <2> QED BY <2>4, <2>7, <2>8 DEF g
<1> QED BY <1>3, <1>4

-----------------------------------------------------------------------------
(* The messages.                                                           *)

\* handleAnnounce leaves the data sets whole, also when the table is full.
LEMMA AnnounceWhole ==
  ASSUME NEW d, Whole(d), NEW ds \in Announces
  PROVE  /\ Whole(handleAnnounce(d, ds))
         /\ d.parent # Blank => handleAnnounce(d, ds).parent # Blank
<1> DEFINE more == d.events \cup {"STATE_DECISION"}
           e == [d EXCEPT !.events = more]
           table == addForeign(e.fm, ds)
           g == [e EXCEPT !.fm = table]
           s == s1(e, ds)
<1>1. /\ d \in ClockType /\ Filled(d.fm) /\ Heard(d) /\ Linked(d) /\ Begun(d)
      /\ Placed(d)
  BY DEF Whole, Data
<1>2. /\ e \in ClockType /\ e.portState = d.portState
      /\ e.recommended = d.recommended /\ e.fm = d.fm /\ e.parent = d.parent
  <2>1. more \in SUBSET Events BY <1>1 DEF ClockType, Events
  <2> HIDE DEF more
  <2> QED BY <1>1, <2>1 DEF ClockType
<1>3. handleAnnounce(d, ds) =
        CASE d.portState \in {"INITIALIZING", "FAULTY"} -> d
          [] d.portState \in {"UNCALIBRATED", "SLAVE"} /\ d.parent.src = ds.src ->
               timerStart(s, {"RECEIPT"})
          [] d.portState = "PASSIVE" -> timerStart(g, {"RECEIPT"})
          [] OTHER -> g
  BY DEF handleAnnounce
<1> HIDE DEF e
<1>4. /\ table \in ForeignType /\ Filled(table) /\ table.records[0] \in Announces
  BY <1>1, <1>2, TableGrows DEF ClockType
<1> HIDE DEF table
<1>5. /\ g \in ClockType /\ g.portState = d.portState
      /\ g.recommended = d.recommended /\ g.fm = table /\ g.parent = d.parent
  BY <1>2, <1>4 DEF ClockType
<1> HIDE DEF g
<1>6. Whole(g)
  BY <1>1, <1>4, <1>5 DEF Whole, Data, Heard, Linked, Begun, Placed
<1>7. ASSUME d.portState \in Slaves PROVE Whole(s) /\ s.parent # Blank
  <2> DEFINE ev == IF e.parent.src = ds.src THEN e.events
                   ELSE e.events \cup {"MASTER_CHANGED"}
  <2>1. s = [e EXCEPT !.parent = ds, !.events = ev] BY DEF s1
  <2>2. ev \in SUBSET Events BY <1>2 DEF ClockType, Events
  <2>3. ds \in Announces \cup {Own, Blank} OBVIOUS
  <2> HIDE DEF ev, s
  <2>4. /\ s \in ClockType /\ s.portState = d.portState
        /\ s.recommended = d.recommended /\ s.fm = d.fm /\ s.parent = ds
    BY <1>2, <2>1, <2>2, <2>3 DEF ClockType
  <2>5. d.recommended = "SLAVE" /\ d.fm.records[0] \in Announces
    BY <1>1, <1>7 DEF Placed, Heard
  <2>6. ds # Blank BY Written
  <2> QED BY <1>1, <2>4, <2>5, <2>6 DEF Whole, Data, Heard, Linked, Begun, Placed
<1> HIDE DEF s
<1>8. ASSUME NEW f, Whole(f)
      PROVE  /\ Whole(timerStart(f, {"RECEIPT"}))
             /\ timerStart(f, {"RECEIPT"}).parent = f.parent
  <2>1. f \in ClockType BY <1>8 DEF Whole, Data
  <2>2. Keeps(f, timerStart(f, {"RECEIPT"}))
    BY <2>1, HelpersKeep, {"RECEIPT"} \subseteq Timers DEF Timers
  <2> QED BY <1>8, <2>2, KeepsData DEF Keeps
<1>9. d.portState \in {"UNCALIBRATED", "SLAVE"} =>
        Whole(timerStart(s, {"RECEIPT"})) /\ timerStart(s, {"RECEIPT"}).parent # Blank
  BY <1>7, <1>8 DEF Slaves
<1>10. /\ Whole(timerStart(g, {"RECEIPT"}))
       /\ timerStart(g, {"RECEIPT"}).parent = d.parent
  BY <1>5, <1>6, <1>8
<1> QED BY <1>3, <1>5, <1>6, <1>9, <1>10

\* updateOffset changes no data set.
LEMMA OffsetKeeps ==
  ASSUME NEW d \in ClockType, NEW offset PROVE Keeps(d, updateOffset(d, offset))
<1> DEFINE found == CASE d.portState = "UNCALIBRATED" /\ offset = "close" -> {"MASTER_SELECTED"}
                      [] d.portState = "SLAVE" /\ offset # "close" -> {"SYNC_FAULT"}
                      [] OTHER -> {}
           more == d.events \cup found
           e == [d EXCEPT !.waitingForFollowUp = FALSE, !.events = more]
<1>1. updateOffset(d, offset) = IF offset = "huge" THEN initClock(e) ELSE e
  BY DEF updateOffset
<1>2. found \subseteq Events /\ "STATE_DECISION" \notin found BY DEF Events
<1> HIDE DEF found
<1>3. more \in SUBSET Events
      /\ ("STATE_DECISION" \in more => "STATE_DECISION" \in d.events)
  BY <1>2 DEF ClockType
<1> HIDE DEF more
<1>4. e \in ClockType /\ Keeps(d, e) BY <1>3 DEF Keeps, ClockType
<1> HIDE DEF e
<1>5. Keeps(e, initClock(e)) BY <1>4, HelpersKeep
<1> QED BY <1>1, <1>4, <1>5, KeepsTwice

\* handleSync and handleFollowUp change no data set.
LEMMA SyncKeeps ==
  ASSUME NEW d \in ClockType, NEW m, NEW offset
  PROVE  /\ m.seq \in SeqIds => Keeps(d, handleSync(d, m, offset))
         /\ Keeps(d, handleFollowUp(d, m, offset))
<1>1. Keeps(d, d) BY DEF Keeps
<1>2. m.seq \in SeqIds => Keeps(d, [d EXCEPT !.waitingForFollowUp = TRUE, !.recvSync = m.seq])
  BY DEF Keeps, ClockType
<1>3. Keeps(d, updateOffset(d, offset)) BY OffsetKeeps
<1>4. m.seq \in SeqIds => Keeps(d, handleSync(d, m, offset))
  BY <1>1, <1>2, <1>3 DEF handleSync
<1>5. Keeps(d, handleFollowUp(d, m, offset)) BY <1>1, <1>3 DEF handleFollowUp
<1> QED BY <1>4, <1>5

\* handle leaves the data sets whole, whichever message it takes.
LEMMA HandledWhole ==
  ASSUME NEW d, Whole(d), NEW offset
  PROVE  /\ Whole(handle(d, offset))
         /\ d.parent # Blank => handle(d, offset).parent # Blank
<1> DEFINE Good(e) == Whole(e) /\ (d.parent # Blank => e.parent # Blank)
           m == Head(d.generalQ)
           n == Head(d.eventQ)
           g == [d EXCEPT !.generalQ = Tail(@)]
           s == [d EXCEPT !.eventQ = Tail(@)]
<1>1. d \in ClockType /\ d.eventQ \in Seq(EventMsg) /\ d.generalQ \in Seq(GeneralMsg)
  BY DEF Whole, Data, ClockType
<1>2. handle(d, offset) =
        IF d.eventQ # <<>>
        THEN IF n.kind = "sync" THEN handleSync(s, n, offset) ELSE toState(s, "FAULTY")
        ELSE IF d.generalQ = <<>> THEN d
        ELSE CASE m.kind = "announce" -> handleAnnounce(g, m.ds)
               [] m.kind = "follow"   -> handleFollowUp(g, m, offset)
               [] OTHER               -> toState(g, "FAULTY")
  BY DEF handle
<1>3. ASSUME NEW e, Keeps(d, e) PROVE Good(e) /\ Good(toState(e, "FAULTY"))
  <2>1. Whole(e) /\ e \in ClockType /\ e.parent = d.parent BY <1>3, KeepsData DEF Keeps
  <2>2. /\ "FAULTY" \in States /\ "FAULTY" \notin Slaves /\ "FAULTY" \notin Senders
    BY DEF States, Slaves, Senders
  <2>3. Whole(toState(e, "FAULTY")) BY <2>1, <2>2, MovesWhole DEF Whole
  <2>4. toState(e, "FAULTY").parent = d.parent BY <2>1, <2>2, Moves
  <2> QED BY <2>1, <2>3, <2>4
<1>4. ASSUME d.eventQ # <<>>
      PROVE  /\ n.kind = "sync" => Good(handleSync(s, n, offset))
             /\ Good(toState(s, "FAULTY"))
  <2>1. n \in EventMsg /\ Tail(d.eventQ) \in Seq(EventMsg) BY <1>1, <1>4
  <2>2. n.kind = "sync" => n.seq \in SeqIds BY <2>1 DEF EventMsg
  <2>3. Keeps(d, s) /\ s \in ClockType BY <1>1, <2>1 DEF Keeps, ClockType
  <2> HIDE DEF n, s, Good
  <2>4. n.kind = "sync" => Keeps(s, handleSync(s, n, offset)) BY <2>2, <2>3, SyncKeeps
  <2> QED BY <1>3, <2>3, <2>4, KeepsTwice
<1>5. ASSUME d.generalQ # <<>>
      PROVE  /\ m.kind = "announce" => Good(handleAnnounce(g, m.ds))
             /\ Good(handleFollowUp(g, m, offset)) /\ Good(toState(g, "FAULTY"))
  <2>1. m \in GeneralMsg /\ Tail(d.generalQ) \in Seq(GeneralMsg) BY <1>1, <1>5
  <2>2. m.kind = "announce" => m.ds \in Announces BY <2>1 DEF GeneralMsg
  <2>3. Keeps(d, g) /\ g \in ClockType BY <1>1, <2>1 DEF Keeps, ClockType
  <2> HIDE DEF m, g
  <2>4. Whole(g) /\ g.parent = d.parent BY <2>3, KeepsData DEF Keeps
  <2>5. Keeps(g, handleFollowUp(g, m, offset)) BY <2>3, SyncKeeps
  <2>6. Keeps(d, handleFollowUp(g, m, offset)) BY <2>3, <2>5, KeepsTwice
  <2>7. m.kind = "announce" => Good(handleAnnounce(g, m.ds)) BY <2>2, <2>4, AnnounceWhole
  <2> HIDE DEF Good
  <2> QED BY <1>3, <2>3, <2>6, <2>7
<1>6. Good(d) OBVIOUS
<1> HIDE DEF m, n, g, s, Good
<1>7. Good(handle(d, offset)) BY <1>2, <1>4, <1>5, <1>6
<1> QED BY <1>7 DEF Good

-----------------------------------------------------------------------------
(* doState.                                                                *)

Decisions == {"LISTENING", "MASTER", "PASSIVE", "SLAVE"}

\* A decision is about a clock that was heard: the best record is in use, or is
\* the first one.
LEMMA DecidedData ==
  ASSUME class \in Classes, NEW d, Whole(d), "STATE_DECISION" \in d.events,
         d.portState \notin {"INITIALIZING", "FAULTY"}
  PROVE  Data(decide(d)) /\ decide(d).recommended \in Decisions
<1> DEFINE best  == bestUpTo(d.fm)
           ds    == d.fm.records[best]
           state == stateDecision(class, d.portState, d.fm, ds)
           rec   == recommend(class, state)
           fewer == d.events \ {"STATE_DECISION"}
           table == [d.fm EXCEPT !.best = best]
           f == [d EXCEPT !.events = fewer, !.fm = table, !.recommended = rec]
<1>1. decide(d) = IF state = "MASTER" THEN m1(f)
                  ELSE IF state = "SLAVE" THEN s1(f, ds) ELSE f
  BY DEF decide
<1>2. d \in ClockType /\ d.fm \in ForeignType /\ Filled(d.fm)
      /\ d.fm.records[0] \in Announces /\ d.parent # Blank
  BY DEF Whole, Data, ClockType, Heard, Begun
<1>3. best \in 0 .. (IF d.fm.count > 1 THEN d.fm.count - 1 ELSE 0) /\ best \in Entries
  <2>1. d.fm.count \in 0 .. Capacity BY <1>2 DEF ForeignType
  <2> HIDE DEF best
  <2>2. best \in 0 .. (IF d.fm.count > 1 THEN d.fm.count - 1 ELSE 0)
    BY <2>1, BestInTable DEF best
  <2> QED BY <2>1, <2>2, FirstEntry DEF Entries
<1> HIDE DEF best
<1>4. ds \in Announces
  <2>1. CASE best = 0 BY <1>2, <2>1
  <2>2. CASE best # 0 /\ ds = Blank
    <3>1. d.fm.count <= d.fm.i /\ best >= d.fm.i BY <1>2, <1>3, <2>2 DEF Filled
    <3>2. d.fm.count \in Nat /\ d.fm.i \in Int BY <1>2, FirstEntry DEF ForeignType, Entries
    <3> QED BY <1>3, <2>2, <3>1, <3>2, FirstEntry DEF Entries
  <2> QED BY <1>2, <1>3, <2>1, <2>2 DEF ForeignType
<1>5. /\ state \in Decisions /\ rec \in Decisions
      /\ rec = "MASTER" => state = "MASTER"
      /\ rec = "SLAVE" => state = "SLAVE"
  BY DEF stateDecision, recommend, Decisions
<1>6. fewer \in SUBSET Events /\ table \in ForeignType /\ rec \in States
  <2>1. fewer \in SUBSET Events BY <1>2 DEF ClockType
  <2>2. table \in ForeignType BY <1>2, <1>3 DEF ForeignType
  <2>3. rec \in States BY <1>5 DEF Decisions, States
  <2> QED BY <2>1, <2>2, <2>3
<1>7. table.records = d.fm.records /\ Filled(table)
  BY <1>2 DEF ForeignType, Filled
<1> HIDE DEF ds, state, rec, fewer, table
<1>8. f \in ClockType /\ f.recommended = rec /\ f.fm = table
      /\ f.portState = d.portState /\ f.parent = d.parent
  BY <1>2, <1>6 DEF ClockType
<1> HIDE DEF f
<1>9. m1(f) \in ClockType /\ m1(f).recommended = rec /\ m1(f).fm = table
      /\ m1(f).parent = Own
  <2>1. Own \in Announces \cup {Own, Blank} OBVIOUS
  <2> QED BY <1>8, <2>1 DEF m1, ClockType
<1>10. s1(f, ds) \in ClockType /\ s1(f, ds).recommended = rec /\ s1(f, ds).fm = table
       /\ s1(f, ds).parent = ds
  <2> DEFINE ev == IF f.parent.src = ds.src THEN f.events
                   ELSE f.events \cup {"MASTER_CHANGED"}
  <2>1. s1(f, ds) = [f EXCEPT !.parent = ds, !.events = ev] BY DEF s1
  <2>2. ev \in SUBSET Events BY <1>8 DEF ClockType, Events
  <2>3. ds \in Announces \cup {Own, Blank} BY <1>4
  <2> HIDE DEF ev
  <2> QED BY <1>8, <2>1, <2>2, <2>3 DEF ClockType
<1>11. ASSUME NEW e \in ClockType, e.fm = table, e.recommended = rec, Linked(e),
              e.parent # Blank
       PROVE  Data(e)
  BY <1>2, <1>7, <1>11 DEF Data, Heard, Begun
<1>12. CASE state = "MASTER"
  <2>1. Linked(m1(f)) BY <1>5, <1>9, <1>12 DEF Linked
  <2> QED BY <1>1, <1>5, <1>9, <1>11, <1>12, <2>1, Written
<1>13. CASE state = "SLAVE"
  <2>1. Linked(s1(f, ds)) BY <1>4, <1>5, <1>10, <1>13 DEF Linked
  <2> QED BY <1>1, <1>4, <1>5, <1>10, <1>11, <1>13, <2>1, Written
<1>14. CASE state \notin {"MASTER", "SLAVE"}
  <2>1. Linked(f) BY <1>5, <1>8, <1>14 DEF Linked
  <2> QED BY <1>1, <1>2, <1>5, <1>8, <1>11, <1>14, <2>1
<1> QED BY <1>12, <1>13, <1>14

\* After the decision the port is where it was, or is told where to go.
LEMMA DueData ==
  ASSUME class \in Classes, NEW d, Whole(d)
  PROVE  Data(due(d)) /\ (Placed(due(d)) \/ due(d).recommended \in Decisions)
<1>1. Data(d) /\ Placed(d) BY DEF Whole
<1>2. "STATE_DECISION" \in d.events /\ d.portState \notin {"INITIALIZING", "FAULTY"} =>
        Data(decide(d)) /\ decide(d).recommended \in Decisions
  BY DecidedData
<1> QED BY <1>1, <1>2 DEF due

\* A clock on its way to being a slave has the parent that fits.
LEMMA TowardsSlaveWhole ==
  ASSUME NEW d, Data(d), d.recommended = "SLAVE" PROVE Whole(towardsSlave(d))
<1> DEFINE handled(e, event) == [e EXCEPT !.events = @ \ {event}]
           selected == IF "MASTER_SELECTED" \in d.events
                       THEN toState(handled(d, "MASTER_SELECTED"), "SLAVE") ELSE d
           fault    == IF "SYNC_FAULT" \in d.events
                       THEN toState(handled(d, "SYNC_FAULT"), "UNCALIBRATED") ELSE d
<1>1. towardsSlave(d) =
        CASE d.portState = "UNCALIBRATED" -> handled(selected, "MASTER_CHANGED")
          [] d.portState = "SLAVE" ->
               IF "MASTER_CHANGED" \in d.events
               THEN toState(handled(fault, "MASTER_CHANGED"), "UNCALIBRATED") ELSE fault
          [] OTHER -> toState(d, "UNCALIBRATED")
  BY DEF towardsSlave
<1>2. ASSUME NEW e \in ClockType, NEW event PROVE Keeps(e, handled(e, event))
  <2>1. e.events \ {event} \in SUBSET Events BY DEF ClockType
  <2> QED BY <2>1 DEF Keeps, ClockType
<1> HIDE DEF handled
<1>3. ASSUME NEW e, Data(e), e.recommended = "SLAVE", NEW state \in Slaves
      PROVE  Whole(toState(e, state)) /\ toState(e, state).recommended = "SLAVE"
  <2>1. e \in ClockType /\ state \in States /\ state \notin Senders
    BY <1>3 DEF Data, States, Slaves, Senders
  <2>2. Whole(toState(e, state)) BY <1>3, <2>1, MovesWhole
  <2>3. toState(e, state).recommended = "SLAVE" BY <1>3, <2>1, Moves DEF Slaves
  <2> QED BY <2>2, <2>3
<1>4. ASSUME NEW e, Data(e), NEW event
      PROVE  /\ Data(handled(e, event)) /\ handled(e, event).recommended = e.recommended
             /\ Whole(e) => Whole(handled(e, event))
  <2>1. e \in ClockType BY <1>4 DEF Data
  <2> QED BY <1>2, <1>4, <2>1, KeepsData DEF Keeps
<1>5. "SLAVE" \in Slaves /\ "UNCALIBRATED" \in Slaves BY DEF Slaves
<1>6. d.portState \in Slaves => Whole(d) BY DEF Whole, Placed, Slaves, Senders
<1>7. CASE d.portState = "UNCALIBRATED"
  <2>1. Whole(selected) BY <1>3, <1>4, <1>5, <1>6, <1>7
  <2>2. Data(selected) BY <2>1 DEF Whole
  <2> QED BY <1>1, <1>4, <1>7, <2>1, <2>2
<1>8. CASE d.portState = "SLAVE"
  <2>1. Whole(fault) /\ fault.recommended = "SLAVE" BY <1>3, <1>4, <1>5, <1>6, <1>8
  <2>2. Data(fault) BY <2>1 DEF Whole
  <2>3. Whole(toState(handled(fault, "MASTER_CHANGED"), "UNCALIBRATED"))
    BY <1>3, <1>4, <1>5, <2>1, <2>2
  <2> QED BY <1>1, <1>8, <2>1, <2>3
<1>9. CASE d.portState \notin {"UNCALIBRATED", "SLAVE"}
  BY <1>1, <1>3, <1>5, <1>9
<1> QED BY <1>7, <1>8, <1>9

\* Following the recommendation leaves the parent that fits the state.
LEMMA TowardsWhole ==
  ASSUME NEW d, Data(d), Placed(d) \/ d.recommended \in Decisions, NEW S
  PROVE  Whole(towards(d, S))
<1> DEFINE timed == timerUpdate(d, S)
           cleared == Cleared(timed, {"QUALIFICATION"})
<1>1. d \in ClockType BY DEF Data
<1>2. Keeps(d, timed) /\ timed \in ClockType BY <1>1, HelpersKeep DEF Keeps
<1>3. Keeps(timed, cleared) BY <1>2, HelpersKeep
<1>4. towards(d, S) =
        CASE d.recommended = "MASTER" /\ d.portState = "PRE_MASTER" ->
               IF "QUALIFICATION" \in timed.expire THEN toState(cleared, "MASTER")
               ELSE timed
          [] d.recommended = "MASTER" /\ d.portState # "PRE_MASTER" ->
               IF d.portState = "MASTER" THEN d ELSE toState(d, "PRE_MASTER")
          [] d.recommended = "SLAVE" -> towardsSlave(d)
          [] d.recommended \in {"PASSIVE", "LISTENING"} ->
               IF d.portState = d.recommended THEN d ELSE toState(d, d.recommended)
          [] OTHER -> d
  BY DEF towards
<1> HIDE DEF timed, cleared
<1>5. /\ Data(timed) /\ timed.recommended = d.recommended
      /\ Data(cleared) /\ cleared.recommended = d.recommended
  BY <1>2, <1>3, KeepsData, KeepsTwice DEF Keeps
<1>6. CASE d.recommended = "MASTER"
  <2>1. {"MASTER", "PRE_MASTER"} \subseteq States \ Slaves BY DEF States, Slaves
  <2>2. Whole(toState(cleared, "MASTER")) /\ Whole(toState(d, "PRE_MASTER"))
    BY <1>5, <1>6, <2>1, MovesWhole
  <2>3. d.portState \in Senders => Whole(d) BY <1>6 DEF Whole, Placed, Slaves, Senders
  <2>4. d.portState = "PRE_MASTER" => Whole(timed) BY <1>2, <2>3, KeepsData DEF Senders
  <2> QED BY <1>4, <1>6, <2>2, <2>3, <2>4 DEF Senders
<1>7. CASE d.recommended = "SLAVE"
  BY <1>4, <1>7, TowardsSlaveWhole
<1>8. CASE d.recommended \in {"PASSIVE", "LISTENING"}
  <2>1. /\ d.recommended \in States /\ d.recommended \notin Slaves
        /\ d.recommended \notin Senders /\ d.recommended # "INITIALIZING"
    BY <1>8 DEF States, Slaves, Senders
  <2>2. Whole(toState(d, d.recommended)) BY <2>1, MovesWhole
  <2>3. d.portState = d.recommended => Whole(d) BY <2>1 DEF Whole, Placed
  <2> QED BY <1>4, <1>8, <2>2, <2>3
<1>9. CASE d.recommended \notin Decisions
  BY <1>4, <1>9 DEF Whole, Decisions
<1> QED BY <1>6, <1>7, <1>8, <1>9 DEF Decisions

\* doInit leaves the data sets whole, whether or not the network comes up.
LEMMA InitWhole ==
  ASSUME NEW d, Whole(d), d.portState = "INITIALIZING", NEW up \in BOOLEAN
  PROVE  Whole(doInit(d, up))
<1> DEFINE table == [d.fm EXCEPT !.count = 0]
           e == [d EXCEPT !.fm = table, !.elapsed = FALSE,
                          !.eventQ = <<>>, !.generalQ = <<>>]
           k == initClock(e)
           m == m1(k)
<1>1. doInit(d, up) = IF up THEN toState(m, "LISTENING") ELSE toState(d, "FAULTY")
  BY DEF doInit
<1>2. d \in ClockType /\ d.fm \in ForeignType /\ Filled(d.fm) /\ Heard(d) /\ Data(d)
  BY DEF Whole, Data, ClockType
<1>3. table \in ForeignType /\ table.records = d.fm.records /\ Filled(table)
  <2>1. table \in ForeignType /\ table.records = d.fm.records /\ table.i = d.fm.i
        /\ table.count = 0
    BY <1>2, FirstEntry DEF ForeignType
  <2>2. 0 <= table.i BY <2>1, FirstEntry DEF ForeignType, Entries
  <2> HIDE DEF table
  <2>3. Filled(table) BY <1>2, <2>1, <2>2 DEF Filled
  <2> QED BY <2>1, <2>3
<1> HIDE DEF table
<1>4. /\ e \in ClockType /\ e.fm = table /\ e.events = d.events
      /\ e.portState = d.portState /\ e.recommended = d.recommended
  <2>1. <<>> \in Seq(EventMsg) /\ <<>> \in Seq(GeneralMsg) OBVIOUS
  <2> QED BY <1>2, <1>3, <2>1 DEF ClockType
<1> HIDE DEF e
<1>5. Keeps(e, k) /\ k \in ClockType BY <1>4, HelpersKeep DEF Keeps
<1> HIDE DEF k
<1>6. /\ m \in ClockType /\ m.fm = k.fm /\ m.events = k.events /\ m.parent = Own
      /\ m.portState = k.portState /\ m.recommended = k.recommended
  <2>1. Own \in Announces \cup {Own, Blank} OBVIOUS
  <2> QED BY <1>5, <2>1 DEF m1, ClockType
<1> HIDE DEF m
<1>7. Filled(m.fm) /\ Heard(m)
  BY <1>2, <1>3, <1>4, <1>5, <1>6 DEF Keeps, Heard
<1>8. Whole(toState(m, "LISTENING")) BY <1>6, <1>7, StartsOver, Written
<1>9. Whole(toState(d, "FAULTY"))
  BY <1>2, MovesWhole DEF States, Slaves, Senders
<1> QED BY <1>1, <1>8, <1>9

\* A receipt timeout leaves the data sets whole.
LEMMA TimeoutWhole ==
  ASSUME NEW d, Whole(d), d.parent # Blank PROVE Whole(receiptTimeout(d))
<1> DEFINE table == [d.fm EXCEPT !.count = 0, !.i = 0]
           e == [d EXCEPT !.fm = table]
           f == [m1(e) EXCEPT !.recommended = "MASTER"]
<1>1. receiptTimeout(d) =
        IF class # "slaveOnly" THEN toState(f, "MASTER")
        ELSE IF d.portState # "LISTENING" THEN toState(e, "LISTENING") ELSE e
  <2> DEFINE g == [d EXCEPT !.fm.count = 0, !.fm.i = 0]
  <2>1. receiptTimeout(d) =
          IF class # "slaveOnly"
          THEN toState([m1(g) EXCEPT !.recommended = "MASTER"], "MASTER")
          ELSE IF d.portState # "LISTENING" THEN toState(g, "LISTENING") ELSE g
    BY DEF receiptTimeout
  <2>2. g = e
    <3> DEFINE one == [d.fm EXCEPT !.count = 0]
    <3>1. g = [[d EXCEPT !.fm = one] EXCEPT !.fm.i = 0] OBVIOUS
    <3>2. table = [one EXCEPT !.i = 0] OBVIOUS
    <3> HIDE DEF one, table
    <3>3. [[d EXCEPT !.fm = one] EXCEPT !.fm.i = 0] = [d EXCEPT !.fm = [one EXCEPT !.i = 0]]
      BY DEF ClockType, Whole, Data
    <3> QED BY <3>1, <3>2, <3>3
  <2> HIDE DEF g
  <2> QED BY <2>1, <2>2
<1>2. /\ d \in ClockType /\ d.fm \in ForeignType /\ Filled(d.fm) /\ Heard(d)
      /\ Linked(d) /\ Placed(d)
  BY DEF Whole, Data, ClockType
<1>3. table \in ForeignType /\ table.records = d.fm.records /\ Filled(table)
  <2>1. table \in ForeignType /\ table.records = d.fm.records /\ table.i = 0
        /\ table.count = 0
    <3>1. 0 \in Entries /\ 0 \in 0 .. Capacity BY FirstEntry
    <3> QED BY <1>2, <3>1 DEF ForeignType
  <2> HIDE DEF table
  <2>2. Filled(table) BY <2>1, FirstEntry DEF Filled, Entries
  <2> QED BY <2>1, <2>2
<1> HIDE DEF table
<1>4. /\ e \in ClockType /\ e.fm = table /\ e.events = d.events
      /\ e.portState = d.portState /\ e.recommended = d.recommended
      /\ e.parent = d.parent
  BY <1>2, <1>3 DEF ClockType
<1> HIDE DEF e
<1>5. Whole(e)
  BY <1>2, <1>3, <1>4 DEF Whole, Data, Heard, Linked, Begun, Placed
<1>6. f \in ClockType /\ f.fm = e.fm /\ f.events = e.events
      /\ f.portState = e.portState /\ f.recommended = "MASTER" /\ f.parent = Own
  <2>1. Own \in Announces \cup {Own, Blank} /\ "MASTER" \in States BY DEF States
  <2>2. m1(e) = [e EXCEPT !.parent = Own] BY DEF m1
  <2>3. m1(e) \in ClockType /\ m1(e).fm = e.fm /\ m1(e).events = e.events
        /\ m1(e).portState = e.portState /\ m1(e).parent = Own
    BY <1>4, <2>1, <2>2 DEF ClockType
  <2> QED BY <2>1, <2>3 DEF ClockType
<1> HIDE DEF f
<1>7. Data(f)
  BY <1>5, <1>6, Written DEF Whole, Data, Heard, Linked, Begun, Placed
<1>8. Whole(toState(f, "MASTER"))
  BY <1>6, <1>7, MovesWhole DEF States, Slaves, Senders
<1>9. Whole(toState(e, "LISTENING"))
  BY <1>4, <1>5, StartsOver DEF Whole, Data
<1> QED BY <1>1, <1>5, <1>8, <1>9

\* A port that listens, to a master or for one, leaves the data sets whole.
LEMMA ListenWhole ==
  ASSUME NEW d, Whole(d), d.parent # Blank, NEW S, NEW offset
  PROVE  Whole(listen(d, S, offset))
<1> DEFINE u == timerUpdate(d, S)
           v == Cleared(u, {"MANAGEMENT"})
           managed == IF d.portState # "PASSIVE" /\ "MANAGEMENT" \in u.expire
                      THEN handle(v, offset) ELSE u
           w == Cleared(managed, {"RECEIPT"})
<1>1. listen(d, S, offset) =
        IF "RECEIPT" \in managed.expire THEN receiptTimeout(w)
        ELSE handle(managed, offset)
  BY DEF listen
<1>2. Keeps(d, u) /\ u \in ClockType BY HelpersKeep DEF Whole, Data, Keeps
<1>3. Keeps(u, v) BY <1>2, HelpersKeep
<1>4. Whole(u) /\ Whole(v) /\ u.parent = d.parent /\ v.parent = d.parent
  BY <1>2, <1>3, KeepsTwice, KeepsData DEF Keeps
<1> HIDE DEF u, v
<1>5. Whole(managed) /\ managed.parent # Blank BY <1>4, HandledWhole
<1> HIDE DEF managed
<1>6. Keeps(managed, w) BY <1>5, HelpersKeep DEF Whole, Data
<1>7. Whole(w) /\ w.parent # Blank BY <1>5, <1>6, KeepsData DEF Keeps
<1> QED BY <1>1, <1>5, <1>7, TimeoutWhole, HandledWhole

\* doState leaves the data sets whole in each of its states.
LEMMA ActedWhole ==
  ASSUME NEW d, Whole(d), NEW S, NEW offset, NEW up \in BOOLEAN
  PROVE  Whole(act(d, S, offset, up))
<1> DEFINE u == timerUpdate(d, S)
           v == Cleared(u, {"SYNC", "ANNOUNCE"})
<1>1. act(d, S, offset, up) =
        CASE d.portState = "INITIALIZING" -> doInit(d, up)
          [] d.portState = "FAULTY" -> toState(d, "INITIALIZING")
          [] d.portState \in {"LISTENING", "UNCALIBRATED", "SLAVE", "PASSIVE"} ->
               listen(d, S, offset)
          [] d.portState = "MASTER" -> handle(v, offset)
          [] OTHER -> d
  BY DEF act
<1>2. Keeps(d, u) /\ u \in ClockType BY HelpersKeep DEF Whole, Data, Keeps
<1>3. Keeps(u, v) BY <1>2, HelpersKeep
<1>4. Whole(v) BY <1>2, <1>3, KeepsTwice, KeepsData
<1> HIDE DEF u, v
<1>5. Whole(toState(d, "INITIALIZING")) BY StartsOver DEF Whole, Data
<1>6. d.portState \in {"LISTENING", "UNCALIBRATED", "SLAVE", "PASSIVE"} => d.parent # Blank
  BY DEF Whole, Data, Begun
<1> QED BY <1>1, <1>4, <1>5, <1>6, InitWhole, ListenWhole, HandledWhole

-----------------------------------------------------------------------------
(* The steps.                                                              *)

\* The data sets start as the invariant says.
LEMMA InitData == Init => DataInv
<1> SUFFICES ASSUME Init PROVE DataInv OBVIOUS
<1> DEFINE table == [records |-> [j \in Entries |-> Blank], count |-> 0, i |-> 0, best |-> 0]
<1>1. table \in ForeignType BY FirstEntry DEF ForeignType
<1>2. Filled(table) BY FirstEntry DEF Filled, Entries
<1> HIDE DEF table
<1>3. /\ (CHOOSE s \in SeqIds : TRUE) \in SeqIds
      /\ <<>> \in Seq(EventMsg) /\ <<>> \in Seq(GeneralMsg)
  BY MessageAssumption
<1>4. c = [portState |-> "INITIALIZING", recommended |-> "INITIALIZING", events |-> {},
           fm |-> table, parent |-> Blank, running |-> {}, expire |-> {},
           elapsed |-> FALSE, waitingForFollowUp |-> FALSE,
           recvSync |-> CHOOSE s \in SeqIds : TRUE, eventQ |-> <<>>, generalQ |-> <<>>]
  BY DEF Init, table
<1>5. c \in ClockType BY <1>1, <1>3, <1>4 DEF ClockType, States
<1>6. Whole(c)
  BY <1>2, <1>4, <1>5 DEF Whole, Data, Heard, Linked, Begun, Placed, Slaves, Senders
<1> QED BY <1>6, MessageAssumption DEF Init, DataInv

\* Every step keeps them whole.
LEMMA NextData == PortInv /\ DataInv /\ [Next]_vars => DataInv'
<1> SUFFICES ASSUME PortInv, DataInv, [Next]_vars PROVE DataInv' OBVIOUS
<1>1. Whole(c) /\ c \in ClockType /\ class \in Classes
  BY DEF DataInv, Whole, Data, PortInv
<1>2. pc' \in {"idle", "run"} /\ arrived' \in 0 .. MaxMessages
  BY MessageAssumption DEF DataInv, Next, Arrive, Periodic, Loop, Round, vars
<1>3. Whole(c)' <=> Whole(c')
  BY DEF Whole, Data, Heard, Linked, Begun, Placed
<1>4. CASE UNCHANGED vars BY <1>1, <1>2, <1>3, <1>4 DEF vars, DataInv
<1>5. CASE Arrive
  <2>1. ASSUME NEW m \in EventMsg, c' = [c EXCEPT !.eventQ = Append(@, m)]
        PROVE  Keeps(c, c')
    <3>1. Append(c.eventQ, m) \in Seq(EventMsg) BY <1>1 DEF ClockType
    <3> QED BY <1>1, <2>1, <3>1 DEF Keeps, ClockType
  <2>2. ASSUME NEW m \in GeneralMsg, c' = [c EXCEPT !.generalQ = Append(@, m)]
        PROVE  Keeps(c, c')
    <3>1. Append(c.generalQ, m) \in Seq(GeneralMsg) BY <1>1 DEF ClockType
    <3> QED BY <1>1, <2>2, <3>1 DEF Keeps, ClockType
  <2>3. Keeps(c, c') BY <1>5, <2>1, <2>2 DEF Arrive
  <2> QED BY <1>1, <1>2, <1>3, <2>3, KeepsData DEF DataInv
<1>6. CASE Periodic
  <2>1. PICK ms \in BOOLEAN : c' = [c EXCEPT !.elapsed = @ \/ ms]
    BY <1>6 DEF Periodic
  <2>2. (c.elapsed \/ ms) \in BOOLEAN OBVIOUS
  <2>3. Keeps(c, c') BY <1>1, <2>1, <2>2 DEF Keeps, ClockType
  <2> QED BY <1>1, <1>2, <1>3, <2>3, KeepsData DEF DataInv
<1>7. CASE Loop
  <2>1. PICK S \in Endings, offset \in Measures, up \in NetWorks : Round(S, offset, up)
    BY <1>7 DEF Loop
  <2>2. c' = act(towards(due(c), S), S, offset, up) BY <2>1 DEF Round
  <2>3. up \in BOOLEAN BY <2>1 DEF NetWorks
  <2>4. Whole(towards(due(c), S)) BY <1>1, DueData, TowardsWhole
  <2>5. Whole(c') BY <2>2, <2>3, <2>4, ActedWhole
  <2> QED BY <1>2, <1>3, <2>5 DEF DataInv
<1> QED BY <1>4, <1>5, <1>6, <1>7 DEF Next

\* The data sets are whole in every reachable state.
LEMMA DataInvariant == Spec => []DataInv
  BY InitData, NextData, PortInvariant, PTL DEF Spec

\* The port keeps its types for every table and all messages: the count, the next
\* entry and the best one of the foreign masters never leave the table
\* (bmc.c:99-146, 421-437), and from the first successful doInit on no record that was
\* never written is the parent.
THEOREM PortTypes == Spec => []TypeOK
<1>1. DataInv /\ PortInv => TypeOK
  BY DEF DataInv, PortInv, Whole, Data, Begun, Connected, TypeOK
<1> QED BY <1>1, DataInvariant, PortInvariant, PTL

\* A master is its own parent and a slave has another clock for one, through every
\* order of decisions, announcements, faults and timeouts (m1 in bmc.c:151-181, s1 in 188-227,
\* toState and doState in protocol.c).
THEOREM ParentFitsState == Spec => []ParentMatchesState
<1>1. DataInv => ParentMatchesState
  <2>1. \A a \in Announces : a.src \in Masters BY DEF Masters
  <2> QED BY <2>1 DEF DataInv, Whole, Data, Linked, Placed, ParentMatchesState,
                     Slaves, Senders
<1> QED BY <1>1, DataInvariant, PTL
=============================================================================
