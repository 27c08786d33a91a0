------------------------ MODULE SessionManagerProofs ------------------------
(***************************************************************************)
(* Theorems about SessionManager for any instances, requests and times,    *)
(* and whatever fails.                                                     *)
(***************************************************************************)
EXTENDS SessionManager, TLAPS

(***************************************************************************)
(* 1. The inductive invariant, part by part.                               *)
(***************************************************************************)

(* A request in progress is about an instance. *)
RequestsKnow == \A r \in Request : req[r].pc # "idle" => req[r].at \in Instance

(* A row goes only after its instance has gone from the VMS Manager, which  *)
(* starts it no more.                                                       *)
RowsOutlive ==
    /\ \A i \in Instance : i \notin rows => vms[i] = "gone"
    /\ \A r \in Request : At(r, "deleteRow") => vms[req[r].at] = "gone"

(* The end in a row is the one announced, and the event's is no earlier. *)
EndsAnnounced == \A i \in Instance :
    /\ endTime[i] # NoEnd => i \in rows /\ endTime[i] = announced[i]
    /\ Scheduled(i) => announced[i] <= event[i].end

(* The monitor is about an instance, its time is not in the future, and it  *)
(* is about to stop only what has passed its end: nobody announces another  *)
(* while it holds the lock.                                                 *)
StopIsDue ==
    /\ monitor.now <= now
    /\ monitor.pc \in {"stop", "clear"} => monitor.at \in Instance
    /\ monitor.pc = "stop" => announced[monitor.at] < monitor.now

(* Between its two steps the monitor's instance may be started again, but   *)
(* its new session, unless something fails, waits for the lock.             *)
NewRunWaits ==
    ~failed /\ monitor.pc = "clear" /\ vms[monitor.at] = "running" =>
        \E r \in Request : req[r].at = monitor.at /\ At(r, "session")

(* An end that has had its reminder is marked in its row. *)
RemindersMarked == ~failed => \A i \in rows :
    endTime[i] # NoEnd /\ reminders[i] # 0 => i \in reminded

IInv ==
    /\ TypeOK /\ RequestsKnow /\ RowsOutlive
    /\ EventsMatchRows /\ EndsAnnounced
    /\ StopIsDue /\ NewRunWaits
    /\ EveryRunHasADeadline
    /\ RemindersMarked /\ OneReminder

(***************************************************************************)
(* 2. What the parts of a step do.                                         *)
(***************************************************************************)

(* A request's record changes to one that fits. *)
LEMMA RequestSet ==
  ASSUME TypeOK, RequestsKnow, NEW r \in Request, NEW q \in RequestRecord,
         q.pc # "idle" => q.at \in Instance, req' = [req EXCEPT ![r] = q]
  PROVE  req' \in [Request -> RequestRecord] /\ RequestsKnow'
BY DEF TypeOK, RequestsKnow

(* A request in progress goes on to another point, or ends. *)
LEMMA RequestMoves ==
  ASSUME TypeOK, RequestsKnow, NEW r \in Request, req[r].pc # "idle",
         \/ Answer(r)
         \/ \E point \in {"session", "stop", "deleteRow"} : Goto(r, point)
  PROVE  /\ req[r].at \in Instance
         /\ req' \in [Request -> RequestRecord] /\ RequestsKnow'
         /\ \A s \in Request \ {r} : req'[s] = req[s]
         /\ Answer(r) => req'[r].pc = "idle"
         /\ \A point \in {"session", "stop", "deleteRow"} :
               Goto(r, point) => req'[r].pc = point /\ req'[r].at = req[r].at
<1>1. req[r] \in RequestRecord /\ req[r].at \in Instance
  BY DEF TypeOK, RequestsKnow
<1>2. ASSUME Answer(r)
      PROVE  /\ req' \in [Request -> RequestRecord] /\ RequestsKnow'
             /\ \A s \in Request \ {r} : req'[s] = req[s]
             /\ req'[r].pc = "idle"
  <2>1. Idle \in RequestRecord /\ Idle.pc = "idle"
    BY DEF Idle, RequestRecord
  <2>2. \A s \in Request \ {r} : req'[s] = req[s]
    BY <1>2 DEF Answer, TypeOK
  <2>3. req'[r] = Idle
    BY <1>2 DEF Answer, TypeOK
  <2> QED BY <1>1, <1>2, <2>1, <2>2, <2>3, RequestSet DEF Answer
<1>3. ASSUME NEW point \in {"session", "stop", "deleteRow"}, Goto(r, point)
      PROVE  /\ req' \in [Request -> RequestRecord] /\ RequestsKnow'
             /\ \A s \in Request \ {r} : req'[s] = req[s]
             /\ req'[r].pc = point /\ req'[r].at = req[r].at
  <2> DEFINE q == [pc |-> point, at |-> req[r].at]
  <2>1. q \in RequestRecord /\ q.at \in Instance
    BY <1>1 DEF RequestRecord
  <2>2. req' = [req EXCEPT ![r] = q]
    <3>1. [req[r] EXCEPT !.pc = point] = q
      BY <1>1 DEF RequestRecord
    <3>2. req' = [req EXCEPT ![r] = [req[r] EXCEPT !.pc = point]]
      BY <1>3 DEF Goto
    <3> QED BY <3>1, <3>2
  <2>3. req'[r] = q /\ \A s \in Request \ {r} : req'[s] = req[s]
    BY <2>2 DEF TypeOK
  <2> QED BY <2>1, <2>2, <2>3, RequestSet
<1> QED BY <1>1, <1>2, <1>3

(* A gone instance stays gone, and so what is said of rows.                 *)
LEMMA RowsOutlived ==
  ASSUME RequestsKnow, RowsOutlive, NEW r \in Request, rows' = rows,
         \A s \in Request \ {r} : req'[s] = req[s],
         \A i \in Instance : vms[i] = "gone" => vms'[i] = "gone",
         req'[r].pc = "deleteRow" => vms'[req'[r].at] = "gone"
  PROVE  RowsOutlive'
BY DEF RequestsKnow, RowsOutlive, At

LEMMA NoEventTyped ==
  NoEvent \in [end : EventEnds, exact : BOOLEAN] /\ NoEvent.end = NoEnd
BY TimesAssumption DEF NoEvent, NoEnd, EventEnds

(* What is said of rows, events and mails, when none of them changes. *)
LEMMA SessionsUntouched ==
  ASSUME EventsMatchRows, EndsAnnounced, RemindersMarked, OneReminder,
         UNCHANGED <<row, event, announced, reminders>>, ~failed' => ~failed
  PROVE  (EventsMatchRows /\ EndsAnnounced /\ RemindersMarked /\ OneReminder)'
BY DEF EventsMatchRows, EndsAnnounced, RemindersMarked, OneReminder, row,
   Scheduled, ReadBack

(* Session i gets the end now + Duration, in its event and, if it has one,  *)
(* in its row.                                                              *)
LEMMA SessionGetsEnd ==
  ASSUME IInv, NEW i \in Instance, NewEvent(i, now + Duration),
         Announce(i, now + Duration), rows' = rows,
         endTime' = [endTime EXCEPT ![i] = IF i \in rows THEN now + Duration ELSE @],
         reminded' = reminded \ {i}, ~failed' => ~failed
  PROVE  /\ event' \in [Instance -> [end : EventEnds, exact : BOOLEAN]]
         /\ announced' \in [Instance -> Ends] /\ reminders' \in [Instance -> 0 .. 2]
         /\ endTime' \in [Instance -> Ends]
         /\ event'[i].end # NoEnd /\ \A j \in Instance \ {i} : event'[j] = event[j]
         /\ (EventsMatchRows /\ EndsAnnounced /\ RemindersMarked /\ OneReminder)'
<1> DEFINE end == now + Duration
<1>1. end \in Ends /\ end \in EventEnds /\ end # NoEnd
  BY TimesAssumption DEF IInv, TypeOK, Ends, EventEnds, NoEnd
<1>2. PICK exact \in BOOLEAN : event' = [event EXCEPT ![i] = [end |-> end, exact |-> exact]]
  BY DEF NewEvent
<1>3. /\ event'[i].end = end /\ endTime'[i] = IF i \in rows THEN end ELSE endTime[i]
      /\ announced'[i] = end /\ reminders'[i] = 0
      /\ \A j \in Instance \ {i} :
            /\ event'[j] = event[j] /\ endTime'[j] = endTime[j]
            /\ announced'[j] = announced[j] /\ reminders'[j] = reminders[j]
  BY <1>2 DEF IInv, TypeOK, Announce
<1>4. /\ event' \in [Instance -> [end : EventEnds, exact : BOOLEAN]]
      /\ announced' \in [Instance -> Ends] /\ reminders' \in [Instance -> 0 .. 2]
      /\ endTime' \in [Instance -> Ends]
  BY <1>1, <1>2 DEF IInv, TypeOK, Announce
<1>5. EventsMatchRows'
  BY <1>1, <1>3 DEF IInv, TypeOK, EventsMatchRows, ReadBack, Scheduled
<1>6. EndsAnnounced'
  BY <1>1, <1>3 DEF IInv, TypeOK, EndsAnnounced, Ends, Scheduled
<1>7. (RemindersMarked /\ OneReminder)'
  BY <1>3 DEF IInv, TypeOK, RemindersMarked, OneReminder, Scheduled
<1> QED BY <1>1, <1>3, <1>4, <1>5, <1>6, <1>7

(***************************************************************************)
(* 3. Every step keeps the invariant.                                      *)
(***************************************************************************)

(* A request is made. *)
LEMMA AskStep ==
  ASSUME IInv, NEW r \in Request, NEW point \in {"start", "drop", "renew", "delete"},
         Asks(r, point), UNCHANGED <<now, vms, row, event, monitor, seen, failed>>
  PROVE  IInv'
<1>1. PICK i \in rows : req' = [req EXCEPT ![r] = [pc |-> point, at |-> i]]
  BY DEF Asks
<1>2. req' \in [Request -> RequestRecord] /\ RequestsKnow'
  BY <1>1, RequestSet DEF IInv, TypeOK, RequestRecord
<1>3. /\ req'[r].pc = point /\ req[r].pc = "idle"
      /\ \A s \in Request \ {r} : req'[s] = req[s]
  BY <1>1 DEF IInv, TypeOK, Asks, At
<1>4. TypeOK'
  BY <1>2 DEF IInv, TypeOK, row, seen
<1>5. RowsOutlive'
  BY <1>3 DEF IInv, RowsOutlive, At, row
<1>6. StopIsDue' /\ NewRunWaits'
  BY <1>3 DEF IInv, StopIsDue, NewRunWaits, At, seen
<1>7. EveryRunHasADeadline'
  BY <1>3 DEF IInv, EveryRunHasADeadline, Busy, Scheduled
<1> QED BY <1>2, <1>4, <1>5, <1>6, <1>7, SessionsUntouched DEF IInv, seen

LEMMA CallStartStep ==
  ASSUME IInv, NEW r \in Request, CallStart(r) PROVE IInv'
<1> DEFINE i == req[r].at
<1>1. PICK ok \in BOOLEAN, done \in BOOLEAN :
         /\ Transition(i, "off", "running", ok, done)
         /\ IF ok /\ done THEN Goto(r, "session") ELSE Answer(r)
  BY DEF CallStart, Outcomes
<1>2. /\ i \in Instance /\ req[r].pc = "start"
      /\ req' \in [Request -> RequestRecord] /\ RequestsKnow'
      /\ \A s \in Request \ {r} : req'[s] = req[s]
  BY <1>1, RequestMoves DEF IInv, CallStart, At
<1>3. IF ok /\ done THEN req'[r].at = i /\ req'[r].pc = "session"
      ELSE req'[r].pc = "idle"
  <2>1. CASE ok /\ done
    BY <1>1, <1>2, <2>1, RequestMoves DEF IInv
  <2>2. CASE ~(ok /\ done)
    BY <1>1, <1>2, <2>2, RequestMoves DEF IInv
  <2> QED BY <2>1, <2>2
<1>4. /\ vms' \in [Instance -> {"off", "running", "gone"}]
      /\ failed' \in BOOLEAN /\ (~failed' => ~failed /\ ok)
      /\ done => vms[i] = "off" /\ vms'[i] = "running"
      /\ ~done => vms'[i] = vms[i]
      /\ \A j \in Instance \ {i} : vms'[j] = vms[j]
  BY <1>1, <1>2 DEF IInv, TypeOK, Transition, Record
<1>5. TypeOK'
  BY <1>2, <1>4 DEF IInv, TypeOK, CallStart, row, seen
<1>6. RowsOutlive'
  <2>1. \A j \in Instance : vms[j] = "gone" => vms'[j] = "gone"
    BY <1>4
  <2> QED BY <1>2, <1>3, <1>4, <2>1, RowsOutlived DEF IInv, CallStart, row
<1>7. StopIsDue' /\ NewRunWaits'
  BY <1>2, <1>3, <1>4 DEF IInv, TypeOK, StopIsDue, NewRunWaits, CallStart, At, seen
<1>8. EveryRunHasADeadline'
  BY <1>2, <1>3, <1>4 DEF IInv, EveryRunHasADeadline, Busy, CallStart, Scheduled
<1> QED BY <1>2, <1>4, <1>5, <1>6, <1>7, <1>8, SessionsUntouched DEF IInv, CallStart, seen

(* The run that waited for its session has it, or something has failed: the *)
(* row is there, for the instance runs.                                     *)
LEMMA StartSessionStep ==
  ASSUME IInv, NEW r \in Request, StartSession(r) PROVE IInv'
<1> DEFINE i == req[r].at
<1> DEFINE end == now + Duration
<1>1. PICK ok \in Outcomes("db") :
         /\ IF ok /\ i \in rows
            THEN /\ endTime' = [endTime EXCEPT ![i] = end]
                 /\ reminded' = reminded \ {i}
                 /\ linked' = linked \ {i}
            ELSE UNCHANGED <<endTime, reminded, linked>>
         /\ IF ok /\ i \in rows
            THEN NewEvent(i, end) /\ Announce(i, end)
            ELSE UNCHANGED <<event, announced, reminders>>
         /\ Record(ok)
  BY DEF StartSession, SetOnceStored
<1>2. /\ i \in Instance /\ req[r].pc = "session" /\ monitor.pc = "wait"
      /\ req' \in [Request -> RequestRecord] /\ RequestsKnow'
      /\ \A s \in Request \ {r} : req'[s] = req[s]
  BY RequestMoves DEF IInv, StartSession, At, EventsFree
<1>3. req'[r].pc = "idle"
  BY DEF StartSession, Answer, Idle, IInv, TypeOK
<1>4. failed' \in BOOLEAN /\ (~failed' => ~failed /\ ok)
  BY <1>1 DEF IInv, TypeOK, Record, Outcomes
<1>5. RowsOutlive'
  BY <1>2, <1>3 DEF IInv, RowsOutlive, StartSession, At
<1>6. StopIsDue' /\ NewRunWaits'
  BY <1>2 DEF IInv, StopIsDue, NewRunWaits, StartSession
<1>7. CASE ok /\ i \in rows
  <2>1. endTime' = [endTime EXCEPT ![i] = IF i \in rows THEN end ELSE @]
    BY <1>1, <1>7
  <2>2. /\ event' \in [Instance -> [end : EventEnds, exact : BOOLEAN]]
        /\ announced' \in [Instance -> Ends] /\ reminders' \in [Instance -> 0 .. 2]
        /\ endTime' \in [Instance -> Ends]
        /\ event'[i].end # NoEnd /\ \A j \in Instance \ {i} : event'[j] = event[j]
        /\ (EventsMatchRows /\ EndsAnnounced /\ RemindersMarked /\ OneReminder)'
    BY <1>1, <1>2, <1>4, <1>7, <2>1, SessionGetsEnd DEF StartSession
  <2>3. TypeOK'
    BY <1>1, <1>2, <1>4, <1>7, <2>2 DEF IInv, TypeOK, StartSession
  <2>4. EveryRunHasADeadline'
    BY <1>2, <1>3, <1>4, <2>2 DEF IInv, EveryRunHasADeadline, Busy, StartSession, Scheduled
  <2> QED BY <1>2, <1>5, <1>6, <2>2, <2>3, <2>4 DEF IInv
<1>8. CASE ~(ok /\ i \in rows)
  <2>1. UNCHANGED <<row, event, seen>>
    BY <1>1, <1>8 DEF StartSession, row, seen
  <2>2. TypeOK'
    BY <1>2, <1>4, <2>1 DEF IInv, TypeOK, StartSession, row, seen
  <2>3. EveryRunHasADeadline'
    BY <1>2, <1>3, <1>4, <1>8, <2>1
       DEF IInv, RowsOutlive, EveryRunHasADeadline, Busy, StartSession, Scheduled
  <2> QED BY <1>2, <1>4, <1>5, <1>6, <2>1, <2>2, <2>3, SessionsUntouched DEF IInv, seen
<1> QED BY <1>7, <1>8

(* Whatever happens to the row, the event goes; the instance is as good as  *)
(* stopped.                                                                 *)
LEMMA StopSessionStep ==
  ASSUME IInv, NEW r \in Request, StopSession(r) PROVE IInv'
<1> DEFINE i == req[r].at
<1>1. PICK ok \in Outcomes("db") :
         /\ IF ok THEN ClearColumns(i) ELSE UNCHANGED <<endTime, reminded, linked>>
         /\ Record(ok)
  BY DEF StopSession
<1>2. /\ i \in Instance /\ req[r].pc = "drop" /\ monitor.pc = "wait"
      /\ req' \in [Request -> RequestRecord] /\ RequestsKnow'
      /\ \A s \in Request \ {r} : req'[s] = req[s]
  BY RequestMoves DEF IInv, StopSession, At, EventsFree
<1>3. req'[r].at = i /\ req'[r].pc = "stop"
  BY <1>2 DEF StopSession, Goto, IInv, TypeOK, RequestRecord
<1>4. failed' \in BOOLEAN /\ (~failed' => ~failed)
  BY <1>1 DEF IInv, TypeOK, Record, Outcomes
<1>5. /\ event' \in [Instance -> [end : EventEnds, exact : BOOLEAN]]
      /\ event'[i].end = NoEnd /\ \A j \in Instance \ {i} : event'[j] = event[j]
  BY <1>2, NoEventTyped DEF IInv, TypeOK, StopSession
<1>6. /\ endTime' \in [Instance -> Ends] /\ endTime'[i] \in {endTime[i], NoEnd}
      /\ ~failed' => endTime'[i] = NoEnd
      /\ \A j \in Instance \ {i} : endTime'[j] = endTime[j]
      /\ reminded' \in {reminded, reminded \ {i}} /\ linked' \in {linked, linked \ {i}}
  <2>1. CASE ok
    BY <1>1, <1>2, <2>1, TimesAssumption DEF IInv, TypeOK, ClearColumns, Ends, NoEnd
  <2>2. CASE ~ok
    BY <1>1, <1>2, <2>2 DEF IInv, TypeOK, Record
  <2> QED BY <2>1, <2>2
<1>7. TypeOK'
  BY <1>2, <1>4, <1>5, <1>6 DEF IInv, TypeOK, StopSession
<1>8. RowsOutlive'
  BY <1>2, <1>3 DEF IInv, RowsOutlive, StopSession, At
<1>9. StopIsDue' /\ NewRunWaits'
  BY <1>2 DEF IInv, StopIsDue, NewRunWaits, StopSession
<1>10. EventsMatchRows' /\ EndsAnnounced'
  BY <1>2, <1>5, <1>6 DEF IInv, TypeOK, EventsMatchRows, EndsAnnounced, StopSession,
     Scheduled, ReadBack
<1>11. EveryRunHasADeadline'
  BY <1>2, <1>3, <1>4, <1>5 DEF IInv, EveryRunHasADeadline, Busy, StopSession, Scheduled
<1>12. (RemindersMarked /\ OneReminder)'
  BY <1>2, <1>4, <1>5, <1>6 DEF IInv, TypeOK, RemindersMarked, OneReminder, StopSession, Scheduled
<1> QED BY <1>2, <1>7, <1>8, <1>9, <1>10, <1>11, <1>12 DEF IInv

LEMMA CallStopStep ==
  ASSUME IInv, NEW r \in Request, CallStop(r) PROVE IInv'
<1> DEFINE i == req[r].at
<1>1. PICK ok \in BOOLEAN, done \in BOOLEAN :
         Transition(i, "running", "off", ok, done)
  BY DEF CallStop, Outcomes
<1>2. /\ i \in Instance /\ req[r].pc = "stop"
      /\ req' \in [Request -> RequestRecord] /\ RequestsKnow'
      /\ \A s \in Request \ {r} : req'[s] = req[s]
  BY RequestMoves DEF IInv, CallStop, At
<1>3. req'[r].pc = "idle"
  BY DEF CallStop, Answer, Idle, IInv, TypeOK
<1>4. /\ vms' \in [Instance -> {"off", "running", "gone"}]
      /\ failed' \in BOOLEAN /\ (~failed' => ~failed /\ ok)
      /\ done => vms[i] = "running" /\ vms'[i] = "off"
      /\ ~done => vms'[i] = vms[i] /\ (ok => vms[i] # "running")
      /\ \A j \in Instance \ {i} : vms'[j] = vms[j]
  BY <1>1, <1>2 DEF IInv, TypeOK, Transition, Record
<1>5. TypeOK'
  BY <1>2, <1>4 DEF IInv, TypeOK, CallStop, row, seen
<1>6. RowsOutlive'
  <2>1. \A j \in Instance : vms[j] = "gone" => vms'[j] = "gone"
    BY <1>4
  <2> QED BY <1>2, <1>3, <1>4, <2>1, RowsOutlived DEF IInv, CallStop, row
<1>7. StopIsDue' /\ NewRunWaits'
  BY <1>2, <1>3, <1>4 DEF IInv, TypeOK, StopIsDue, NewRunWaits, CallStop, At, seen
<1>8. EveryRunHasADeadline'
  BY <1>2, <1>3, <1>4 DEF IInv, EveryRunHasADeadline, Busy, CallStop, Scheduled
<1> QED BY <1>2, <1>4, <1>5, <1>6, <1>7, <1>8, SessionsUntouched DEF IInv, CallStop, seen

LEMMA RenewSessionStep ==
  ASSUME IInv, NEW r \in Request, RenewSession(r) PROVE IInv'
<1> DEFINE i == req[r].at
<1> DEFINE end == now + Duration
<1>1. PICK ok \in Outcomes("db") :
         /\ IF Scheduled(i) /\ ok
            THEN /\ endTime' = [endTime EXCEPT ![i] = IF i \in rows THEN end ELSE @]
                 /\ reminded' = reminded \ {i}
                 /\ NewEvent(i, end) /\ Announce(i, end)
            ELSE UNCHANGED <<endTime, reminded, event, announced, reminders>>
         /\ Record(ok)
  BY DEF RenewSession
<1>2. /\ i \in Instance /\ req[r].pc = "renew" /\ monitor.pc = "wait"
      /\ req' \in [Request -> RequestRecord] /\ RequestsKnow'
      /\ \A s \in Request \ {r} : req'[s] = req[s]
  BY RequestMoves DEF IInv, RenewSession, At, EventsFree
<1>3. req'[r].pc = "idle"
  BY DEF RenewSession, Answer, Idle, IInv, TypeOK
<1>4. failed' \in BOOLEAN /\ (~failed' => ~failed)
  BY <1>1 DEF IInv, TypeOK, Record, Outcomes
<1>5. RowsOutlive'
  BY <1>2, <1>3 DEF IInv, RowsOutlive, RenewSession, At
<1>6. StopIsDue' /\ NewRunWaits'
  BY <1>2 DEF IInv, StopIsDue, NewRunWaits, RenewSession
<1>7. CASE Scheduled(i) /\ ok
  <2>1. /\ event' \in [Instance -> [end : EventEnds, exact : BOOLEAN]]
        /\ announced' \in [Instance -> Ends] /\ reminders' \in [Instance -> 0 .. 2]
        /\ endTime' \in [Instance -> Ends]
        /\ event'[i].end # NoEnd /\ \A j \in Instance \ {i} : event'[j] = event[j]
        /\ (EventsMatchRows /\ EndsAnnounced /\ RemindersMarked /\ OneReminder)'
    BY <1>1, <1>2, <1>4, <1>7, SessionGetsEnd DEF RenewSession
  <2>2. TypeOK'
    BY <1>1, <1>2, <1>4, <1>7, <2>1 DEF IInv, TypeOK, RenewSession
  <2>3. EveryRunHasADeadline'
    BY <1>2, <1>3, <1>4, <2>1 DEF IInv, EveryRunHasADeadline, Busy, RenewSession, Scheduled
  <2> QED BY <1>2, <1>5, <1>6, <2>1, <2>2, <2>3 DEF IInv
<1>8. CASE ~(Scheduled(i) /\ ok)
  <2>1. UNCHANGED <<row, event, seen>>
    BY <1>1, <1>8 DEF RenewSession, row, seen
  <2>2. TypeOK'
    BY <1>2, <1>4, <2>1 DEF IInv, TypeOK, RenewSession, row, seen
  <2>3. EveryRunHasADeadline'
    BY <1>2, <1>3, <1>4, <2>1 DEF IInv, EveryRunHasADeadline, Busy, RenewSession, Scheduled
  <2> QED BY <1>2, <1>4, <1>5, <1>6, <2>1, <2>2, <2>3, SessionsUntouched DEF IInv, seen
<1> QED BY <1>7, <1>8

LEMMA CallDeleteStep ==
  ASSUME IInv, NEW r \in Request, CallDelete(r) PROVE IInv'
<1> DEFINE i == req[r].at
<1>1. PICK ok \in BOOLEAN, done \in BOOLEAN :
         /\ Transition(i, "off", "gone", ok, done)
         /\ IF ok /\ done THEN Goto(r, "deleteRow") ELSE Answer(r)
  BY DEF CallDelete, Outcomes
<1>2. /\ i \in Instance /\ req[r].pc = "delete"
      /\ req' \in [Request -> RequestRecord] /\ RequestsKnow'
      /\ \A s \in Request \ {r} : req'[s] = req[s]
  BY <1>1, RequestMoves DEF IInv, CallDelete, At
<1>3. IF ok /\ done THEN req'[r].at = i /\ req'[r].pc = "deleteRow"
      ELSE req'[r].pc = "idle"
  <2>1. CASE ok /\ done
    BY <1>1, <1>2, <2>1, RequestMoves DEF IInv
  <2>2. CASE ~(ok /\ done)
    BY <1>1, <1>2, <2>2, RequestMoves DEF IInv
  <2> QED BY <2>1, <2>2
<1>4. /\ vms' \in [Instance -> {"off", "running", "gone"}]
      /\ failed' \in BOOLEAN /\ (~failed' => ~failed /\ ok)
      /\ done => vms[i] = "off" /\ vms'[i] = "gone"
      /\ ~done => vms'[i] = vms[i]
      /\ \A j \in Instance \ {i} : vms'[j] = vms[j]
  BY <1>1, <1>2 DEF IInv, TypeOK, Transition, Record
<1>5. TypeOK'
  BY <1>2, <1>4 DEF IInv, TypeOK, CallDelete, row, seen
<1>6. RowsOutlive'
  <2>1. \A j \in Instance : vms[j] = "gone" => vms'[j] = "gone"
    BY <1>4
  <2> QED BY <1>2, <1>3, <1>4, <2>1, RowsOutlived DEF IInv, CallDelete, row
<1>7. StopIsDue' /\ NewRunWaits'
  BY <1>2, <1>3, <1>4 DEF IInv, TypeOK, StopIsDue, NewRunWaits, CallDelete, At, seen
<1>8. EveryRunHasADeadline'
  BY <1>2, <1>3, <1>4 DEF IInv, EveryRunHasADeadline, Busy, CallDelete, Scheduled
<1> QED BY <1>2, <1>4, <1>5, <1>6, <1>7, <1>8, SessionsUntouched DEF IInv, CallDelete, seen

LEMMA DeleteRowStep ==
  ASSUME IInv, NEW r \in Request, DeleteRow(r) PROVE IInv'
<1> DEFINE i == req[r].at
<1>1. PICK ok \in Outcomes("db") :
         /\ IF ok THEN rows' = rows \ {i} /\ ClearColumns(i) ELSE UNCHANGED <<row, linked>>
         /\ Record(ok)
  BY DEF DeleteRow
<1>2. /\ i \in Instance /\ req[r].pc = "deleteRow"
      /\ req' \in [Request -> RequestRecord] /\ RequestsKnow'
      /\ \A s \in Request \ {r} : req'[s] = req[s]
  BY RequestMoves DEF IInv, DeleteRow, At
<1>3. req'[r].pc = "idle"
  BY DEF DeleteRow, Answer, Idle, IInv, TypeOK
<1>4. failed' \in BOOLEAN /\ (~failed' => ~failed)
  BY <1>1 DEF IInv, TypeOK, Record, Outcomes
<1>5. StopIsDue' /\ NewRunWaits'
  BY <1>2, <1>3, <1>4 DEF IInv, StopIsDue, NewRunWaits, DeleteRow, At
<1>6. EveryRunHasADeadline'
  BY <1>2, <1>3, <1>4 DEF IInv, EveryRunHasADeadline, Busy, DeleteRow, Scheduled
<1>7. CASE ok
  <2>1. /\ rows' = rows \ {i} /\ reminded' = reminded \ {i} /\ linked' = linked \ {i}
        /\ endTime' \in [Instance -> Ends] /\ endTime'[i] = NoEnd
        /\ \A j \in Instance \ {i} : endTime'[j] = endTime[j]
    BY <1>1, <1>2, <1>7, TimesAssumption DEF IInv, TypeOK, ClearColumns, Ends, NoEnd
  <2>2. TypeOK'
    BY <1>2, <1>4, <2>1 DEF IInv, TypeOK, DeleteRow
  <2>3. RowsOutlive'
    BY <1>2, <1>3, <2>1 DEF IInv, RowsOutlive, DeleteRow, At
  <2>4. EventsMatchRows' /\ EndsAnnounced'
    BY <2>1 DEF IInv, TypeOK, EventsMatchRows, EndsAnnounced, DeleteRow, Scheduled, ReadBack
  <2>5. (RemindersMarked /\ OneReminder)'
    BY <1>4, <2>1 DEF IInv, TypeOK, RemindersMarked, OneReminder, DeleteRow, Scheduled
  <2> QED BY <1>2, <1>5, <1>6, <2>2, <2>3, <2>4, <2>5 DEF IInv
<1>8. CASE ~ok
  <2>1. UNCHANGED <<row, event, seen>>
    BY <1>1, <1>8 DEF DeleteRow, row, seen
  <2>2. TypeOK'
    BY <1>2, <1>4, <2>1 DEF IInv, TypeOK, DeleteRow, row, seen
  <2>3. RowsOutlive'
    BY <1>2, <1>3, <2>1 DEF IInv, RowsOutlive, DeleteRow, At, row
  <2> QED BY <1>2, <1>4, <1>5, <1>6, <2>1, <2>2, <2>3, SessionsUntouched DEF IInv, seen
<1> QED BY <1>7, <1>8

(* Between two instances the monitor is about none. *)
LEMMA MonitorMovesOn ==
  ASSUME IInv, monitor'.pc \in {"wait", "next"}, monitor'.now <= now', vms' = vms
  PROVE  StopIsDue' /\ NewRunWaits'
BY DEF StopIsDue, NewRunWaits

LEMMA TickStep == ASSUME IInv, Tick PROVE IInv'
<1>1. PICK left \in SUBSET Instance :
         monitor' = [pc |-> "next", left |-> left, now |-> now, at |-> None]
  BY DEF Tick, Waiting
<1>2. /\ monitor' \in [pc : {"wait", "next", "stop", "clear"}, left : SUBSET Instance,
                       now : 0 .. MaxTime, at : Instance \cup {None}]
      /\ monitor'.pc \in {"wait", "next"} /\ monitor'.now <= now /\ now' = now
  <2>1. now' = now /\ now \in 0 .. MaxTime
    BY DEF IInv, TypeOK, Tick
  <2> QED BY <1>1, <2>1
<1>3. TypeOK' /\ StopIsDue' /\ NewRunWaits'
  BY <1>2, MonitorMovesOn DEF IInv, TypeOK, Tick, row, seen
<1>4. RequestsKnow' /\ RowsOutlive' /\ EveryRunHasADeadline'
  BY DEF IInv, Tick, RequestsKnow, RowsOutlive, EveryRunHasADeadline, Busy, At, row, Scheduled
<1> QED BY <1>3, <1>4, SessionsUntouched DEF IInv, Tick, seen

LEMMA UnlockStep == ASSUME IInv, Unlock PROVE IInv'
<1>1. monitor' = [pc |-> "wait", left |-> {}, now |-> 0, at |-> None]
  BY DEF Unlock, Waiting
<1>2. /\ monitor' \in [pc : {"wait", "next", "stop", "clear"}, left : SUBSET Instance,
                       now : 0 .. MaxTime, at : Instance \cup {None}]
      /\ monitor'.pc \in {"wait", "next"} /\ monitor'.now <= now /\ now' = now
  BY <1>1, TimesAssumption DEF IInv, TypeOK, Unlock
<1>3. TypeOK' /\ StopIsDue' /\ NewRunWaits'
  BY <1>2, MonitorMovesOn DEF IInv, TypeOK, Unlock, row, seen
<1>4. RequestsKnow' /\ RowsOutlive' /\ EveryRunHasADeadline'
  BY DEF IInv, Unlock, RequestsKnow, RowsOutlive, EveryRunHasADeadline, Busy, At, row, Scheduled
<1> QED BY <1>3, <1>4, SessionsUntouched DEF IInv, Unlock, seen

(* The monitor goes on to the next instance. *)
LEMMA Proceeds ==
  ASSUME TypeOK, monitor.pc = "next", NEW i \in Instance, Proceed(i)
  PROVE  /\ monitor' \in [pc : {"wait", "next", "stop", "clear"}, left : SUBSET Instance,
                          now : 0 .. MaxTime, at : Instance \cup {None}]
         /\ monitor'.pc = "next" /\ monitor'.now = monitor.now
BY DEF TypeOK, Proceed

LEMMA NothingDueStep == ASSUME IInv, NEW i \in Instance, NothingDue(i) PROVE IInv'
<1>1. /\ monitor' \in [pc : {"wait", "next", "stop", "clear"}, left : SUBSET Instance,
                       now : 0 .. MaxTime, at : Instance \cup {None}]
      /\ monitor'.pc = "next" /\ monitor'.now = monitor.now
  BY Proceeds DEF IInv, NothingDue, Turn
<1>2. TypeOK'
  BY <1>1 DEF IInv, TypeOK, NothingDue, row, seen
<1>3. StopIsDue' /\ NewRunWaits'
  BY <1>1, MonitorMovesOn DEF IInv, StopIsDue, NothingDue
<1>4. RequestsKnow' /\ RowsOutlive' /\ EveryRunHasADeadline'
  BY DEF IInv, NothingDue, RequestsKnow, RowsOutlive, EveryRunHasADeadline, Busy, At, row, Scheduled
<1> QED BY <1>2, <1>3, <1>4, SessionsUntouched DEF IInv, NothingDue, seen

(* A reminder is sent only where none is marked, and so where none has been *)
(* sent, and is then marked unless something fails.                         *)
LEMMA SendReminderStep == ASSUME IInv, NEW i \in Instance, SendReminder(i) PROVE IInv'
<1>1. PICK read \in BOOLEAN, sent \in BOOLEAN, marked \in BOOLEAN :
         /\ IF read /\ sent
            THEN /\ reminders' = [reminders EXCEPT ![i] = IF @ < 2 THEN @ + 1 ELSE @]
                 /\ linked' = linked \cup {i}
            ELSE UNCHANGED <<reminders, linked>>
         /\ reminded' = IF read /\ sent /\ marked THEN reminded \cup {i} ELSE reminded
         /\ failed' = (failed \/ ~(read /\ sent /\ marked))
  BY DEF SendReminder, Outcomes, MarkReminded, Record
<1>2. /\ monitor' \in [pc : {"wait", "next", "stop", "clear"}, left : SUBSET Instance,
                       now : 0 .. MaxTime, at : Instance \cup {None}]
      /\ monitor'.pc = "next" /\ monitor'.now = monitor.now
  BY Proceeds DEF IInv, SendReminder, Turn
<1>3. i \in rows /\ i \notin reminded /\ Scheduled(i)
  BY DEF SendReminder, EndsSoon, Scheduled, NoEnd, IInv, TypeOK, EventEnds
<1>4. /\ failed' \in BOOLEAN /\ reminders' \in [Instance -> 0 .. 2]
      /\ reminded' \subseteq rows /\ linked' \subseteq rows
  <2>1. CASE read /\ sent
    BY <1>1, <1>3, <2>1 DEF IInv, TypeOK
  <2>2. CASE ~(read /\ sent)
    BY <1>1, <2>2 DEF IInv, TypeOK
  <2> QED BY <2>1, <2>2
<1>5. TypeOK'
  BY <1>2, <1>4 DEF IInv, TypeOK, SendReminder
<1>6. StopIsDue' /\ NewRunWaits'
  BY <1>2, MonitorMovesOn DEF IInv, StopIsDue, SendReminder
<1>7. RequestsKnow' /\ RowsOutlive' /\ EventsMatchRows' /\ EndsAnnounced'
  BY DEF IInv, SendReminder, RequestsKnow, RowsOutlive, EventsMatchRows, EndsAnnounced, At,
     Scheduled, ReadBack
<1>8. EveryRunHasADeadline'
  BY <1>1 DEF IInv, TypeOK, SendReminder, EveryRunHasADeadline, Busy, Scheduled
<1>9. (RemindersMarked /\ OneReminder)'
  <2>1. CASE read /\ sent /\ marked
    <3>1. ~failed => reminders[i] = 0
      BY <1>3 DEF IInv, TypeOK, RemindersMarked, EventsMatchRows
    <3>2. /\ reminded' = reminded \cup {i} /\ failed' = failed
          /\ ~failed => reminders'[i] = 1
          /\ \A j \in Instance \ {i} : reminders'[j] = reminders[j]
      BY <1>1, <2>1, <3>1 DEF IInv, TypeOK
    <3> QED BY <3>2 DEF IInv, TypeOK, RemindersMarked, OneReminder, SendReminder, Scheduled
  <2>2. CASE ~(read /\ sent /\ marked)
    BY <1>1, <2>2 DEF RemindersMarked, OneReminder
  <2> QED BY <2>1, <2>2
<1> QED BY <1>5, <1>6, <1>7, <1>8, <1>9 DEF IInv

(* What the monitor is about to stop has passed the end of its event, and   *)
(* so the one announced; what the event takes from the row is no earlier.   *)
LEMMA CheckEndStep == ASSUME IInv, NEW i \in Instance, CheckEnd(i) PROVE IInv'
<1>1. PICK ok \in BOOLEAN :
         /\ \/ /\ ~ok \/ endTime[i] = NoEnd
               /\ Proceed(i) /\ UNCHANGED event
            \/ /\ ok /\ endTime[i] # NoEnd /\ event[i] # ReadBack(i)
               /\ event' = [event EXCEPT ![i] = ReadBack(i)]
               /\ Proceed(i)
            \/ /\ ok /\ endTime[i] # NoEnd /\ event[i] = ReadBack(i)
               /\ monitor' = [monitor EXCEPT !.pc = "stop", !.at = i, !.left = @ \ {i}]
               /\ UNCHANGED event
         /\ failed' = (failed \/ ~ok)
  BY DEF CheckEnd, Outcomes, RenewedEnd, Record
<1>2. /\ monitor.pc = "next" /\ event[i].end < monitor.now
      /\ UNCHANGED <<now, vms, row, req, seen>>
  BY DEF CheckEnd, Turn, Expired, IInv, TypeOK, EventEnds
<1>3. failed' \in BOOLEAN /\ (~failed' => ~failed)
  BY <1>1 DEF IInv, TypeOK
<1>4. RequestsKnow' /\ RowsOutlive'
  BY <1>2 DEF IInv, RequestsKnow, RowsOutlive, At, row
<1>5. CASE UNCHANGED event /\ Proceed(i)
  <2>1. /\ monitor' \in [pc : {"wait", "next", "stop", "clear"}, left : SUBSET Instance,
                         now : 0 .. MaxTime, at : Instance \cup {None}]
        /\ monitor'.pc = "next" /\ monitor'.now = monitor.now
    BY <1>2, <1>5, Proceeds DEF IInv
  <2>2. TypeOK'
    BY <1>2, <1>3, <1>5, <2>1 DEF IInv, TypeOK, row, seen
  <2>3. StopIsDue' /\ NewRunWaits'
    BY <1>2, <2>1, MonitorMovesOn DEF IInv, StopIsDue
  <2>4. EveryRunHasADeadline'
    BY <1>2, <1>3, <1>5 DEF IInv, EveryRunHasADeadline, Busy, Scheduled
  <2> QED BY <1>2, <1>3, <1>4, <1>5, <2>2, <2>3, <2>4, SessionsUntouched DEF IInv, seen
<1>6. CASE /\ endTime[i] # NoEnd /\ Proceed(i)
           /\ event' = [event EXCEPT ![i] = ReadBack(i)]
  <2>1. /\ monitor' \in [pc : {"wait", "next", "stop", "clear"}, left : SUBSET Instance,
                         now : 0 .. MaxTime, at : Instance \cup {None}]
        /\ monitor'.pc = "next" /\ monitor'.now = monitor.now
    BY <1>2, <1>6, Proceeds DEF IInv
  <2>2. /\ ReadBack(i) \in [end : EventEnds, exact : BOOLEAN]
        /\ ReadBack(i).end # NoEnd /\ ReadBack(i).end = endTime[i] + ZoneShift
        /\ i \in rows /\ announced[i] = endTime[i]
    BY <1>6, TimesAssumption DEF IInv, TypeOK, EndsAnnounced, ReadBack, EventEnds, Ends, NoEnd
  <2>3. /\ event' \in [Instance -> [end : EventEnds, exact : BOOLEAN]]
        /\ event'[i] = ReadBack(i) /\ \A j \in Instance \ {i} : event'[j] = event[j]
    BY <1>6, <2>2 DEF IInv, TypeOK
  <2>4. TypeOK'
    BY <1>2, <1>3, <2>1, <2>3 DEF IInv, TypeOK, row, seen
  <2>5. StopIsDue' /\ NewRunWaits'
    BY <1>2, <2>1, MonitorMovesOn DEF IInv, StopIsDue
  <2>6. EventsMatchRows'
    BY <1>2, <1>6, <2>2, <2>3 DEF IInv, TypeOK, EventsMatchRows, Scheduled, ReadBack, row
  <2>7. EndsAnnounced'
    BY <1>2, <2>2, <2>3, TimesAssumption DEF IInv, TypeOK, EndsAnnounced, Scheduled, Ends, row, seen
  <2>8. EveryRunHasADeadline'
    BY <1>2, <1>3, <2>2, <2>3 DEF IInv, EveryRunHasADeadline, Busy, Scheduled
  <2>9. (RemindersMarked /\ OneReminder)'
    BY <1>2, <1>3 DEF IInv, RemindersMarked, OneReminder, row, seen
  <2> QED BY <1>4, <2>4, <2>5, <2>6, <2>7, <2>8, <2>9 DEF IInv
<1>7. CASE /\ endTime[i] # NoEnd /\ event[i] = ReadBack(i) /\ UNCHANGED event
           /\ monitor' = [monitor EXCEPT !.pc = "stop", !.at = i, !.left = @ \ {i}]
  <2>1. /\ monitor' \in [pc : {"wait", "next", "stop", "clear"}, left : SUBSET Instance,
                         now : 0 .. MaxTime, at : Instance \cup {None}]
        /\ monitor'.pc = "stop" /\ monitor'.at = i /\ monitor'.now = monitor.now
    BY <1>7 DEF IInv, TypeOK
  <2>2. TypeOK'
    BY <1>2, <1>3, <1>7, <2>1 DEF IInv, TypeOK, row, seen
  <2>3. announced[i] < monitor.now
    <3>1. announced[i] = endTime[i] /\ event[i].end = endTime[i] + ZoneShift
      BY <1>7 DEF IInv, EndsAnnounced, ReadBack
    <3> QED BY <1>2, <3>1, TimesAssumption DEF IInv, TypeOK, Ends
  <2>4. StopIsDue' /\ NewRunWaits'
    BY <1>2, <2>1, <2>3 DEF IInv, StopIsDue, NewRunWaits, seen
  <2>5. EveryRunHasADeadline'
    BY <1>2, <1>3, <1>7 DEF IInv, EveryRunHasADeadline, Busy, Scheduled
  <2> QED BY <1>2, <1>3, <1>4, <1>7, <2>2, <2>4, <2>5, SessionsUntouched DEF IInv, seen
<1> QED BY <1>1, <1>5, <1>6, <1>7

(* The instance is no longer running when the monitor goes on to clear its  *)
(* session, and it is stopped only when StopIsDue.                          *)
LEMMA StopExpiredStep == ASSUME IInv, NEW i \in Instance, StopExpired(i) PROVE IInv'
<1>1. PICK ok \in BOOLEAN, done \in BOOLEAN :
         /\ Transition(i, "running", "off", ok, done)
         /\ IF ok /\ done THEN monitor' = [monitor EXCEPT !.pc = "clear"] ELSE GiveUp
  BY DEF StopExpired, Outcomes
<1>2. monitor.pc = "stop" /\ monitor.at = i /\ UNCHANGED <<now, row, event, req, seen>>
  BY DEF StopExpired, MonitorAt
<1>3. /\ monitor' \in [pc : {"wait", "next", "stop", "clear"}, left : SUBSET Instance,
                       now : 0 .. MaxTime, at : Instance \cup {None}]
      /\ monitor'.now = monitor.now
      /\ IF ok /\ done THEN monitor'.pc = "clear" /\ monitor'.at = i
                       ELSE monitor'.pc = "next"
  <2>1. CASE ok /\ done
    BY <1>1, <1>2, <2>1 DEF IInv, TypeOK
  <2>2. CASE ~(ok /\ done)
    BY <1>1, <1>2, <2>2 DEF IInv, TypeOK, GiveUp
  <2> QED BY <2>1, <2>2
<1>4. /\ vms' \in [Instance -> {"off", "running", "gone"}]
      /\ failed' \in BOOLEAN /\ (~failed' => ~failed /\ ok)
      /\ done => vms[i] = "running" /\ vms'[i] = "off"
      /\ ~done => vms'[i] = vms[i]
      /\ \A j \in Instance \ {i} : vms'[j] = vms[j]
  BY <1>1 DEF IInv, TypeOK, Transition, Record
<1>5. TypeOK'
  BY <1>2, <1>3, <1>4 DEF IInv, TypeOK, row, seen
<1>6. RequestsKnow' /\ RowsOutlive'
  <2>1. \A j \in Instance : vms[j] = "gone" => vms'[j] = "gone"
    BY <1>4
  <2> QED BY <1>2, <2>1 DEF IInv, RequestsKnow, RowsOutlive, At, row
<1>7. StopIsDue'
  BY <1>2, <1>3 DEF IInv, StopIsDue
<1>8. NewRunWaits'
  BY <1>3, <1>4 DEF NewRunWaits
<1>9. EveryRunHasADeadline'
  BY <1>2, <1>4 DEF IInv, EveryRunHasADeadline, Busy, Scheduled
<1> QED BY <1>2, <1>4, <1>5, <1>6, <1>7, <1>8, <1>9, SessionsUntouched DEF IInv, seen

(* The session cleared is not that of a new run, which still waits for its  *)
(* own.                                                                     *)
LEMMA ClearSessionStep == ASSUME IInv, NEW i \in Instance, ClearSession(i) PROVE IInv'
<1>1. PICK ok \in BOOLEAN :
         /\ IF ok THEN ClearColumns(i) /\ event' = [event EXCEPT ![i] = NoEvent]
                  ELSE UNCHANGED <<endTime, reminded, linked, event>>
         /\ failed' = (failed \/ ~ok)
  BY DEF ClearSession, Outcomes, Record
<1>2. /\ monitor.pc = "clear" /\ monitor.at = i
      /\ UNCHANGED <<now, vms, rows, req, announced, reminders>>
  BY DEF ClearSession, MonitorAt
<1>3. /\ monitor' \in [pc : {"wait", "next", "stop", "clear"}, left : SUBSET Instance,
                       now : 0 .. MaxTime, at : Instance \cup {None}]
      /\ monitor'.pc = "next" /\ monitor'.now = monitor.now
  BY DEF ClearSession, GiveUp, IInv, TypeOK
<1>4. failed' \in BOOLEAN /\ (~failed' => ~failed)
  BY <1>1 DEF IInv, TypeOK
<1>5. RequestsKnow' /\ RowsOutlive'
  BY <1>2 DEF IInv, RequestsKnow, RowsOutlive, At
<1>6. StopIsDue' /\ NewRunWaits'
  BY <1>2, <1>3, MonitorMovesOn DEF IInv, StopIsDue
<1>7. CASE ok
  <2>1. /\ event' \in [Instance -> [end : EventEnds, exact : BOOLEAN]]
        /\ event'[i].end = NoEnd /\ \A j \in Instance \ {i} : event'[j] = event[j]
    BY <1>1, <1>7, NoEventTyped DEF IInv, TypeOK
  <2>2. /\ endTime' \in [Instance -> Ends] /\ endTime'[i] = NoEnd
        /\ \A j \in Instance \ {i} : endTime'[j] = endTime[j]
        /\ reminded' = reminded \ {i} /\ linked' = linked \ {i}
    BY <1>1, <1>7, TimesAssumption DEF IInv, TypeOK, ClearColumns, Ends, NoEnd
  <2>3. TypeOK'
    BY <1>2, <1>3, <1>4, <2>1, <2>2 DEF IInv, TypeOK
  <2>4. EventsMatchRows' /\ EndsAnnounced'
    BY <1>2, <2>1, <2>2 DEF IInv, TypeOK, EventsMatchRows, EndsAnnounced, Scheduled, ReadBack
  <2>5. EveryRunHasADeadline'
    BY <1>2, <1>4, <2>1 DEF IInv, NewRunWaits, EveryRunHasADeadline, Busy, At, Scheduled
  <2>6. (RemindersMarked /\ OneReminder)'
    BY <1>2, <1>4, <2>2 DEF IInv, TypeOK, RemindersMarked, OneReminder
  <2> QED BY <1>5, <1>6, <2>3, <2>4, <2>5, <2>6 DEF IInv
<1>8. CASE ~ok
  <2>1. UNCHANGED <<row, event, seen>>
    BY <1>1, <1>2, <1>8 DEF row, seen
  <2>2. TypeOK'
    BY <1>2, <1>3, <1>4, <2>1 DEF IInv, TypeOK, row, seen
  <2>3. EveryRunHasADeadline'
    BY <1>2, <1>4, <2>1 DEF IInv, EveryRunHasADeadline, Busy, Scheduled
  <2> QED BY <1>4, <1>5, <1>6, <2>1, <2>2, <2>3, SessionsUntouched DEF IInv, seen
<1> QED BY <1>7, <1>8

LEMMA ShutdownStep == ASSUME IInv, NEW i \in Instance, Shutdown(i) PROVE IInv'
<1>1. /\ vms' \in [Instance -> {"off", "running", "gone"}] /\ vms[i] = "running"
      /\ vms'[i] = "off" /\ \A j \in Instance \ {i} : vms'[j] = vms[j]
  BY DEF IInv, TypeOK, Shutdown
<1>2. TypeOK'
  BY <1>1 DEF IInv, TypeOK, Shutdown, row, seen
<1>3. RequestsKnow' /\ RowsOutlive'
  <2>1. \A j \in Instance : vms[j] = "gone" => vms'[j] = "gone"
    BY <1>1
  <2> QED BY <2>1 DEF IInv, Shutdown, RequestsKnow, RowsOutlive, At, row
<1>4. StopIsDue' /\ NewRunWaits'
  BY <1>1 DEF IInv, StopIsDue, NewRunWaits, Shutdown, At, seen
<1>5. EveryRunHasADeadline'
  BY <1>1 DEF IInv, EveryRunHasADeadline, Busy, Shutdown, Scheduled
<1> QED BY <1>2, <1>3, <1>4, <1>5, SessionsUntouched DEF IInv, Shutdown, seen

(* After a restart no event is left, and what is said of runs and reminders *)
(* is said no more.                                                         *)
LEMMA CrashStep == ASSUME IInv, Crash PROVE IInv'
<1>1. /\ event' \in [Instance -> [end : EventEnds, exact : BOOLEAN]]
      /\ \A i \in Instance : event'[i].end = NoEnd
  BY NoEventTyped DEF Crash
<1>2. /\ monitor' \in [pc : {"wait", "next", "stop", "clear"}, left : SUBSET Instance,
                       now : 0 .. MaxTime, at : Instance \cup {None}]
      /\ monitor'.pc = "wait" /\ monitor'.now = 0
  BY TimesAssumption DEF Crash, Waiting
<1>3. /\ req' \in [Request -> RequestRecord] /\ \A r \in Request : req'[r].pc = "idle"
      /\ failed' = TRUE /\ UNCHANGED <<now, vms, row, seen>>
  BY DEF Crash, Idle, RequestRecord
<1>4. TypeOK'
  BY <1>1, <1>2, <1>3 DEF IInv, TypeOK, row, seen
<1>5. RequestsKnow' /\ RowsOutlive'
  BY <1>3 DEF IInv, RequestsKnow, RowsOutlive, At, row
<1>6. EventsMatchRows' /\ EndsAnnounced'
  BY <1>1, <1>3 DEF IInv, TypeOK, EventsMatchRows, EndsAnnounced, Scheduled, row, seen
<1>7. StopIsDue' /\ NewRunWaits'
  BY <1>2, <1>3 DEF IInv, TypeOK, StopIsDue, NewRunWaits
<1>8. (EveryRunHasADeadline /\ RemindersMarked /\ OneReminder)'
  BY <1>3 DEF EveryRunHasADeadline, RemindersMarked, OneReminder
<1> QED BY <1>4, <1>5, <1>6, <1>7, <1>8 DEF IInv

LEMMA PassStep == ASSUME IInv, Pass PROVE IInv'
<1>1. TypeOK'
  BY TimesAssumption DEF IInv, TypeOK, Pass, row, seen
<1>2. StopIsDue' /\ NewRunWaits'
  BY DEF IInv, TypeOK, StopIsDue, NewRunWaits, Pass, At, seen
<1>3. RequestsKnow' /\ RowsOutlive' /\ EveryRunHasADeadline'
  BY DEF IInv, Pass, RequestsKnow, RowsOutlive, EveryRunHasADeadline, Busy, At, row, Scheduled
<1> QED BY <1>1, <1>2, <1>3, SessionsUntouched DEF IInv, Pass, seen

LEMMA IdleStep == ASSUME IInv, UNCHANGED vars PROVE IInv'
<1>1. TypeOK'
  BY DEF IInv, TypeOK, vars, row, seen
<1>2. StopIsDue' /\ NewRunWaits'
  BY DEF IInv, StopIsDue, NewRunWaits, vars, At, seen
<1>3. RequestsKnow' /\ RowsOutlive' /\ EveryRunHasADeadline'
  BY DEF IInv, vars, RequestsKnow, RowsOutlive, EveryRunHasADeadline, Busy, At, row, Scheduled
<1> QED BY <1>1, <1>2, <1>3, SessionsUntouched DEF IInv, vars, seen

(***************************************************************************)
(* 4. The theorems.                                                        *)
(***************************************************************************)

(* The invariant holds in every reachable state. *)
THEOREM SessionInvariant == Spec => []IInv
<1>1. Init => IInv
  <2> SUFFICES ASSUME Init PROVE IInv
    OBVIOUS
  <2>1. TypeOK
    <3>1. event \in [Instance -> [end : EventEnds, exact : BOOLEAN]]
      BY NoEventTyped DEF Init
    <3>2. monitor \in [pc : {"wait", "next", "stop", "clear"}, left : SUBSET Instance,
                       now : 0 .. MaxTime, at : Instance \cup {None}]
      BY TimesAssumption DEF Init, Waiting
    <3>3. req \in [Request -> RequestRecord]
      BY DEF Init, Idle, RequestRecord
    <3>4. now \in 0 .. MaxTime /\ NoEnd \in Ends
      BY TimesAssumption DEF Init, Ends, NoEnd
    <3>5. /\ vms \in [Instance -> {"off", "running", "gone"}]
          /\ endTime \in [Instance -> Ends] /\ announced \in [Instance -> Ends]
          /\ reminders \in [Instance -> 0 .. 2]
      BY <3>4 DEF Init
    <3>6. rows \subseteq Instance /\ reminded \subseteq rows /\ linked \subseteq rows
          /\ failed \in BOOLEAN
      BY DEF Init
    <3> QED BY <3>1, <3>2, <3>3, <3>4, <3>5, <3>6 DEF TypeOK
  <2>2. \A i \in Instance : event[i].end = NoEnd /\ endTime[i] = NoEnd /\ reminders[i] = 0
    BY NoEventTyped DEF Init
  <2>3. EventsMatchRows /\ EndsAnnounced /\ RemindersMarked /\ OneReminder
    BY <2>2, <2>1 DEF TypeOK, EventsMatchRows, EndsAnnounced, RemindersMarked, OneReminder, Scheduled
  <2>4. RequestsKnow /\ RowsOutlive
    BY DEF Init, RequestsKnow, RowsOutlive, Idle, At
  <2>5. StopIsDue /\ NewRunWaits
    BY DEF Init, StopIsDue, NewRunWaits, Waiting
  <2>6. EveryRunHasADeadline
    BY DEF Init, EveryRunHasADeadline
  <2> QED BY <2>1, <2>3, <2>4, <2>5, <2>6 DEF IInv
<1>2. IInv /\ [Next]_vars => IInv'
  <2> SUFFICES ASSUME IInv, [Next]_vars PROVE IInv'
    OBVIOUS
  <2>1. ASSUME NEW r \in Request,
               StartInstance(r) \/ StopInstance(r) \/ RenewLink(r) \/ DeleteInstance(r)
        PROVE  IInv'
    BY <2>1, AskStep DEF StartInstance, StopInstance, RenewLink, DeleteInstance
  <2>2. ASSUME NEW r \in Request, Serve(r) PROVE IInv'
    BY <2>2, CallStartStep, StartSessionStep, StopSessionStep, CallStopStep,
       RenewSessionStep, CallDeleteStep, DeleteRowStep DEF Serve
  <2>3. ASSUME NEW i \in Instance, Watch(i) PROVE IInv'
    BY <2>3, NothingDueStep, SendReminderStep, CheckEndStep, StopExpiredStep,
       ClearSessionStep DEF Watch
  <2> QED BY <2>1, <2>2, <2>3, TickStep, UnlockStep, ShutdownStep, CrashStep, PassStep,
             IdleStep DEF Next, MonitorStep
<1> QED BY <1>1, <1>2, PTL DEF Spec

(* Every reachable state is well typed: no flag or token outlives its row.  *)
THEOREM SessionTypes == Spec => []TypeOK
<1>1. IInv => TypeOK
  BY DEF IInv
<1> QED BY <1>1, SessionInvariant, PTL

(* Until something fails, an instance that runs has an event that will end  *)
(* it, unless a request is still starting or stopping it.                   *)
THEOREM RunsHaveDeadlines == Spec => []EveryRunHasADeadline
<1>1. IInv => EveryRunHasADeadline
  BY DEF IInv
<1> QED BY <1>1, SessionInvariant, PTL

(* Whatever fails, an event and its row hold one end, up to what the        *)
(* TIMESTAMP column does to a time.                                         *)
THEOREM EventsAgreeWithRows == Spec => []EventsMatchRows
<1>1. IInv => EventsMatchRows
  BY DEF IInv
<1> QED BY <1>1, SessionInvariant, PTL

(* Until something fails, each end announced gets at most one reminder.     *)
THEOREM RemindersAreSentOnce == Spec => []OneReminder
<1>1. IInv => OneReminder
  BY DEF IInv
<1> QED BY <1>1, SessionInvariant, PTL

(* Whatever fails, the monitor stops nothing before the end announced.      *)
THEOREM NobodyIsStoppedEarly == Spec => NeverStoppedEarly
<1>1. IInv /\ [Next]_vars =>
        [\A i \in Instance : StopExpired(i) /\ vms'[i] # vms[i] => now > announced[i]]_vars
  <2> SUFFICES ASSUME IInv, NEW i \in Instance, StopExpired(i) PROVE now > announced[i]
    OBVIOUS
  <2>1. monitor.now <= now /\ announced[i] < monitor.now
    BY DEF IInv, StopIsDue, StopExpired, MonitorAt
  <2> QED BY <2>1 DEF IInv, TypeOK, Ends
<1> QED BY <1>1, SessionInvariant, PTL DEF Spec, NeverStoppedEarly
=============================================================================
