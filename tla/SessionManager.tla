--------------------------- MODULE SessionManager ---------------------------
(***************************************************************************)
(* The sessions of the web backend (web-server/backend/session_service.go) *)
(* and the requests that start, stop, renew and delete instances           *)
(* (instance_service.go, api.go).  A session is kept twice: in the row of  *)
(* its instance, and as an event in memory that one goroutine, the         *)
(* monitor, looks at on every tick.  StartSession, StopSession and         *)
(* RenewSession each run under eventsMutex and touch nothing that others   *)
(* read without it, so each is one action; the monitor keeps eventsMutex   *)
(* over a whole tick, with its calls to the database and the VMS Manager.  *)
(* A statement of the database that fails changes nothing; a call to the   *)
(* VMS Manager that fails may have had its effect.                         *)
(***************************************************************************)
EXTENDS Naturals

CONSTANTS
    Instance,       \* instances of the backend
    Request,        \* the requests that may be in progress at once
    None,           \* no instance
    Duration,       \* SESSION_DURATION_MINUTES, in units of time
    Window,         \* how long before the end the reminder is sent (30 minutes)
    ZoneShift,      \* what a time gains by being written and read back
    MaxTime,        \* bound: time stops here
    Faults          \* what may fail: "db", "mail", "vms", "crash"

ASSUME NoInstanceAssumption == None \notin Instance
ASSUME TimesAssumption ==
    /\ Duration \in Nat \ {0}
    /\ Window \in Nat
    /\ ZoneShift \in Nat
    /\ MaxTime \in Nat
ASSUME SessionFaultsAssumption == Faults \subseteq {"db", "mail", "vms", "crash"}

VARIABLES
    now,        \* the time
    vms,        \* instances at the VMS Manager: "off", "running" or "gone"
    rows,       \* the instances with a row in the backend's database
    endTime,    \* instances.session_end_time, NoEnd for NULL
    reminded,   \* the instances whose row has session_reminder_sent set
    event,      \* scheduledEvents: the session of each instance in memory
    monitor,    \* the goroutine of monitorSessions
    req,        \* the requests in progress
    (* observed *)
    announced,  \* the end last announced to the user of each instance
    reminders,  \* how many reminders were sent since then, counted up to 2
    linked,     \* the instances whose user holds a valid renewal link
    failed      \* whether anything has failed yet

row  == <<rows, endTime, reminded>>
seen == <<announced, reminders, linked>>
vars == <<now, vms, row, event, monitor, req, seen, failed>>

NoEnd == 0
(* exact: the time has no digits below a microsecond, as is sure only of    *)
(* one that comes from the database.                                        *)
NoEvent == [end |-> NoEnd, exact |-> FALSE]
Scheduled(i) == event[i].end # NoEnd

Idle == [pc |-> "idle", at |-> None]
Waiting == [pc |-> "wait", left |-> {}, now |-> 0, at |-> None]

At(r, point) == req[r].pc = point
Goto(r, point) == req' = [req EXCEPT ![r].pc = point]
Answer(r) == req' = [req EXCEPT ![r] = Idle]
Asks(r, point) ==
    /\ At(r, "idle")
    /\ \E i \in rows : req' = [req EXCEPT ![r] = [pc |-> point, at |-> i]]

(* Whether a call goes well: always, unless what it needs may fail. *)
Outcomes(what) == IF what \in Faults THEN BOOLEAN ELSE {TRUE}
Record(ok) == failed' = (failed \/ ~ok)

(* Wrong: eventsMutex is not locked. *)
EventsNotLocked == TRUE

(* eventsMutex is free: the monitor is between two ticks. *)
EventsFree == monitor.pc = "wait"

(* The database's answer to session_end_time: the column is a TIMESTAMP     *)
(* without time zone, so what comes back is the local time of the session's *)
(* end taken as UTC, without the digits below a microsecond.                *)
ReadBack(i) == [end |-> endTime[i] + ZoneShift, exact |-> TRUE]

(* The columns of a session that is over. *)
ClearColumns(i) ==
    /\ endTime' = [endTime EXCEPT ![i] = NoEnd]
    /\ reminded' = reminded \ {i}
    /\ linked' = linked \ {i}

(* The VMS Manager is asked to take instance i from one state to another    *)
(* and refuses when it is in neither; done says whether it did, ok whether  *)
(* the caller hears of it.                                                  *)
Transition(i, from, to, ok, done) ==
    /\ done => vms[i] = from
    /\ ok => done = (vms[i] = from)
    /\ vms' = [vms EXCEPT ![i] = IF done THEN to ELSE @]
    /\ Record(ok)
-----------------------------------------------------------------------------
(* Starting: the VMS Manager first, the session afterwards.                 *)

StartInstance(r) ==
    /\ Asks(r, "start")
    /\ UNCHANGED <<now, vms, row, event, monitor, seen, failed>>

CallStart(r) ==
    /\ At(r, "start")
    /\ \E ok \in Outcomes("vms"), done \in BOOLEAN :
          /\ Transition(req[r].at, "off", "running", ok, done)
          /\ IF ok /\ done THEN Goto(r, "session") ELSE Answer(r)
    /\ UNCHANGED <<now, row, event, monitor, seen>>

(* Wrong: the event is set before the row is known to be written. *)
SetBeforeStored(written) == TRUE

(* The event is set only once the row has been written. *)
SetOnceStored(written) == written

NewEvent(i, end) ==
    \E exact \in BOOLEAN : event' = [event EXCEPT ![i] = [end |-> end, exact |-> exact]]

(* The user learns of the end of the session. *)
Announce(i, end) ==
    /\ announced' = [announced EXCEPT ![i] = end]
    /\ reminders' = [reminders EXCEPT ![i] = 0]

(* StartSession: a new end and a new token in the row, an e-mail (whether   *)
(* it arrives or not) and the event.  Failing, it fails no request.         *)
StartSession(r) ==
    LET i == req[r].at  end == now + Duration IN
    /\ At(r, "session")
    /\ EventsFree
    /\ \E ok \in Outcomes("db") :
       LET written == ok /\ i \in rows IN
          /\ IF written
             THEN /\ endTime' = [endTime EXCEPT ![i] = end]
                  /\ reminded' = reminded \ {i}
                  /\ linked' = linked \ {i}
             ELSE UNCHANGED <<endTime, reminded, linked>>
          /\ IF SetOnceStored(written)
             THEN NewEvent(i, end) /\ Announce(i, end)
             ELSE UNCHANGED <<event, announced, reminders>>
          /\ Record(ok)
    /\ Answer(r)
    /\ UNCHANGED <<now, vms, rows, monitor>>
-----------------------------------------------------------------------------
(* Stopping: the session first, the VMS Manager afterwards.                 *)

StopInstance(r) ==
    /\ Asks(r, "drop")
    /\ UNCHANGED <<now, vms, row, event, monitor, seen, failed>>

(* StopSession: the event goes even when the row cannot be written. *)
StopSession(r) ==
    LET i == req[r].at IN
    /\ At(r, "drop")
    /\ EventsFree
    /\ event' = [event EXCEPT ![i] = NoEvent]
    /\ \E ok \in Outcomes("db") :
          /\ IF ok THEN ClearColumns(i) ELSE UNCHANGED <<endTime, reminded, linked>>
          /\ Record(ok)
    /\ Goto(r, "stop")
    /\ UNCHANGED <<now, vms, rows, monitor, announced, reminders>>

CallStop(r) ==
    /\ At(r, "stop")
    /\ \E ok \in Outcomes("vms"), done \in BOOLEAN :
          Transition(req[r].at, "running", "off", ok, done)
    /\ Answer(r)
    /\ UNCHANGED <<now, row, event, monitor, seen>>

(* The user shuts the instance down from within. *)
Shutdown(i) ==
    /\ vms[i] = "running"
    /\ vms' = [vms EXCEPT ![i] = "off"]
    /\ UNCHANGED <<now, row, event, monitor, req, seen, failed>>
-----------------------------------------------------------------------------
(* Renewing: the link's token is looked up in the rows, then RenewSession   *)
(* extends whatever session the instance has by then.                       *)

RenewLink(r) ==
    /\ Asks(r, "renew")
    /\ req'[r].at \in linked
    /\ UNCHANGED <<now, vms, row, event, monitor, seen, failed>>

(* An instance without an event has no session to renew. *)
RenewSession(r) ==
    LET i == req[r].at  end == now + Duration IN
    /\ At(r, "renew")
    /\ EventsFree
    /\ \E ok \in Outcomes("db") :
          /\ IF Scheduled(i) /\ ok
             THEN /\ endTime' = [endTime EXCEPT ![i] = IF i \in rows THEN end ELSE @]
                  /\ reminded' = reminded \ {i}
                  /\ NewEvent(i, end) /\ Announce(i, end)
             ELSE UNCHANGED <<endTime, reminded, event, announced, reminders>>
          /\ Record(ok)
    /\ Answer(r)
    /\ UNCHANGED <<now, vms, rows, monitor, linked>>
-----------------------------------------------------------------------------
(* Deleting: the VMS Manager refuses a running instance; then the row.      *)

DeleteInstance(r) ==
    /\ Asks(r, "delete")
    /\ UNCHANGED <<now, vms, row, event, monitor, seen, failed>>

CallDelete(r) ==
    /\ At(r, "delete")
    /\ \E ok \in Outcomes("vms"), done \in BOOLEAN :
          /\ Transition(req[r].at, "off", "gone", ok, done)
          /\ IF ok /\ done THEN Goto(r, "deleteRow") ELSE Answer(r)
    /\ UNCHANGED <<now, row, event, monitor, seen>>

DeleteRow(r) ==
    LET i == req[r].at IN
    /\ At(r, "deleteRow")
    /\ \E ok \in Outcomes("db") :
          /\ IF ok THEN rows' = rows \ {i} /\ ClearColumns(i)
                   ELSE UNCHANGED <<row, linked>>
          /\ Record(ok)
    /\ Answer(r)
    /\ UNCHANGED <<now, vms, event, monitor, announced, reminders>>
-----------------------------------------------------------------------------
(* The monitor: on a tick it locks eventsMutex, takes the time once and     *)
(* goes through the events in any order.                                    *)

Tick ==
    /\ monitor.pc = "wait"
    /\ monitor' = [Waiting EXCEPT !.pc = "next", !.now = now,
                                  !.left = {i \in Instance : Scheduled(i)}]
    /\ UNCHANGED <<now, vms, row, event, req, seen, failed>>

Turn(i) == monitor.pc = "next" /\ i \in monitor.left
Proceed(i) == monitor' = [monitor EXCEPT !.left = @ \ {i}]
MonitorAt(point, i) == monitor.pc = point /\ monitor.at = i
GiveUp == monitor' = [monitor EXCEPT !.pc = "next", !.at = None]

EndsSoon(i) == monitor.now < event[i].end /\ event[i].end <= monitor.now + Window

(* Wrong: the session may end within the window. *)
AlmostExpired(i) == monitor.now + Window >= event[i].end

Expired(i) == monitor.now > event[i].end

NothingDue(i) ==
    /\ Turn(i)
    /\ ~Expired(i)
    /\ EndsSoon(i) => i \notin rows \/ i \in reminded
    /\ Proceed(i)
    /\ UNCHANGED <<now, vms, row, event, req, seen, failed>>

(* Wrong: the reminder is not marked as sent. *)
MarkNone(i) == reminded

MarkReminded(i) == reminded \cup {i}

(* The flag is read, the mail sent and the flag set while nobody else can   *)
(* write it, hence in one step (a row deleted meanwhile takes flag and link *)
(* with it); each of the three may fail.                                    *)
SendReminder(i) ==
    /\ Turn(i)
    /\ EndsSoon(i) /\ i \in rows /\ i \notin reminded
    /\ \E read \in Outcomes("db"), sent \in Outcomes("mail"), marked \in Outcomes("db") :
          /\ IF read /\ sent
             THEN /\ reminders' = [reminders EXCEPT ![i] = IF @ < 2 THEN @ + 1 ELSE @]
                  /\ linked' = linked \cup {i}
             ELSE UNCHANGED <<reminders, linked>>
          /\ reminded' = IF read /\ sent /\ marked THEN MarkReminded(i) ELSE reminded
          /\ Record(read /\ sent /\ marked)
    /\ Proceed(i)
    /\ UNCHANGED <<now, vms, rows, endTime, event, req, announced>>

(* Wrong: the event keeps the time that was not found in the row. *)
KeepEnd(i) == event[i]

(* What the event is set to when the row says otherwise. *)
RenewedEnd(i) == ReadBack(i)

(* The row's end is read.  Without one (no row, or NULL) the event stays;   *)
(* if it equals the event's the instance is to be stopped, else the event   *)
(* takes the end of the row.                                                *)
CheckEnd(i) ==
    /\ Turn(i)
    /\ Expired(i)
    /\ \E ok \in Outcomes("db") :
          /\ \/ /\ ~ok \/ endTime[i] = NoEnd
                /\ Proceed(i) /\ UNCHANGED event
             \/ /\ ok /\ endTime[i] # NoEnd /\ event[i] # ReadBack(i)
                /\ event' = [event EXCEPT ![i] = RenewedEnd(i)]
                /\ Proceed(i)
             \/ /\ ok /\ endTime[i] # NoEnd /\ event[i] = ReadBack(i)
                /\ monitor' = [monitor EXCEPT !.pc = "stop", !.at = i, !.left = @ \ {i}]
                /\ UNCHANGED event
          /\ Record(ok)
    /\ UNCHANGED <<now, vms, row, req, seen>>

(* Anything but an answer of success leaves the event for the next tick. *)
StopExpired(i) ==
    /\ MonitorAt("stop", i)
    /\ \E ok \in Outcomes("vms"), done \in BOOLEAN :
          /\ Transition(i, "running", "off", ok, done)
          /\ IF ok /\ done THEN monitor' = [monitor EXCEPT !.pc = "clear"] ELSE GiveUp
    /\ UNCHANGED <<now, row, event, req, seen>>

ClearSession(i) ==
    /\ MonitorAt("clear", i)
    /\ \E ok \in Outcomes("db") :
          /\ IF ok THEN ClearColumns(i) /\ event' = [event EXCEPT ![i] = NoEvent]
                   ELSE UNCHANGED <<endTime, reminded, linked, event>>
          /\ Record(ok)
    /\ GiveUp
    /\ UNCHANGED <<now, vms, rows, req, announced, reminders>>

Unlock ==
    /\ monitor.pc = "next" /\ monitor.left = {}
    /\ monitor' = Waiting
    /\ UNCHANGED <<now, vms, row, event, req, seen, failed>>
-----------------------------------------------------------------------------
(* The backend stops and starts again: what it had in memory is lost.       *)
Crash ==
    /\ "crash" \in Faults
    /\ event' = [i \in Instance |-> NoEvent]
    /\ monitor' = Waiting
    /\ req' = [r \in Request |-> Idle]
    /\ failed' = TRUE
    /\ UNCHANGED <<now, vms, row, seen>>

Pass ==
    /\ now < MaxTime
    /\ now' = now + 1
    /\ UNCHANGED <<vms, row, event, monitor, req, seen, failed>>

Init ==
    /\ now = 0
    /\ vms = [i \in Instance |-> "off"]
    /\ rows = Instance
    /\ endTime = [i \in Instance |-> NoEnd]
    /\ reminded = {}
    /\ event = [i \in Instance |-> NoEvent]
    /\ monitor = Waiting
    /\ req = [r \in Request |-> Idle]
    /\ announced = [i \in Instance |-> NoEnd]
    /\ reminders = [i \in Instance |-> 0]
    /\ linked = {}
    /\ failed = FALSE

(* What a request does once it has been made. *)
Serve(r) ==
    \/ CallStart(r) \/ StartSession(r)
    \/ StopSession(r) \/ CallStop(r)
    \/ RenewSession(r)
    \/ CallDelete(r) \/ DeleteRow(r)

Watch(i) ==
    \/ NothingDue(i) \/ SendReminder(i) \/ CheckEnd(i)
    \/ StopExpired(i) \/ ClearSession(i)

MonitorStep == Tick \/ Unlock \/ \E i \in Instance : Watch(i)

Next ==
    \/ \E r \in Request :
          \/ StartInstance(r) \/ StopInstance(r) \/ RenewLink(r) \/ DeleteInstance(r)
          \/ Serve(r)
    \/ MonitorStep
    \/ \E i \in Instance : Shutdown(i)
    \/ Crash
    \/ Pass

Spec == Init /\ [][Next]_vars

(* Time passes and goroutines run; sync.Mutex lets nobody starve.  Whether  *)
(* users ask for anything is up to them.                                    *)
Fairness ==
    /\ WF_vars(Pass)
    /\ WF_vars(MonitorStep)
    /\ \A r \in Request : SF_vars(Serve(r))

FairSpec == Spec /\ Fairness
-----------------------------------------------------------------------------
(* The ends that are given, and those that are read back. *)
Ends == 0 .. MaxTime + Duration
EventEnds == 0 .. MaxTime + Duration + ZoneShift

RequestRecord ==
    [pc : {"idle", "start", "session", "drop", "stop", "renew", "delete", "deleteRow"},
     at : Instance \cup {None}]

TypeOK ==
    /\ now \in 0 .. MaxTime
    /\ vms \in [Instance -> {"off", "running", "gone"}]
    /\ rows \subseteq Instance
    /\ endTime \in [Instance -> Ends]
    /\ reminded \subseteq rows
    /\ event \in [Instance -> [end : EventEnds, exact : BOOLEAN]]
    /\ monitor \in [pc : {"wait", "next", "stop", "clear"}, left : SUBSET Instance,
                    now : 0 .. MaxTime, at : Instance \cup {None}]
    /\ req \in [Request -> RequestRecord]
    /\ announced \in [Instance -> Ends]
    /\ reminders \in [Instance -> 0 .. 2]
    /\ linked \subseteq rows
    /\ failed \in BOOLEAN

Busy(i) == \E r \in Request : req[r].at = i /\ req[r].pc \in {"session", "stop"}

(* While nothing fails, an instance that runs has an event that will end it *)
(* (StartSession), unless the request that started it, or is stopping it,   *)
(* is still on its way: the monitor never clears a session set meanwhile.   *)
EveryRunHasADeadline ==
    ~failed => \A i \in Instance :
        vms[i] = "running" /\ ~Busy(i) => Scheduled(i)

(* The event of an instance and the session_end_time of its row agree, also *)
(* while the monitor works and whatever has failed: StartSession,           *)
(* RenewSession and StopSession write both, and the monitor only replaces   *)
(* the event's end by the row's.                                            *)
EventsMatchRows ==
    \A i \in rows : Scheduled(i) =>
        endTime[i] # NoEnd /\ event[i].end \in {endTime[i], ReadBack(i).end}

(* monitorSessions stops no instance before the end last announced to its   *)
(* user has passed, however renewals, restarts and failures fall.           *)
NeverStoppedEarly ==
    [][\A i \in Instance : StopExpired(i) /\ vms'[i] # vms[i] => now > announced[i]]_vars

(* While nothing fails, the user gets at most one reminder for each end     *)
(* announced (session_reminder_sent).                                       *)
OneReminder == ~failed => \A i \in Instance : reminders[i] <= 1

(* The instance runs past the end announced, and time goes on long enough   *)
(* for the monitor to see it.                                               *)
Overdue(i) ==
    /\ vms[i] = "running" /\ ~failed
    /\ announced[i] + ZoneShift < MaxTime
    /\ now > announced[i]

(* While nothing fails, an instance that runs past its end is stopped, or   *)
(* its session renewed, in the end (monitorSessions, both branches).        *)
StoppedEventually == \A i \in Instance : Overdue(i) ~> ~Overdue(i)

(* The comments in monitorSessions take an end that differs from the        *)
(* event's for a renewal: the event changes only if the user was told of    *)
(* another end than the event's.                                            *)
EndChangedByRenewalOnly ==
    [][\A i \in Instance : CheckEnd(i) /\ event'[i] # event[i]
            => announced[i] # event[i].end]_vars
=============================================================================
