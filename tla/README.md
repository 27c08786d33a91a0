# Remote Labs: verification

Remote Labs lets students and professors run virtual machines on a university's
servers and reach them over WireGuard. This directory holds TLA+ models of its
back-end services and of the parts of its frontend that keep state, the TLC
configurations that check them on small instances, and TLAPS proofs of their
main properties for every size. Everything is translated from the Go and the
TypeScript code under `src/`; `PROJECT.json` maps every definition to the lines
it stands for.

## 1. The system

```
 browser ── REST ──> web backend ── REST ──> VMS Manager ── REST ──> server agents (libvirt)
 (React)              │   │  └─ SMTP           │   └── REST (RouterOS) ──> Mikrotik router
                      │   └─ own Postgres      └─ own Postgres
                      └─ monitor goroutine (sessions)
```

| component | state | operations | modelled in |
|---|---|---|---|
| VMS Manager, create and delete (`vms-manager/service.go`, `database.go`) | tables `subjects`, `vms`; mutexes per source, per instance, and `routerVlanConfMutex` | `CreateInstance`, `DeleteInstance` with everything they call | `InstanceLifecycle`, `AddressPool` |
| VMS Manager, templates and bases | `vms.depends_on`, `bases`; the same mutexes | `DefineTemplate`, `DeleteTemplate`, `addBaseImagesToDb` | `Templates` (partly: no bases) |
| VMS Manager, start/stop/placement | nothing stored: asks every agent, every time | `StartInstance`, `StopInstance`, `RestartInstance`, `selectServerAgent`, status | `Placement` |
| Router driver (`routeros_service.go`) | a dozen RouterOS resources per VLAN, one peer per instance | `ApplyVlanConfig`, `RemoveVlanConfig`, `ApplyVmConfig`, `RemoveVmConfig` | partly: one bit per VLAN and the peers, in `InstanceLifecycle` |
| Server agent (`server-agent/server_agent.go`) | libvirt domains, disks on shared storage, VLAN tags of the bridge | create, delete, start, stop, define template | domains agent by agent in `Placement`, images in `Templates`, what create and delete leave in `InstanceLifecycle` |
| Web backend, sessions (`session_service.go`) | `instances.session_*` columns, `scheduledEvents` in memory under `eventsMutex` | `StartSession`, `StopSession`, `RenewSession`, `monitorSessions`, and the requests that call them | `SessionManager` |
| Web backend, instances and templates (`instance_service.go`) | `instances`, `templates` rows that mirror the VMS Manager's | create, delete, start, stop, define template | start, stop and delete in `SessionManager`; the rows and their foreign keys in `Subjects` |
| Web backend, users, subjects, tokens (`user_service.go`, `subject_service.go`, `database.go`) | `users`, `unverified_users`, `subjects`, `user_subjects` | registration, verification, password reset, enrolment, deletion | `Accounts`, `Subjects` |
| Web backend, HTTP, e-mail, passwords | none of their own | decoding, encoding, mailing, hashing | the handlers of several calls in `Accounts` and `SessionManager` |
| Frontend (`web-server/frontend/src`) | contexts (identity, loading), the lists and forms of each page, the cookie `userId` | log in and out, register, settings; lists of instances and their buttons; creating and managing subjects; accounts | `AuthContext`, `LabsPage`, `Subjects`, `Accounts` |

How they interact: each HTTP request is a goroutine. Within a service requests
share the database and the mutexes; between services there are only calls that
may fail, hang or have their effect without the caller learning of it. There is
no transaction across services and almost none within one: most operations are
a row of single statements. The frontend keeps its own copies of what the
backend answered and decides from them what it offers; nothing tells it that a
copy has aged.

What is hard here:

* **stale reads**: addresses are chosen, and "is this the last instance?"
  is answered, minutes before the answer is used, because an agent copies a
  disk in between; whether an instance runs is asked before its mutex is taken;
* **locks**: the mutex of an instance is removed from its map while others wait
  for it; a failing create gives its source's mutex back, runs a whole delete
  and takes it again;
* **partial failure**: a create touches the database, every agent and the
  router; each may fail and the service may stop between any two steps; the
  loops over the agents skip those that do not answer;
* **two copies**: a session's end is kept in a row and in memory, and a
  goroutine compares the two; a page patches its list when an action ends,
  whatever its outcome;
* **repeated writes**: three writes are repeated until the database accepts
  them, under the assumption that only an unreachable database refuses;
* **checks apart from acts**: a token is looked up in one statement and used in
  another; an account or a subject is checked for references and deleted later;
* **answers out of order**: continuations run when their call ends, after the
  page that made it has gone, or another user has been selected.

What makes each component correct: addresses are unique and in range, and an
instance keeps its own (create/delete); a ready instance is reachable and a
deleted one leaves nothing behind (create/delete with agents and router); a
session ends, but not early, and its two copies agree (sessions); an instance
runs on one agent at most, a stop stops the guest it was asked to, and answers
are true (placement); no image goes while another lies over it (templates);
nothing refers to a row that is gone (subjects, accounts); a link sets one
password (accounts); a tab shows the account the backend admitted, what a row
shows is so, and what waits stops waiting (frontend). The hazards of the code,
each at its line, are listed in `PROJECT.json`.

## 2. The modules

Each component has a module; the theorems about `X` are in `XProofs`, and `MCX`
adds what only model checking needs (a symmetry set, a property that is
expected to fail).

### InstanceLifecycle

Every request is a record in `req`: its program point `pc` and the values it
has read. An action is one database statement, one call to the agents or the
router, or the acquisition of a mutex; releasing one belongs to the step
before. A mutex has no variable: it is held at the points listed in
`SourceHeld`, `InstanceHeld` and `RouterHeld`, and `stale` marks a request that
waits for an instance's mutex that `deleteVmMutex` has since removed. A source's
mutex is forgotten by `DeleteTemplate`, which `Templates` models: under the fault
"forgotten" `SourceLockable` lets a create lock while another holds a mutex of
the same source.

* `cSubject … cIdent` is `getVmNetworkConfigFromSubjectId`, statement by
  statement; `cLock, cAgent, cAddVm` take the source's mutex, create the domain
  and record it; `vcCheck, vcApply, vcSet` are `addVlanConfigIfNotExists`;
  `cKey, cPeer` configure the peer.
* `dExists … dLock` are `DeleteInstance` up to its mutex; `dAgents` the sweep;
  `dDelete` the row; then the peer, or the VLAN and the subject if this was the
  last instance. A failing create enters at `dExists` with `rollback` set and
  comes back to `relock`.
* `domain`, `wireguards`, `peers` are what the agents and the router hold.
  `served` and `failed` are only observed. `Crash` drops the requests (and with
  them the mutexes) and keeps everything else.

All agents together are one variable, `domain`; a VLAN's configuration on the
router is one bit; `Fresh` reuses an identifier once nothing of it is left
(the code draws UUIDs).

### AddressPool

The abstract promise: an instance is recorded with an address nobody has and
keeps it until it is deleted. `InstanceLifecycle` implements it under
`addressOf <- [v |-> RowAddress(v)]`, the pair of the subject's VLAN and the
instance's identifier.

### Placement

The agents one by one: `domain[v][a]` is absent, off, on or closing (what virsh
calls "in shutdown"), `up` the agents that answer. A request goes through the
agents with `at`; `checkIfServerAgentIsAlive` and the call that follows are one
step, which asks (`AskStatus`) or passes over an agent that is silent (`Skip`).
`StartInstance` asks, chooses an agent (`SelectServerAgent`: any that answers,
since memory and load are left out), takes the instance's mutex and starts;
`StopInstance` and `RestartInstance` ask, take the mutex and try agent after
agent. The agent's own stop is a wait (`AgentStop`, `AgentSeesOff`,
`AgentForces`) during which the guest may shut down, the agent vanish, or the
caller give up (`Abandon`, `Broken`); then the agent goes on as an orphan, which
keeps the record of its request. A restart of the VMS Manager is every request
abandoned. Rows stay: deleting them is `InstanceLifecycle`'s.

### Templates

`kind` and `source` are the rows (`vms` with `depends_on`), `image` the shared
storage, on which the image of an instance is a layer over its template's,
`domain` the agents that have a domain. A request looks (`Check`,
`CheckDependents`), chooses an agent, takes a mutex (`GetVmMutex`, `Lock`),
calls agents one after another (`AgentCreate`, `AgentDelete`, `Skip`) and writes
its row. `stale` counts how often `deleteVmMutex` has forgotten the mutex the
request waits for or has. What creating and deleting do to addresses and the
router is in `InstanceLifecycle`, whose create and delete have the same program
points; a start may come from any agent. Base images are left out: their rows are
inserted and deleted at start-up only (`addBaseImagesToDb`), their files by
nobody; an identifier is used again once nothing of it is left.

### SessionManager

Time is a number that advances on its own. `event` is the map in memory,
`endTime` and `reminded` the columns, `monitor` the goroutine (waiting, going
through `left`, about to stop, about to clear), `req` the requests. What runs
wholly under `eventsMutex` and touches nothing others read without it is one
action (`StartSession`, `StopSession`, `RenewSession`); what does not is split
at every call (start: VMS Manager, then session; stop: session, then VMS
Manager; delete: VMS Manager, then row; expiry: look, stop, clear).
`Transition` is the VMS Manager as the backend sees it: it refuses what does
not fit the state and, when the call fails, may still have acted.

The end of a session is a Go time with nanoseconds and a zone; the column is a
TIMESTAMP of microseconds without a zone. So what is read back (`ReadBack`) is
later by the zone's offset (`ZoneShift`; nothing where the fallback of
`getSpainTime` is used, one or two hours where the zone database is installed)
and compares as different when digits are lost (`exact`). The change of the
offset twice a year is left out.

### Subjects

One subject, made once. The creator's tab has the sheet: `chain` is
`handleCreateSubject`, which makes the subject, enrols professors and students
one by one, and asks for a first instance or a template; each answer
(`SubjectCreated`, `UserEnrolled`, `CreationEnded`) sends the next call. The
manager's tab has the subject's page and, above it, the panel (`users`, `vms`,
`tpls` are its lists, `busy` its spinners, `jump` the timer of
`DeleteSubjectButton`). The backend does a call in one step, except
`DeleteSubject`, whose four statements are `CheckInstances`, `CheckTemplates`,
`DeleteAllUsers` and `DeleteRow`, with the foreign keys as the last guards.
`OtherPanel` is another professor who removes a user meanwhile. `unseen` are the
users whose instance came after the panel read its list, or after a removal was
decided. Each user has one instance at most. A list is shown as it is read: answers out of order are
`LabsPage`'s.

### Accounts

`pending` and `users` are the tables by address, `enrolled` and `owners` what
refers to an account. A handler that makes several statements outside a
transaction is as many steps of its page (`asked`, `valid`, `stored`): the reset
of a password looks its token up, sets the password and clears the token; a
forgotten password looks the address up among the users, whatever is pending for
it, stores a token, mails it. The two queries of `UserExistsByMail`, which
enrolment asks, are one step. `VerifyUser`'s transaction is one step.
The administrator's `UserManager` has its table, its selection, whose instances
it shows and the deletion dialog, whose last two statements are
`CheckDeletion` and `DeleteRow`. UUIDs are numbers given out in order, passwords
are left out but for the links that set them (`used`), a lost mail is a link
nobody follows. One deletion is in progress at a time; the list of users is read
and shown at once.

### AuthContext

Every tab of a browser has `route`, `user`, `isLoggedIn`, `isLoading`; the
cookie is shared. A call in flight is a record; its end runs the continuation
that awaits it (`FinishMount`, `FinishValidate`, `FinishDetails`,
`FinishRegister`, `FinishUpdate`, `FinishRefetch`), in any order, with one of
three outcomes: accepted, refused, lost (fetch throws and nobody catches).
React renders after every step, so the redirections of `ProtectedRoute` and
`AdminRoute` belong to the step that causes them (`Becomes`).

### LabsPage

`status` is the backend, `list` the hook's list, `shown` the page's copy,
`globalLoading` the context shared by all pages. `Read` is the backend answering
a fetch, `ShowList` the page receiving it; `Perform` an action having its effect,
`Finish` its end in the browser. One page is open at a time, and all its hooks'
fetches count as one. `OtherActor` is everybody else. A stop may be answered 200
without an effect (state "void"): `StopInstance` succeeds when it passed over
every agent. An empty answer is null, on which `useSubjectVMs` throws and keeps
its list (`ReadNull`), as it does when a fetch fails (`KeepList`); `useVMs` empties
its list (`LoseList`). `foreign` are the instances that differ because they changed
elsewhere, because an action had no effect, or because no newer list was shown.

### How they are put together

`InstanceLifecycle`, `Placement` and `Templates` are three views of the VMS
Manager over the same rows and the same mutexes, each with the part of the
agents that its questions are about: addresses and the router; domains agent by
agent; images. What one view abstracts is nondeterministic in it: in `Templates`
an instance may start and shut off at any agent, in `LabsPage` and
`SessionManager` the VMS Manager may refuse or fail. `SessionManager` composes
the session service with the VMS Manager as it answers, `Subjects` and
`Accounts` the frontend with the backend's database.

## 3. The runs

| run | question | bounds | distinct states |
|---|---|---|---|
| `lifecycle_concurrent` | Are addresses unique and in range, does the service implement `AddressPool`, do the mutexes keep deleters and the router's mark in order, is every request answered? | 2 requests, 2 instances, 2 subjects, 1 VLAN of 2 identifiers, sources' mutexes may be forgotten, nothing else fails | 321 k |
| `lifecycle_serial` | Is a served instance always reachable, whatever failed? Without failures, is nothing left behind? Does a row go only after its domain? | 1 request, 3 instances, 2 subjects, 2 VLANs of 2, everything fails, restarts anywhere | 562 k |
| `lifecycle_rejected_add_vm` | Is `addVmToDb` refused only by a database that is down? | 2 requests | violated |
| `lifecycle_rejected_delete_subject` | The same for `deleteSubjectFromDb`. | 2 requests | violated |
| `session_faults` | Do event and row agree, is nobody stopped early, has every run a deadline, every end one reminder, and what is past its end an end? | 2 requests, 1 instance, time to 5, duration 2, everything fails, restarts | 368 k |
| `session_rejected_end` | Is an end that differs from the event's always a renewal? | 1 request | violated |
| `placement` | Is an instance alive on one agent only, is the right guest stopped, are answers true, do calls end? | 2 requests, 1 instance, 2 agents that fall silent, die and come back | 217 k |
| `templates` | Do instances keep the image under theirs, are listed templates usable, is what is copied at rest, is nothing left behind? | 2 requests, 2 identifiers, 2 agents that fail half-way or fall silent | 1.87 M |
| `subjects` | Do rows refer to rows, is every listed user accounted for, who is removed although he has an instance, does the sheet end? | a professor, a student, one template, one user's call beside the sheet's chain | 88 k |
| `accounts` | Do pages tell the truth, does a link serve once, do rows refer to accounts, whose instances are shown? | 1 address, 2 tabs, 2 UUIDs, 2 pages, dialogs or calls at a time, calls fail | 875 k |
| `auth` | Which account, page and spinner does each tab show? | 2 tabs, a student and an administrator, 2 overlapping calls, calls lost | 103 k |
| `labs` | What do the rows show against the backend, what do the buttons allow? | 2 instances, 2 actions in flight, other actors, answers that are null or fail | 1.23 M |

Type invariants are proved (section 5), so no run repeats them.

**Why the bounds are enough.** Two requests suffice for every race between a
read and a write that uses it; one VLAN of two identifiers lets both be
exhausted, lets two subjects collide, and is all two concurrent creates can
take. In the serial run a third instance lets one be created in what a failed
create and a failed delete have left. In the session run a duration of 2 with a
window of 1 gives a time before the reminder, one in it and one after the end,
and time 5 leaves room for a session, its shifted end and a renewal; the
instances meet only in the monitor's lock. Two agents are one that has the
instance and one that has not, and one that answers and one that does not; two
identifiers are a template and what is made of it; two tabs are every pair of
tabs, since they meet only in the cookie or the database. Two UUIDs let a
registration's link be overtaken by a new one, an account be made while its
address awaits verification, or a password be lost once, its link followed in
two tabs.

Larger searches, made once without a violation: the lifecycle with two VLANs
(310 k states up to symmetry), with three requests in one subject (479 k), with
agents that fail (two requests; 200 k in one subject, 799 k in two); sessions
without failures with three requests (146 k) and with two instances (3.7 M);
placement with three requests (1.8 M); templates with three requests and one
identifier (128 k), and with two identifiers and one agent (3.0 M). `accounts`
with a third UUID is past exhausting: there the proofs speak.

**Deadlock.** It is checked in `session_faults`, `placement`, `templates`,
`auth`, `labs` and the violations. The other lifecycle runs turn it off:
failures and peers left behind use up the few instance identifiers of the model,
after which no request can be made. `subjects` and `accounts` turn it off as
well: the one subject may be gone, or the last UUID given out.

**Fairness.** A goroutine that can go on does (`WF` on a request's steps and on
the monitor's), time passes, and `sync.Mutex` hands itself to a waiter that has
waited for a millisecond (`SF` where a request waits for a lock); of a source's
mutex this is assumed only while it is free, since nobody can count on a mutex
being forgotten. `Placement`
adds that a caller gives a silent agent up in the end, as the operating system's
keep-alive does for it. `Subjects` assumes that the backend answers the sheet's
calls or the connection breaks, and that the browser runs the continuation.
Nothing is assumed of users: they need not ask for anything.
`RequestsAnswered` is conditional: a write that the database refuses for ever is
repeated for ever, which is the first two findings.

**Where a property is narrowed.** A property that the code keeps only in part
names what it excuses in a variable that nothing else reads, and the hazard's
note in `PROJECT.json` says so at its line.

* `ServedReachable` and `NothingLeaked` are claimed for one request at a time:
  two concurrent deletes of a subject's last two instances leave the subject
  behind, and a delete may remove the peer of a newer instance that got its
  identifier.
* `EveryRunHasADeadline`, `OneReminder` and `StoppedEventually` are claimed until
  something fails: `StopInstance` drops the session before a call that may fail,
  and a restart forgets all events.
* `RunsOnce` excuses instances of which two starts overlapped, or which were
  alive where a start did not see them (`excused`), and `AnswersTrue` a loop that
  passed over an agent with the instance alive (`misled`).
* `InstancesKeepTheirImage` excuses a template whose deletion crossed a creation
  it had not seen (`crossed`), `TemplatesHaveTheirImage` one an agent deleted
  before its request failed (`halfway`), `CopiesRest` an instance that started
  between the check and the mutex (`slipped`), `NothingLeft` what an agent that
  was passed over keeps (`passed`).
* `SeenOwnersStay` speaks of owners the panel or `DeleteSubject` could see: it
  excuses those whose instance is newer (`unseen`) and the panel of another
  professor, whose list is not modelled; `ListedAccounted` excuses those
  another professor removed (`removed`), `InstancesOfSelected` a selection that changed during a fetch or an action
  (`crossed`).
* `IdentityAgrees` excuses a tab whose identity another tab, or a call of its own
  in flight, changed (`disturbed`), `LoadingAwaits` one whose call threw
  (`stuck`), `DisplayTrue` instances changed elsewhere, those of an action that
  failed or a stop that was reported and not done, and those of a list shown
  again because a later fetch failed or was null (`foreign`).

## 4. Findings

1. `addVmToDb` (service.go:1037) may repeat an insertion for ever. Two creates
   in one subject read the same free identifier; the second violates
   `UNIQUE(subject_id, vm_vlan_identifier)`. The comment at 1039 says that only
   a database that is down can refuse. The request never ends, and it keeps the
   source's mutex.
2. `deleteSubjectFromDb` (service.go:1247), likewise: a create adds an instance
   after the delete has counted one, and `ON DELETE RESTRICT` refuses.
3. `monitorSessions` (session_service.go:135) takes "end time unchanged" for
   "not renewed", but the time read from the row is never the one in memory
   unless it was read from there before. The first expiry therefore never stops
   an instance; it moves the event to the time read, by an hour or two where the
   zone database is installed. `StoppedEventually` shows that the instance is
   stopped in the end all the same, `NeverStoppedEarly` that it is not stopped
   too soon.

The models also show behaviours no text of the repository rules out. They are
excused in the properties above and not counted as findings:

* two overlapping starts run one instance on two agents, and `StopInstance` then
  stops the first that answers 200 only;
* `StopInstance` succeeds when every agent was skipped; a guest that is shutting
  down counts as one that does not run;
* a template may be deleted while a creation from it has its image copied but
  its row not written;
* a registration whose mail is lost keeps the address until its link is sent
  again and followed, and an address verified in another way keeps its pending
  row, which stands in the way of an enrolment;
* a row of the instances' table is patched as if the action had succeeded
  although it failed, and keeps its rows when the new list is empty;
  a user removed from the panel may own an instance the
  panel had not loaded.

## 5. The proofs

All constants are arbitrary, up to the assumptions in the modules: `None` is none
of the values it stands beside; bounds and times are natural numbers (positive
where the code has positive constants); `Faults` names what the models know;
there is at least one agent (`AgentsAssumption`); administrators have accounts
(`AdminAssumption`); creator and manager are professors and addresses are not
templates (`SubjectsAssumption`). Every proof follows one pattern: an inductive
invariant `IInv`, a lemma per action, under it a step per part the action
disturbs, and the theorems from it.

**InstanceLifecycle.** The inductive invariant is `TypeInv /\ RowsInv`.
`TypeInv` says of every request that it is a record with the fields its point
needs, and that no VLAN or identifier it holds, or a column holds, is past the
last one; the exhaustion tests compare a count with `=`, so this needs the set
counted to lie in the range (`FirstFreeInRange`, from the cardinality theorems).
`RowsInv` says that VLANs are unique among subjects, identifiers unique within
one, and that no instance outlives its subject: the database's constraints, as
the guards of the three writes preserve them however stale the values written.

* `TypeCorrect`, `AddressesAreUnique`, `AddressesAreInRange` follow from it.
* `NewbornInvariant`: until its row is inserted, an instance belongs to the one
  request that makes it, and no other request refers to it. It needs a lemma per
  way a request can get hold of an instance.
* `LifecycleImplementsPool`: every step claims one address, releases one, or
  stutters. Recording an instance is a `Claim` because `RowsInv` makes the
  address free and `Newborn` makes the instance new; deleting one is a
  `Release`; deleting a subject moves no address because the foreign key leaves
  none behind.
* `DeletersAreExclusive`: a mutex in the map has one holder (`MutexExclusive`),
  and who holds another one has a pointer that `deleteVmMutex` made stale, which
  happens after the row is gone for good (`StaleFits`, `RowGone`; rows do not
  come back because identifiers of instances are new, `Newborn`).
* `RowsRemovedAfterAgents`: from the sweep to the deletion of the row the domain
  stays gone (`Swept`), since only the request that makes an instance defines
  its domain, and `Newborn` says that this is not the one that deletes.
* `MarksStandForConfigurations`: one request holds the router's mutex, and
  between `ApplyVlanConfig` and the mark no other takes the configuration down
  (`RouterInv`).
* `MutexesExclude` says so of the router's mutex, and of a source's as long as
  none is forgotten, restarts included. `NoMutexDeadlock` concludes from where
  they are held that the requests in progress never all wait for mutexes: the source's is given back before an
  undone create calls `DeleteInstance`, so nobody waits for it with another in
  hand, and nobody waits for an instance's with the router's.

Three theorems are about any number of requests that do not overlap, as their
hypothesis `[]OneAtATime` says; `OneRequestAtATime` derives the last two from the
constants alone when there is one request, which is the instance
`lifecycle_serial` checks. Overlapping requests do break them (section 3).

* `SerialWritesAccepted`: what a handler has read is still so when it writes
  (`ReadsHold`, a clause per span of points between a read and its write, with
  `FirstFreeIsFree` for the value chosen). So the comments that findings 1 and 2
  refute are true of requests that do not overlap.
* `SerialServedReachable`: an instance served has its row, domain, VLAN and peer,
  and no request is at work on it (`ServedInv`). The lemmas under it show that
  work on one instance leaves the others' four in place, failures included.
* `SerialNothingLeaked`: `TidyInv` says that until something fails rows, domains,
  marks, VLAN configurations and peers agree, but for what the request at work
  has made and not recorded, or has still to remove, at its point. One lemma per
  step shows that it settles its part of the difference.

**SessionManager.** `IInv` joins the properties checked with what they rest on: a
row goes only after its instance (`RowsOutlive`), the row's end is the one
announced (`EndsAnnounced`), what the monitor is about to stop has passed it
(`StopIsDue`), and a run started between the monitor's stop and its clear still
waits for its session (`NewRunWaits`). From it follow `SessionTypes`,
`RunsHaveDeadlines`, `EventsAgreeWithRows`, `RemindersAreSentOnce` and the action
property `NobodyIsStoppedEarly`.

**Placement.** `Exclusive` says that one request has an instance's mutex,
`OneStart` that an instance not excused has one start in progress at most, and
`CallFits` what a request knows of its instance at each point: while a start
asks, agents it is past have the instance alive only if they said so or misled
it; with the mutex, none has. This stays so until it starts it, since only a
start makes an instance alive. Hence
`RunsOnAtMostOne`, `NoOtherGuestStopped` (the mutex is held throughout the wait)
and the action property `LoopsReportTruly`.

**Templates.** `CallFits` says what a request has done at its point, `PairFits`
which points two requests on one instance can be at together given how often
each one's mutex was forgotten: they exclude each other unless one of them is
`stale`. `Backed` says that a row has its images and domains, `SourcesFit` that
what lies below an image is no instance's, `ListedFit` that a listed template
without an image is being deleted. Hence `ImagesKept`, `ListedUsable`, `RestingCopied`
and the action property `AllRemoved`.

**Subjects.** `CallsFit` says that a call of the sheet belongs to the chain's
step and that a deletion that succeeded left no row; `RemovalKnows` that a user
who has an instance while his removal is decided is `unseen`, `PanelKnows` that
one the panel's list does not show is; `OneCall` that the
chain's first and last steps have one call in flight, `ChainFits` that the chain
runs while the sheet waits. With `Accounted` each listed user is enrolled,
refused, removed, or his enrolment is not over (`NobodyForgotten`);
`NothingOrphaned` rests on the guards of the writes; `OwnersKept` on the lemma
`Removals`, which says by which steps users go; `JumpsRightly` on the row's never coming back.

**Accounts.** `GivenOut` says that what is in use was drawn, `IdsDistinct` and
`TokensDistinct` that no two rows share an identifier or a token, `PagesKnow`
what a page knows of its token at each step: once it has looked it up, no other
account can be given it. `UsedLinksAreDead` needs them all: the statement that
sets the password clears whichever token the account has by then, the page's own
is that of no other account, and none is made again. `NoUserIsMissed` rests on
the foreign keys, `SuccessIsTrue` and `VerifyingIsOnce` on the transaction of
`VerifyUser` and on accounts never coming back. `PanelIsOfSelected` rests on
`PanelInv`: while the selection has not changed under way, every fetch and every
action is about the user selected, so the order in which they end is
indifferent, and a list that is not his stands only while one is loading.

**AuthContext.** Tabs meet only in the cookie, so `IInv` is `TypeOK`, that the
cookie is of somebody admitted, and an invariant per tab (`TabInv`) that ties
its identity, its spinner and its calls in flight together. A lemma says that a
tab's step leaves the others as they were or marks them disturbed; an undisturbed
tab has one call in flight while it logs in, about the cookie's account.

**LabsPage.** `ActionsFit` and `SpinnerFits` tie the flag shared by the pages to
the one action in flight (`OneActionAtATime`); `CopyTrue` says of each fetch and
of the copy where it may differ from the backend, which is what `RowsTrue`,
`StartsRightly` and `LabsAskedRightly` use; `EmptyDetail` that where a subject's
page offers a lab it shows no instance and no action on one is under way.

**Only model-checked**: the liveness properties `RequestsAnswered`,
`StoppedEventually`, `CallsEnd` and `SheetEnds`, which are out of the prover's
reach. Every other property of a passing run is stated by a theorem.

## 6. What is left

* The serial theorems with one overlap allowed: which of a second request's
  points spoil `ServedInv`. That names the pairs section 3 excuses.
* `RouterConfig`: the resources of `ApplyVlanConfig` one by one, each call
  failing, and `removeByFilter`. What a second application meets depends on how
  RouterOS treats duplicates and defaults, of which the repository says little.
* The backend's rows beside the VMS Manager's, for an instance that was made and
  not recorded, or deleted and still listed.

## 7. Not modelled

HTTP decoding and encoding, start-up and configuration, SMTP and bcrypt (no
state of their own). In the frontend: the pages that only show (home, about,
tutorials, server status, the list of subjects), translations, toasts and the
widgets of `components/ui`, the forms for testing, the dialog that makes
WireGuard keys and the page of `RenewSession`, whose call is in
`SessionManager`. In the services: the single resources of the router's
configuration, base images (rows added and deleted at start-up only), VLAN tags of
the bridge, the figures of memory and load. libvirt, qemu-img, Postgres and
RouterOS appear as the code uses them: database statements are atomic, and one
that fails has had no effect; a call between services may fail with or without
its effect.
