------------------------------ MODULE Subjects ------------------------------
(***************************************************************************)
(* Creating, managing and deleting one subject.  One tab, of its creator,  *)
(* has CreateSubjectSheet, which makes the subject, enrols its users and   *)
(* asks for a first virtual machine or template, one call after another.   *)
(* Another tab, of the same or another professor, has the subject's page:  *)
(* DeleteSubjectButton, DefineTemplateButton and, above it, the management *)
(* panel with SubjectUsersManager and SubjectTemplatesManager (LabsPage    *)
(* models the instances they list).  The backend makes each call one       *)
(* statement, except DeleteSubject, which checks and then deletes.         *)
(* A fetch is shown as it is read: LabsPage has answers out of order.      *)
(***************************************************************************)
EXTENDS FiniteSets, Naturals

CONSTANTS
    Mail,        \* the users' addresses
    Professor,   \* those typed as professors; the others are the students'
    Registered,  \* those with an account
    Creator,     \* the user of the sheet
    Manager,     \* the user of the subject's page
    Template,    \* the bases and the templates made of instances
    None,        \* no address, no template
    MaxCalls     \* the model's bound on the users' calls in flight

ASSUME SubjectsAssumption ==
    /\ Creator \in Professor /\ Manager \in Professor
    /\ Professor \subseteq Mail /\ Registered \subseteq Mail
    /\ Mail \cap Template = {} /\ None \notin Mail \cup Template

VARIABLES
    row,        \* the subject in the backend's database
    enrolled,   \* user_subjects
    templates,  \* the subject's rows in templates
    lab,        \* instances: what each user's one was made from
    bases,      \* the sheet's bases, without which it cannot be submitted
    sheet,      \* what the creator's tab shows
    chain,      \* handleCreateSubject
    view,       \* what the manager's tab shows
    loading,    \* the hooks of the panel that await their first list
    users,      \* SubjectUsersManager's others: localUsers without the manager
    vms,        \* the owners among its vms, without the manager
    tpls,       \* SubjectTemplatesManager's templates
    busy,       \* the spinners of the manager's tab
    jump,       \* whether setTimeout will navigate to the subjects
    calls,      \* the calls in flight
    removed,    \* history: the users removed during a creation
    unseen      \* history: the owners whose instance is newer than the panel's
                \* list, or than the check of the deletion in progress

database == <<row, enrolled, templates, lab>>
creator  == <<bases, sheet, chain>>
lists    == <<loading, users, vms, tpls>>
manager  == <<view, lists, busy, jump>>
history  == <<removed, unseen>>
vars     == <<database, creator, manager, calls, history>>

Base == "base"   \* made from a base, which no row of templates stands for

Owners == {m \in Mail : lab[m] # None}

Chain == [step : {"idle", "subject", "professors", "students", "last"},
          listed : SUBSET Mail, refused : SUBSET Mail]

Idle == [step |-> "idle", listed |-> {}, refused |-> {}]

\* removing and deleting hold one row each: a second click takes the place.
Busy == [adding : BOOLEAN, removing : Mail \cup {None}, defining : BOOLEAN,
         deleting : Template \cup {None}, dropping : BOOLEAN]

NotBusy == [adding |-> FALSE, removing |-> None, defining |-> FALSE,
            deleting |-> None, dropping |-> FALSE]

Loads == {"users", "vms", "templates"}

\* by: who awaits the answer; left when its page was unmounted, nobody when its
\* tab was loaded again or the answer would change nothing.
\* state: a drop goes through three checks.
Call == [by : {"sheet", "panel", "page", "left", "nobody"},
         kind : {"post", "enrol", "instance", "remove", "define", "erase",
                 "erased", "capture", "drop"},
         about : Mail \cup Template \cup {None},
         state : {"sent", "unused", "untemplated", "emptied", "done", "failed"}]

TypeOK ==
    /\ row \in {"none", "there", "gone"}
    /\ enrolled \subseteq Mail
    /\ templates \subseteq Template
    /\ lab \in [Mail -> Template \cup {Base, None}]
    /\ bases \in {"loading", "loaded", "failed"}
    /\ sheet \in {"closed", "form", "waiting"}
    /\ chain \in Chain
    /\ view \in {"elsewhere", "subject", "panel"}
    /\ loading \subseteq Loads
    /\ users \subseteq Mail \ {Manager} /\ vms \subseteq Mail \ {Manager}
    /\ tpls \subseteq Template
    /\ busy \in Busy
    /\ jump \in BOOLEAN
    /\ calls \subseteq Call
    /\ removed \subseteq Mail /\ unseen \subseteq Mail

----------------------------------------------------------------------------
(* Calls *)

NewCall(by, kind, about) ==
    [by |-> by, kind |-> kind, about |-> about, state |-> "sent"]

Answered(c) == c.state \in {"done", "failed"}

\* A click of the manager.
Send(c) ==
    /\ Cardinality({d \in calls : d.by # "sheet"}) < MaxCalls
    /\ calls' = calls \cup {c}

Step(c, state) ==
    calls' = (calls \ {c}) \cup
             IF c.by = "nobody" /\ state \in {"done", "failed"} THEN {}
             ELSE {[c EXCEPT !.state = state]}

\* Nobody awaits the calls of bys any more: those at the backend go on.
Abandoned(cs, bys) ==
    {c \in cs : c.by \notin bys} \cup
    {[c EXCEPT !.by = "nobody"] : c \in {d \in cs : d.by \in bys /\ ~Answered(d)}}

\* handleDelete and handleSubmit of the page's buttons go on without them.
Left(cs) == {IF c.by = "page" THEN [c EXCEPT !.by = "left"] ELSE c : c \in cs}

----------------------------------------------------------------------------
(* The sheet *)

\* A bound: the sheet is used until the subject is there, for one creation after
\* the other.
SheetUsed == row = "none" /\ \A c \in calls : c.kind # "post"

LoadBases ==
    /\ SheetUsed
    /\ bases = "loading"
    /\ bases' \in {"loaded", "failed"}
    /\ UNCHANGED <<database, sheet, chain, manager, calls, history>>

\* onOpenChange and Cancel: not while it waits.  The browser's Back unmounts the
\* sheet that waits, and changes nothing: the chain goes on to its end.
ToggleSheet ==
    /\ SheetUsed
    /\ \/ sheet = "closed" /\ sheet' = "form"
       \/ sheet = "form" /\ sheet' = "closed"
    /\ UNCHANGED <<database, bases, chain, manager, calls, history>>

\* handleSubmit, the form being complete, up to the first call.
SubmitSheet ==
    /\ SheetUsed
    /\ sheet = "form" /\ bases = "loaded"
    /\ calls' = calls \cup {NewCall("sheet", "post", Creator)}
    /\ sheet' = "waiting"
    /\ chain' = [Idle EXCEPT !.step = "subject"]
    /\ UNCHANGED <<database, bases, manager, history>>

TabLoaded ==
    /\ bases' = "loading" /\ sheet' = "closed" /\ chain' = Idle
    /\ removed' = {}

ReloadSheet ==
    /\ TabLoaded
    /\ calls' = Abandoned(calls, {"sheet"})
    /\ UNCHANGED <<database, manager, unseen>>

Enrolments(mails) == {NewCall("sheet", "enrol", m) : m \in mails}

\* The lists that may be typed in the form; the creator heads the professors'.
ProfessorLists == {typed \cup {Creator} : typed \in SUBSET Professor}
StudentLists   == SUBSET (Mail \ Professor)

\* createProfessorVm's.
InstanceCall == NewCall("sheet", "instance", Creator)

\* The form's last section chooses: a virtual machine, or a template of a base.
LastCalls == {InstanceCall} \cup {NewCall("sheet", "define", t) : t \in Template}

\* The chain has made the calls of its list and goes on to the next step.
GoesOn(step, list, refused, cs) ==
    /\ chain' = [step |-> step, listed |-> chain.listed \cup list, refused |-> refused]
    /\ calls' = cs \cup Enrolments(list)

\* The subject is there: its professors are enrolled, all at once.
SubjectCreated(c) ==
    /\ c \in calls /\ c.by = "sheet" /\ c.kind = "post" /\ c.state = "done"
    /\ \E professors \in ProfessorLists :
          GoesOn("professors", professors, {}, calls \ {c})
    /\ UNCHANGED <<database, bases, sheet, manager, history>>

\* Promise.all of the enrolments.
AllAnswered(cs) == \A d \in cs : ~(d.by = "sheet" /\ d.kind = "enrol")

NotRefused(c) == {}

\* enrollmentErrors.
Refused(c) == IF c.state = "failed" THEN {c.about} ELSE {}

\* An enrolment is answered; the last one lets the chain go on, to the students
\* after the professors, and at the end to the virtual machine or the template.
UserEnrolled(c) ==
    /\ c \in calls /\ c.by = "sheet" /\ c.kind = "enrol" /\ c.state \in {"done", "failed"}
    /\ LET others  == calls \ {c}
           refused == chain.refused \cup Refused(c)
       IN  IF ~AllAnswered(others) THEN GoesOn(chain.step, {}, refused, others)
           ELSE \/ /\ chain.step = "professors"
                   /\ \E students \in StudentLists \ {{}} :
                         GoesOn("students", students, refused, others)
                \/ \E last \in LastCalls : GoesOn("last", {}, refused, others \cup {last})
    /\ UNCHANGED <<database, bases, sheet, manager, history>>

EndsOnSuccess(c) == c.state = "done" /\ c.kind \in {"instance", "define"}

\* A failure of the first call ends the chain, one of the last is swallowed.
Ends(c) == (c.kind = "post" /\ c.state = "failed") \/ c.kind \in {"instance", "define"}

\* Whatever happened, handleSubmit closes the sheet and loads the tab again, even
\* on another page, and what was reported is gone.
CreationEnded(c) ==
    /\ c \in calls /\ c.by = "sheet" /\ c.state \in {"done", "failed"}
    /\ Ends(c)
    /\ TabLoaded
    /\ calls' = calls \ {c}
    /\ UNCHANGED <<database, manager, unseen>>

----------------------------------------------------------------------------
(* The subject's page and its panel *)

OpenPage ==
    /\ view = "elsewhere" /\ row = "there"
    /\ view' = "subject"
    /\ UNCHANGED <<database, creator, lists, busy, jump, calls, history>>

NoPanel == loading' = {} /\ users' = {} /\ vms' = {} /\ tpls' = {}

\* SubjectManagementModal: the three hooks of the panel ask for their lists.  A
\* bound: not during the creation, when OtherPanel stands for it.
OpenPanel ==
    /\ view = "subject" /\ view' = "panel"
    /\ chain = Idle
    /\ loading' = Loads
    /\ unseen' = unseen \cup Owners
    /\ UNCHANGED <<database, creator, users, vms, tpls, busy, jump, calls, removed>>

ClosePanel ==
    /\ view = "panel" /\ view' = "subject"
    /\ NoPanel /\ busy' = [NotBusy EXCEPT !.dropping = busy.dropping]
    /\ calls' = Abandoned(calls, {"panel"})
    /\ UNCHANGED <<database, creator, jump, history>>

\* A link of the page, the browser's buttons, or navigate of DeleteSubjectButton,
\* wherever the user has gone meanwhile.
LeavePage ==
    /\ view # "elsewhere" \/ jump
    /\ view' = "elsewhere" /\ jump' \in {FALSE, jump}
    /\ NoPanel /\ busy' = NotBusy
    /\ calls' = Left(Abandoned(calls, {"panel"}))
    /\ UNCHANGED <<database, creator, history>>

\* The tab of the page is loaded again; its subject may be gone.
PageLoaded(cs) ==
    /\ view' \in {"elsewhere", view} \ {"panel"}
    /\ row # "there" => view' = "elsewhere"
    /\ jump' = FALSE
    /\ NoPanel /\ busy' = NotBusy
    /\ calls' = Abandoned(cs, {"panel", "page", "left"})

ReloadPage ==
    /\ PageLoaded(calls)
    /\ UNCHANGED <<database, creator, history>>

\* handleAddUser.
AddUser(m) ==
    /\ view = "panel" /\ ~busy.adding
    /\ Send(NewCall("panel", "enrol", m))
    /\ busy' = [busy EXCEPT !.adding = TRUE]
    /\ UNCHANGED <<database, creator, view, lists, jump, history>>

NeverHasInstances(m) == FALSE

\* As far as the panel knows.
HasInstances(m) == m \in vms

\* The row's button.
RemoveOffered(m) ==
    /\ view = "panel" /\ m \in users
    /\ ~HasInstances(m) /\ busy.removing # m

\* handleRemove.
RemoveUser(m) ==
    /\ RemoveOffered(m)
    /\ Send(NewCall("panel", "remove", m))
    /\ busy' = [busy EXCEPT !.removing = m]
    /\ UNCHANGED <<database, creator, view, lists, jump, history>>

\* The dialog of the panel's templates, its fields being filled in.
TemplateFormReady == view = "panel" /\ ~busy.defining

\* handleCreateTemplate.
CreateTemplate(t) ==
    /\ TemplateFormReady
    /\ Send(NewCall("panel", "define", t))
    /\ busy' = [busy EXCEPT !.defining = TRUE]
    /\ UNCHANGED <<database, creator, view, lists, jump, history>>

\* The row's button.
DeleteOffered(t) == view = "panel" /\ t \in tpls /\ busy.deleting # t

\* handleDelete of SubjectTemplatesManager.
DeleteTemplate(t) ==
    /\ DeleteOffered(t)
    /\ Send(NewCall("panel", "erase", t))
    /\ busy' = [busy EXCEPT !.deleting = t]
    /\ UNCHANGED <<database, creator, view, lists, jump, history>>

\* handleDelete of DeleteSubjectButton.
DeleteSubject ==
    /\ view = "subject" /\ ~busy.dropping
    /\ Send(NewCall("page", "drop", None))
    /\ busy' = [busy EXCEPT !.dropping = TRUE]
    /\ UNCHANGED <<database, creator, view, lists, jump, history>>

\* DefineTemplateButton is next to the manager's own instance; its dialog cannot be
\* closed while it waits.
DefineOffered ==
    /\ view = "subject" /\ Manager \in Owners
    /\ \A c \in calls : c.kind = "capture" => c.by # "page"

\* Its handleSubmit.
DefineTemplate(t) ==
    /\ DefineOffered
    /\ Send(NewCall("page", "capture", t))
    /\ UNCHANGED <<database, creator, manager, history>>

\* The manager's own row is apart, without a button.
Others(mails) == mails \ {Manager}

\* The removal of m has been decided, by a click or by DeleteSubject's check.
RemovalDecided(m) ==
    \E c \in calls : \/ c.kind = "remove" /\ c.about = m
                     \/ c.kind = "drop" /\ c.state \in {"unused", "untemplated"}

\* A first fetch: its list is shown, or the panel keeps it empty.
LoadList(kind) ==
    /\ kind \in loading
    /\ loading' = loading \ {kind}
    /\ users' \in IF kind = "users"     THEN {Others(enrolled), users} ELSE {users}
    /\ tpls'  \in IF kind = "templates" THEN {templates, tpls}         ELSE {tpls}
    /\ \/ /\ kind = "vms"
          /\ vms' = Others(Owners)
          /\ unseen' = {m \in unseen : RemovalDecided(m)}
       \/ UNCHANGED <<vms, unseen>>
    /\ UNCHANGED <<database, creator, view, busy, jump, calls, removed>>

\* The spinner of a call stops, with that of whoever took its place.
Spinners(c) ==
    CASE c.kind = "enrol"  -> [busy EXCEPT !.adding = FALSE]
      [] c.kind = "remove" -> [busy EXCEPT !.removing = None]
      [] c.kind = "define" -> [busy EXCEPT !.defining = FALSE]
      [] c.kind = "erase"  -> [busy EXCEPT !.deleting = None]
      [] c.kind = "erased" -> busy

\* handleDelete fetches the templates again, after deleteTemplate did.
Then(c) == IF c.kind = "erase" THEN {[c EXCEPT !.kind = "erased"]} ELSE {}

\* The call has succeeded and its hook fetches the list again, or fails to and
\* keeps the old one.
ShowList(c) ==
    /\ c \in calls /\ c.by = "panel" /\ c.state = "done"
    /\ users' \in IF c.kind \in {"enrol", "remove"}
                  THEN {Others(enrolled), users} ELSE {users}
    /\ tpls'  \in IF c.kind \in {"define", "erase", "erased"}
                  THEN {templates, tpls} ELSE {tpls}
    /\ busy' = Spinners(c)
    /\ calls' = (calls \ {c}) \cup Then(c)
    /\ UNCHANGED <<database, creator, view, loading, vms, jump, history>>

ReportFailure(c) ==
    /\ c \in calls /\ c.by = "panel" /\ c.state = "failed"
    /\ busy' = Spinners(c)
    /\ calls' = calls \ {c}
    /\ UNCHANGED <<database, creator, view, lists, jump, history>>

JumpsAfterAll(c) == TRUE

JumpsAfter(c) == c.state = "done"

\* DeleteSubjectButton: navigate is scheduled, and never cancelled.
SubjectDeleted(c) ==
    /\ c \in calls /\ c.by \in {"page", "left"} /\ c.kind = "drop" /\ Answered(c)
    /\ jump' = (jump \/ JumpsAfter(c))
    /\ busy' = IF c.by = "page" THEN [busy EXCEPT !.dropping = FALSE] ELSE busy
    /\ calls' = calls \ {c}
    /\ UNCHANGED <<database, creator, view, lists, history>>

\* DefineTemplateButton loads the tab again, even on another page.
TemplateDefined(c) ==
    /\ c \in calls /\ c.by \in {"page", "left"} /\ c.kind = "capture" /\ Answered(c)
    /\ PageLoaded(calls \ {c})
    /\ UNCHANGED <<database, creator, history>>

----------------------------------------------------------------------------
(* The backend *)

\* An answer reaches the tab, or is lost and taken for a failure.
Outcome == {"done", "failed"}

\* The checks find something, or a statement or the network fails.
Refuse(c) ==
    /\ c \in calls /\ ~Answered(c)
    /\ Step(c, "failed")
    /\ UNCHANGED <<database, creator, manager, history>>

\* CreateSubject.  A bound: the subject is made once.
PerformPost(c) ==
    /\ c \in calls /\ c.kind = "post" /\ c.state = "sent"
    /\ row = "none" /\ row' = "there"
    /\ \E s \in Outcome : Step(c, s)
    /\ UNCHANGED <<enrolled, templates, lab, creator, manager, history>>

\* EnrollUserInSubject: a user who is enrolled breaks the primary key.
PerformEnrol(c) ==
    /\ c \in calls /\ c.kind = "enrol" /\ c.state = "sent"
    /\ row = "there" /\ c.about \in Registered \ enrolled
    /\ enrolled' = enrolled \cup {c.about}
    /\ removed' = removed \ {c.about}
    /\ \E s \in Outcome : Step(c, s)
    /\ UNCHANGED <<row, templates, lab, creator, manager, unseen>>

\* RemoveUserFromSubject does not look at instances.
PerformRemove(c) ==
    /\ c \in calls /\ c.kind = "remove" /\ c.state = "sent"
    /\ row = "there"
    /\ enrolled' = enrolled \ {c.about}
    /\ removed' = IF chain = Idle THEN {} ELSE removed \cup {c.about}
    /\ \E s \in Outcome : Step(c, s)
    /\ UNCHANGED <<row, templates, lab, creator, manager, unseen>>

\* DefineTemplate; of an instance too, which the VMS Manager copies.
PerformDefine(c) ==
    /\ c \in calls /\ c.kind \in {"define", "capture"} /\ c.state = "sent"
    /\ row = "there"
    /\ templates' = templates \cup {c.about}
    /\ \E s \in Outcome : Step(c, s)
    /\ UNCHANGED <<row, enrolled, lab, creator, manager, history>>

\* ON DELETE SET NULL would clear subject_id too, which is NOT NULL.
TemplateRemovable(t) == \A m \in Mail : lab[m] # t

PerformErase(c) ==
    /\ c \in calls /\ c.kind = "erase" /\ c.state = "sent"
    /\ TemplateRemovable(c.about)
    /\ templates' = templates \ {c.about}
    /\ \E s \in Outcome : Step(c, s)
    /\ UNCHANGED <<row, enrolled, lab, creator, manager, history>>

\* CreateInstance asks for neither an enrolment nor a second instance; the
\* foreign keys need the subject and the template.  A bound: one for each user.
Insert(m, source) ==
    /\ row = "there" /\ lab[m] = None
    /\ lab' = [lab EXCEPT ![m] = source]
    /\ unseen' = unseen \cup {m}
    /\ UNCHANGED <<row, enrolled, templates, creator, manager, removed>>

PerformInstance(c) ==
    /\ c \in calls /\ c.kind = "instance" /\ c.state = "sent"
    /\ \E source \in templates \cup {Base} : Insert(c.about, source)
    /\ \E s \in Outcome : Step(c, s)

\* The panel of another professor, during the creation.
OtherPanel(m) ==
    /\ row = "there" /\ chain # Idle
    /\ \/ /\ m \in enrolled
          /\ enrolled' = enrolled \ {m}
          /\ removed' = removed \cup {m}
       \/ /\ m \in Registered \ enrolled
          /\ enrolled' = enrolled \cup {m}
          /\ removed' = removed \ {m}
    /\ UNCHANGED <<row, templates, lab, creator, manager, calls, unseen>>

\* A user in another tab.
RequestInstance(m) ==
    /\ \E source \in templates : Insert(m, source)
    /\ UNCHANGED calls

DeleteInstance(m) ==
    /\ m \in Owners
    /\ lab' = [lab EXCEPT ![m] = None]
    /\ unseen' = unseen \ {m}
    /\ UNCHANGED <<row, enrolled, templates, creator, manager, calls, removed>>

\* DeleteSubject, one statement at a time: the subject is there and without
\* instances ...
CheckInstances(c) ==
    /\ c \in calls /\ c.kind = "drop" /\ c.state = "sent"
    /\ row = "there" /\ Owners = {}
    /\ Step(c, "unused")
    /\ UNCHANGED <<database, creator, manager, history>>

\* ... it is without templates ...
CheckTemplates(c) ==
    /\ c \in calls /\ c.kind = "drop" /\ c.state = "unused"
    /\ templates = {}
    /\ Step(c, "untemplated")
    /\ UNCHANGED <<database, creator, manager, history>>

\* ... its users go, whatever has come since it was checked ...
DeleteAllUsers(c) ==
    /\ c \in calls /\ c.kind = "drop" /\ c.state = "untemplated"
    /\ enrolled' = {}
    /\ removed' = IF chain = Idle THEN {} ELSE removed \cup enrolled
    /\ Step(c, "emptied")
    /\ UNCHANGED <<row, templates, lab, creator, manager, unseen>>

SubjectAlwaysRemovable == TRUE

\* The foreign keys of user_subjects, templates and instances.
SubjectRemovable == enrolled = {} /\ templates = {} /\ Owners = {}

\* ... and it goes.
DeleteRow(c) ==
    /\ c \in calls /\ c.kind = "drop" /\ c.state = "emptied"
    /\ SubjectRemovable
    /\ row' = IF row = "none" THEN "none" ELSE "gone"
    /\ \E s \in Outcome : Step(c, s)
    /\ UNCHANGED <<enrolled, templates, lab, creator, manager, history>>

----------------------------------------------------------------------------
Init ==
    /\ row = "none" /\ enrolled = {} /\ templates = {}
    /\ lab = [m \in Mail |-> None]
    /\ bases = "loading" /\ sheet = "closed" /\ chain = Idle
    /\ view = "elsewhere" /\ loading = {} /\ users = {} /\ vms = {} /\ tpls = {}
    /\ busy = NotBusy /\ jump = FALSE
    /\ calls = {}
    /\ removed = {} /\ unseen = {}

Backend(c) ==
    \/ Refuse(c) \/ PerformPost(c) \/ PerformEnrol(c) \/ PerformRemove(c)
    \/ PerformDefine(c) \/ PerformErase(c) \/ PerformInstance(c)
    \/ CheckInstances(c) \/ CheckTemplates(c) \/ DeleteAllUsers(c) \/ DeleteRow(c)

SheetStep(c) == SubjectCreated(c) \/ UserEnrolled(c) \/ CreationEnded(c)

Next ==
    \/ LoadBases \/ ToggleSheet \/ SubmitSheet \/ ReloadSheet
    \/ OpenPage \/ OpenPanel \/ ClosePanel \/ LeavePage \/ ReloadPage
    \/ DeleteSubject
    \/ \E m \in Mail :
           AddUser(m) \/ RemoveUser(m) \/ RequestInstance(m) \/ DeleteInstance(m)
           \/ OtherPanel(m)
    \/ \E kind \in Loads : LoadList(kind)
    \/ \E t \in Template : CreateTemplate(t) \/ DeleteTemplate(t) \/ DefineTemplate(t)
    \/ \E c \in calls :
           \/ SheetStep(c) \/ Backend(c)
           \/ ShowList(c) \/ ReportFailure(c)
           \/ SubjectDeleted(c) \/ TemplateDefined(c)

Spec == Init /\ [][Next]_vars

\* The backend answers a call or the connection breaks, and the browser runs the
\* rest of the chain.
Fairness == WF_vars(\E c \in calls : c.by = "sheet" /\ (SheetStep(c) \/ Backend(c)))

FairSpec == Spec /\ Fairness

----------------------------------------------------------------------------
(* Properties *)

\* What refers to the subject, and an instance to its template, is there: the
\* checks of DeleteSubject are too early to keep it, the foreign keys do.
NoOrphans ==
    /\ row # "there" => enrolled = {} /\ templates = {} /\ Owners = {}
    /\ \A m \in Owners : lab[m] \in templates \cup {Base}

\* Once useCreateSubject goes on from a list of users, each of them is enrolled,
\* or in enrollmentErrors, or was removed by somebody else.
ListedAccounted ==
    LET passed == IF chain.step = "last" THEN chain.listed
                  ELSE IF chain.step = "students" THEN chain.listed \cap Professor ELSE {}
    IN  passed \subseteq enrolled \cup chain.refused \cup removed

\* Whoever has an instance is removed by a panel or with the subject only if it was
\* not there yet when the panel read its list, or DeleteSubject checked, and a removal
\* decided before it came is not stopped.  The panel of another professor, whose list
\* is not modelled, may remove anybody.
SeenOwnersStay ==
    [][\A m \in (enrolled \ enrolled') \cap Owners : m \in unseen \/ OtherPanel(m)]_vars

\* DeleteSubjectButton takes the user away only from a subject that is gone.
JumpsFromDeleted == jump => row = "gone"

\* The sheet that waits, and cannot be closed, is closed in the end, whichever of
\* its calls fail.
SheetEnds == sheet = "waiting" ~> sheet # "waiting"
=============================================================================
