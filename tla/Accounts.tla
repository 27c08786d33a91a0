------------------------------- MODULE Accounts -------------------------------
(***************************************************************************)
(* Accounts from registration to deletion: the tables users and            *)
(* unverified_users of the web backend (api.go, user_service.go,           *)
(* database.go), the pages its mails lead to (VerifyEmail.tsx,             *)
(* ResetPassword.tsx), ForgotPasswordForm.tsx, CreateProfessorForm.tsx and *)
(* the administrator's UserManager.tsx with the hooks it is made of.       *)
(*                                                                         *)
(* A handler that makes several statements outside a transaction is as     *)
(* many steps.  UUIDs are numbers given out in order; passwords are left   *)
(* out, but for the link by which they were changed.                       *)
(***************************************************************************)
EXTENDS Naturals, FiniteSets

CONSTANTS
    Mail,      \* the addresses
    Page,      \* the tabs in which forms and mailed links are open
    None,      \* no row, nobody
    MaxMade,   \* the model's bound on the UUIDs given out
    MaxBusy,   \* the model's bound on the pages, the dialog, and the manager's
               \* fetches and actions there are at a time
    Faults     \* {"lost"} when a call may fail on its way or in the database

ASSUME MailAssumption == None \notin Mail
ASSUME MadeAssumption == MaxMade \in Nat /\ None \notin Nat

VARIABLES
    pending,    \* the table unverified_users, by address
    users,      \* the table users, by address
    enrolled,   \* the users of user_subjects
    owners,     \* the users of instances and of subjects they direct
    made,       \* how many UUIDs were given out
    links,      \* the links that were mailed
    pages,      \* what the pages show and wait for
    deletion,   \* UserManager: the deletion in progress
    view,       \* UserManager: the table, the spinner or the error
    table,      \* UserManager: the users listed
    selected,   \* UserManager: selectedUserId
    shown,      \* useUserInstances: whose instances it holds, None when none
    loading,    \* useUserInstances' loading
    fetches,    \* useUserInstances: the fetches in flight
    acts,       \* UserManager: whose instance a button in flight acts upon
    created,    \* history: the accounts there have ever been
    used,       \* history: the links a password was changed by
    crossed     \* history: the selection changed during a fetch or an action

database == <<pending, users, enrolled, owners, made, links>>
history  == <<created, used>>
manager  == <<deletion, view, table, selected, shown, loading, fetches, acts, crossed>>
vars     == <<database, history, pages, manager>>

Id       == 1..MaxMade
Pending  == [id : Id, token : Id]
Account  == [id : Id, reset : Id \cup {None}]
Link     == [kind : {"verify", "reset"}, token : Id]
PageKind == {"none", "verify", "reset", "forgot", "professor"}
Step     == {"form", "asked", "valid", "stored", "yes", "no", "success", "error"}
PageOf   == [kind : PageKind, step : Step, token : Id \cup {None},
             mail : Mail \cup {None}, id : Id \cup {None}]
Fetch    == [id : Id, by : {"click", "refresh"}]
Outcome  == {"ok"} \cup Faults

ASSUME RowAssumption == None \notin Pending \cup Account

NewPage(kind, step, token, mail) ==
    [kind |-> kind, step |-> step, token |-> token, mail |-> mail, id |-> None]

NoPage     == NewPage("none", "form", None, None)
NoDeletion == [step |-> "none", id |-> None]

TypeOK ==
    /\ pending \in [Mail -> Pending \cup {None}]
    /\ users \in [Mail -> Account \cup {None}]
    /\ enrolled \subseteq Id /\ owners \subseteq Id
    /\ made \in 0..MaxMade
    /\ links \subseteq Link
    /\ pages \in [Page -> PageOf]
    /\ deletion \in [step : {"none", "dialog", "asked", "checked", "yes", "no", "listing"},
                     id : Id \cup {None}]
    /\ view \in {"loading", "table", "error"}
    /\ table \subseteq Id
    /\ selected \in Id \cup {None} /\ shown \in Id \cup {None}
    /\ loading \in BOOLEAN
    /\ fetches \subseteq Fetch
    /\ acts \subseteq Id
    /\ created \subseteq Id /\ used \subseteq Id
    /\ crossed \in BOOLEAN

\* There is room for another page, dialog, fetch or action.
Room ==
    Cardinality({g \in Page : pages[g] # NoPage}) + Cardinality(fetches) + Cardinality(acts)
        + Cardinality({deletion} \ {NoDeletion}) < MaxBusy

----------------------------------------------------------------------------
(* The database *)

Verified(m) == users[m] # None

Ids == {users[m].id : m \in {n \in Mail : Verified(n)}}

\* GetAllUsers: what the pages name a user by is his id, not his address.
Listed == Ids

\* A number nobody has: the model's bound on uuid.New().
Fresh == made + 1
Draw == made < MaxMade /\ made' = Fresh

\* UserExistsByMail: among the users, and not awaiting verification.
UserExistsByMail(m) == Verified(m) /\ pending[m] = None

\* ValidatePasswordResetToken, and the address of an unverified_users row.
ResetBy(k) == {m \in Mail : Verified(m) /\ users[m].reset = k}
AwaitedBy(k) == {m \in Mail : pending[m] # None /\ pending[m].token = k}

\* users(id) is referenced by user_subjects, instances and subjects.
NeverReferenced(id) == FALSE
Referenced(id) == id \in enrolled \cup owners

\* SendEmail may fail, or the mail never arrive: the link is never followed.
Mailed(kind, k) == links' = links \cup {[kind |-> kind, token |-> k]}

----------------------------------------------------------------------------
(* Registration *)

\* handleCreateUser: an address awaits verification once; that it has an
\* account already is not looked at.  Whether the mail went is not told.
Register(m) ==
    /\ pending[m] = None
    /\ Draw
    /\ pending' = [pending EXCEPT ![m] = [id |-> Fresh, token |-> Fresh]]
    /\ Mailed("verify", Fresh)
    /\ UNCHANGED <<users, enrolled, owners, history, pages, manager>>

\* handleVerifyEmail: a new link, whether or not the address awaits one.
ResendVerification(m) ==
    /\ Draw
    /\ pending' = IF pending[m] = None THEN pending
                  ELSE [pending EXCEPT ![m].token = Fresh]
    /\ Mailed("verify", Fresh)
    /\ UNCHANGED <<users, enrolled, owners, history, pages, manager>>

----------------------------------------------------------------------------
(* Pages *)

Steps(g, s) == pages' = [pages EXCEPT ![g].step = s]

At(g, k, s) == pages[g].kind = k /\ pages[g].step = s

\* A link is followed in a tab, or the tab is closed.
OpenLink(g, l) ==
    /\ Room \/ pages[g] # NoPage
    /\ pages' = [pages EXCEPT ![g] =
           NewPage(l.kind, IF l.kind = "verify" THEN "asked" ELSE "form", l.token, None)]
    /\ UNCHANGED <<database, history, manager>>

ClosePage(g) ==
    /\ pages[g] # NoPage
    /\ pages' = [pages EXCEPT ![g] = NoPage]
    /\ UNCHANGED <<database, history, manager>>

\* CreateProfessorForm reports success whatever happened.
Believes(g, outcome) ==
    pages[g].kind = "professor" \/ (pages[g].step = "yes" /\ outcome = "ok")

\* fetch returns, or fails: a page shows what it was told.
FinishPage(g, outcome) ==
    /\ pages[g].step \in {"yes", "no"}
    /\ Steps(g, IF Believes(g, outcome) THEN "success" ELSE "error")
    /\ UNCHANGED <<database, history, manager>>

\* VerifyUser when its transaction is never committed, and when it forgets to
\* remove the row.
VerifyUserUncommitted(m) == UNCHANGED <<users, pending, created>>
VerifyUserKeepingRow(m) ==
    /\ users' = [users EXCEPT ![m] = [id |-> pending[m].id, reset |-> None]]
    /\ created' = created \cup {pending[m].id}
    /\ UNCHANGED pending

\* VerifyUser's transaction: the row moves to users.
MoveRow(m) ==
    /\ users' = [users EXCEPT ![m] = [id |-> pending[m].id, reset |-> None]]
    /\ pending' = [pending EXCEPT ![m] = None]
    /\ created' = created \cup {pending[m].id}

\* VerifyUser of an address that has an account answers so, and that answer
\* being an error, the removal of the row is rolled back.
VerifyUser(g) ==
    LET m == CHOOSE n \in AwaitedBy(pages[g].token) : TRUE IN
    /\ At(g, "verify", "asked")
    /\ \/ /\ AwaitedBy(pages[g].token) = {} /\ Steps(g, "no")
          /\ UNCHANGED <<pending, users, created>>
       \/ /\ "lost" \in Faults /\ Steps(g, "no")
          /\ UNCHANGED <<pending, users, created>>
       \/ /\ AwaitedBy(pages[g].token) # {} /\ Verified(m)
          /\ pages' = [pages EXCEPT ![g].step = "yes", ![g].id = users[m].id]
          /\ UNCHANGED <<pending, users, created>>
       \/ /\ AwaitedBy(pages[g].token) # {} /\ ~Verified(m)
          /\ MoveRow(m)
          /\ pages' = [pages EXCEPT ![g].step = "yes", ![g].id = pending[m].id]
    /\ UNCHANGED <<enrolled, owners, made, links, used, manager>>

\* ResetPassword's form: submitted again after an error, never meanwhile.
SubmitReset(g) ==
    /\ pages[g].kind = "reset" /\ pages[g].step \in {"form", "error"}
    /\ Steps(g, "asked")
    /\ UNCHANGED <<database, history, manager>>

\* handleResetPassword finds the account of the token ...
ValidatePasswordResetToken(g) ==
    /\ At(g, "reset", "asked")
    /\ \/ \E m \in ResetBy(pages[g].token) :
              pages' = [pages EXCEPT ![g].step = "valid", ![g].id = users[m].id]
       \/ (ResetBy(pages[g].token) = {} \/ "lost" \in Faults) /\ Steps(g, "no")
    /\ UNCHANGED <<database, history, manager>>

KeepToken(id) == UNCHANGED users

\* ... and then sets its password and takes its token, whichever it is by now.
ClearToken(id) ==
    users' = [m \in Mail |->
        IF Verified(m) /\ users[m].id = id THEN [users[m] EXCEPT !.reset = None] ELSE users[m]]

UpdatePassword(g) ==
    /\ At(g, "reset", "valid")
    /\ \/ /\ ClearToken(pages[g].id)
          /\ used' = IF pages[g].id \in Ids THEN used \cup {pages[g].token} ELSE used
          /\ Steps(g, "yes")
       \/ "lost" \in Faults /\ Steps(g, "no") /\ UNCHANGED <<users, used>>
    /\ UNCHANGED <<pending, enrolled, owners, made, links, created, manager>>

\* A token older than 24 hours finds no account.
TokenExpires(m) ==
    /\ Verified(m) /\ users[m].reset # None
    /\ users' = [users EXCEPT ![m].reset = None]
    /\ UNCHANGED <<pending, enrolled, owners, made, links, history, pages, manager>>

\* ForgotPasswordForm: again after an error, or in a tab that shows nothing.
SubmitForgot(g, m) ==
    /\ (Room /\ pages[g] = NoPage) \/ At(g, "forgot", "error")
    /\ pages' = [pages EXCEPT ![g] = NewPage("forgot", "asked", None, m)]
    /\ UNCHANGED <<database, history, manager>>

\* handleForgotPassword says the same to an address it does not know; it asks the
\* users only, unlike an enrolment, whatever else awaits verification ...
LookUpMail(g) ==
    /\ At(g, "forgot", "asked")
    /\ \/ Verified(pages[g].mail) /\ Steps(g, "valid")
       \/ (~Verified(pages[g].mail) \/ "lost" \in Faults) /\ Steps(g, "yes")
    /\ UNCHANGED <<database, history, manager>>

\* ... stores a token in the row, in place of the one there was ...
CreatePasswordResetToken(g) ==
    LET m == pages[g].mail IN
    /\ At(g, "forgot", "valid")
    /\ \/ /\ Draw
          /\ users' = IF Verified(m) THEN [users EXCEPT ![m].reset = Fresh] ELSE users
          /\ pages' = [pages EXCEPT ![g].step = "stored", ![g].token = Fresh]
       \/ "lost" \in Faults /\ Steps(g, "no") /\ UNCHANGED <<users, made>>
    /\ UNCHANGED <<pending, enrolled, owners, links, history, manager>>

\* ... and mails the link.
SendResetLink(g) ==
    /\ At(g, "forgot", "stored")
    /\ Mailed("reset", pages[g].token)
    /\ Steps(g, "yes") \/ Steps(g, "no")
    /\ UNCHANGED <<pending, users, enrolled, owners, made, history, manager>>

\* CreateProfessorForm: an address is typed, the summary confirmed.
SubmitProfessor(g, m) ==
    /\ Room /\ pages[g] = NoPage
    /\ pages' = [pages EXCEPT ![g] = NewPage("professor", "asked", None, m)]
    /\ UNCHANGED <<database, history, manager>>

\* handleCreateProfessor: an account at once, its password only in the mail.
CreateProfessor(g) ==
    LET m == pages[g].mail IN
    /\ At(g, "professor", "asked")
    /\ \/ /\ ~Verified(m) /\ Draw
          /\ users' = [users EXCEPT ![m] = [id |-> Fresh, reset |-> None]]
          /\ created' = created \cup {Fresh}
          /\ Steps(g, "yes")
       \/ /\ Verified(m) \/ "lost" \in Faults
          /\ Steps(g, "no")
          /\ UNCHANGED <<users, made, created>>
    /\ UNCHANGED <<pending, enrolled, owners, links, used, manager>>

----------------------------------------------------------------------------
(* What others do with the accounts *)

\* EnrollUserInSubject and RemoveUserFromSubject.
Enroll(m) ==
    /\ UserExistsByMail(m)
    /\ enrolled' = enrolled \cup {users[m].id}
    /\ UNCHANGED <<pending, users, owners, made, links, history, pages, manager>>

Unenroll(id) ==
    /\ enrolled' = enrolled \ {id}
    /\ UNCHANGED <<pending, users, owners, made, links, history, pages, manager>>

\* CreateInstance inserts a row for the user, CreateSubject one for its professor.
Own(id) ==
    /\ id \in Ids
    /\ owners' = owners \cup {id}
    /\ UNCHANGED <<pending, users, enrolled, made, links, history, pages, manager>>

----------------------------------------------------------------------------
(* UserManager *)

\* The control plane is opened, or reloaded: the list is fetched.
OpenUserManager ==
    /\ deletion' = NoDeletion /\ view' = "loading" /\ table' = {}
    /\ selected' = None /\ shown' = None /\ loading' = FALSE
    /\ fetches' = {} /\ acts' = {} /\ crossed' = FALSE
    /\ UNCHANGED <<database, history, pages>>

\* fetchUsers ends, read and shown at once.  An error takes the page's place.
FinishUsers(outcome) ==
    /\ view = "loading"
    /\ IF outcome = "ok" THEN view' = "table" /\ table' = Listed
       ELSE view' = "error" /\ UNCHANGED table
    /\ deletion' = IF deletion.step = "listing" THEN NoDeletion ELSE deletion
    /\ UNCHANGED <<database, history, pages, selected, shown, loading, fetches, acts, crossed>>

\* fetchInstances for a user, who may not be the one selected.
FetchFor(rest, id, by) ==
    /\ fetches' = rest \cup {[id |-> id, by |-> by]}
    /\ loading' = TRUE

\* handleUserClick changes selectedUserId; what is in flight is not forgotten.
Crosses == crossed' = (fetches # {} \/ acts # {})

SelectUser(id) ==
    /\ Room /\ view = "table" /\ id \in table /\ id # selected
    /\ selected' = id
    /\ FetchFor(fetches, id, "click")
    /\ Crosses
    /\ UNCHANGED <<database, history, pages, deletion, view, table, shown, acts>>

KeepInstances == UNCHANGED shown

NoInstances == shown' = None

\* A click on the selected user deselects him.
Deselect ==
    /\ view = "table" /\ selected # None /\ selected \in table
    /\ selected' = None
    /\ NoInstances
    /\ loading' = FALSE
    /\ Crosses
    /\ UNCHANGED <<database, history, pages, deletion, view, table, fetches, acts>>

\* handleRefresh: both lists; its button is disabled until both are there.
Refresh ==
    /\ Room /\ view = "table" /\ \A f \in fetches : f.by # "refresh"
    /\ view' = "loading"
    /\ IF selected = None THEN UNCHANGED <<fetches, loading>>
       ELSE FetchFor(fetches, selected, "refresh")
    /\ UNCHANGED <<database, history, pages, deletion, table, selected, shown, acts, crossed>>

\* fetchInstances ends: none is shown of a user who has none, nor on an error.
FinishInstances(f, outcome) ==
    /\ f \in fetches
    /\ fetches' = fetches \ {f}
    /\ shown' = IF outcome = "ok" /\ f.id \in owners THEN f.id ELSE None
    /\ loading' = FALSE
    /\ UNCHANGED <<database, history, pages, deletion, view, table, selected, acts, crossed>>

\* A button on an instance of the panel.
ActOnInstance ==
    /\ Room /\ view = "table" /\ selected # None /\ ~loading /\ shown # None
    /\ acts' = acts \cup {shown}
    /\ UNCHANGED <<database, history, pages, deletion, view, table, selected, shown, loading,
                   fetches, crossed>>

\* It may have deleted the user's last one; the panel that had the button
\* fetches the instances of the user that was selected then.
ActionEnds(id) ==
    /\ id \in acts
    /\ acts' = acts \ {id}
    /\ owners' \in {owners, owners \ {id}}
    /\ FetchFor(fetches, id, "click")
    /\ UNCHANGED <<pending, users, enrolled, made, links, history, pages, deletion, view, table,
                   selected, shown, crossed>>

\* The dialog asks which user to delete.  The buttons that open it are disabled
\* while the panel's list is not empty, be it the selected user's or not.
OpenDialog(id) ==
    /\ view = "table" /\ id \in table /\ shown = None
    /\ Room /\ deletion = NoDeletion
    /\ deletion' = [step |-> "dialog", id |-> id]
    /\ UNCHANGED <<database, history, pages, view, table, selected, shown, loading, fetches,
                   acts, crossed>>

\* handleDeleteUser, or Cancel.
AnswerDialog ==
    /\ view = "table" /\ deletion.step = "dialog"
    /\ deletion' \in {[deletion EXCEPT !.step = "asked"], NoDeletion}
    /\ UNCHANGED <<database, history, pages, view, table, selected, shown, loading, fetches,
                   acts, crossed>>

\* DeleteUser asks for the user and his subjects; an error is taken for none.
CheckDeletion ==
    /\ deletion.step = "asked"
    /\ \/ /\ deletion.id \in Ids /\ (deletion.id \notin enrolled \/ "lost" \in Faults)
          /\ deletion' = [deletion EXCEPT !.step = "checked"]
       \/ /\ deletion.id \notin Ids \ enrolled \/ "lost" \in Faults
          /\ deletion' = [deletion EXCEPT !.step = "no"]
    /\ UNCHANGED <<database, history, pages, view, table, selected, shown, loading, fetches,
                   acts, crossed>>

\* The row goes, unless another refers to it.
DeleteRow ==
    /\ deletion.step = "checked"
    /\ IF Referenced(deletion.id) THEN
           /\ deletion' = [deletion EXCEPT !.step = "no"]
           /\ UNCHANGED users
       ELSE
           /\ deletion' = [deletion EXCEPT !.step = "yes"]
           /\ users' = [m \in Mail |->
                  IF Verified(m) /\ users[m].id = deletion.id THEN None ELSE users[m]]
    /\ UNCHANGED <<pending, enrolled, owners, made, links, history, pages, view, table,
                   selected, shown, loading, fetches, acts, crossed>>

\* deleteUser lists the users again before it returns.
FinishDelete(outcome) ==
    /\ deletion.step \in {"yes", "no"}
    /\ IF deletion.step = "yes" /\ outcome = "ok"
       THEN view' = "loading" /\ deletion' = [deletion EXCEPT !.step = "listing"]
       ELSE deletion' = NoDeletion /\ UNCHANGED view
    /\ UNCHANGED <<database, history, pages, table, selected, shown, loading, fetches, acts,
                   crossed>>

----------------------------------------------------------------------------
Init ==
    /\ pending = [m \in Mail |-> None] /\ users = [m \in Mail |-> None]
    /\ enrolled = {} /\ owners = {} /\ made = 0 /\ links = {}
    /\ pages = [g \in Page |-> NoPage]
    /\ deletion = NoDeletion /\ view = "loading" /\ table = {}
    /\ selected = None /\ shown = None /\ loading = FALSE
    /\ fetches = {} /\ acts = {} /\ crossed = FALSE
    /\ created = {} /\ used = {}

Database ==
    \/ \E m \in Mail :
           \/ Register(m) \/ ResendVerification(m)
           \/ TokenExpires(m) \/ Enroll(m)
    \/ \E id \in enrolled : Unenroll(id)
    \/ \E id \in Ids : Own(id)

Pages == \E g \in Page :
    \/ \E l \in links : OpenLink(g, l)
    \/ \E outcome \in Outcome : FinishPage(g, outcome)
    \/ ClosePage(g) \/ VerifyUser(g)
    \/ SubmitReset(g) \/ ValidatePasswordResetToken(g) \/ UpdatePassword(g)
    \/ \E m \in Mail : SubmitForgot(g, m) \/ SubmitProfessor(g, m)
    \/ LookUpMail(g) \/ CreatePasswordResetToken(g) \/ SendResetLink(g)
    \/ CreateProfessor(g)

UserManager ==
    \/ OpenUserManager \/ Deselect \/ Refresh \/ ActOnInstance
    \/ AnswerDialog \/ CheckDeletion \/ DeleteRow
    \/ \E outcome \in Outcome :
           \/ FinishUsers(outcome) \/ FinishDelete(outcome)
           \/ \E f \in fetches : FinishInstances(f, outcome)
    \/ \E id \in table : SelectUser(id) \/ OpenDialog(id)
    \/ \E id \in acts : ActionEnds(id)

Next == Database \/ Pages \/ UserManager

Spec == Init /\ [][Next]_vars

----------------------------------------------------------------------------
(* Properties *)

\* A page that reports success tells the truth: the address it verified has or
\* had an account; the password was set by its link, unless the account was
\* deleted between the two statements of handleResetPassword.
SuccessTrue ==
    \A g \in Page :
        /\ At(g, "verify", "success") => pages[g].id \in created
        /\ At(g, "reset", "success") => pages[g].token \in used \/ pages[g].id \notin Ids

\* A registration becomes an account once: what still awaits verification was
\* never one, however often its link is followed, in whatever tabs, and
\* whether or not the account is deleted meanwhile (VerifyUser).
VerifiedOnce ==
    \A m \in Mail : pending[m] # None => pending[m].id \notin created

\* A link by which a password was changed changes none afterwards: no account
\* holds its token, although it is checked in one statement and taken in
\* another, and other links are asked for in between (handleResetPassword).
ResetLinksDie ==
    \A m \in Mail : Verified(m) => users[m].reset \notin used

\* No row of user_subjects, instances or subjects loses its user: DeleteUser
\* checks before it deletes, takes an error for "not enrolled", and does not
\* look for instances; others enrol and create between the two.
UsersKept == enrolled \cup owners \subseteq Ids

\* The panel shows the instances of the user selected, and none when nobody
\* is, unless the selection changed while the list was being fetched or a
\* button was at work.
InstancesOfSelected == ~crossed /\ ~loading => shown \in {None, selected}
=============================================================================
