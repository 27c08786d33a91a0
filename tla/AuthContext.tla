---------------------------- MODULE AuthContext ----------------------------
(***************************************************************************)
(* Who is logged in, as the tabs of one browser see it: AuthProvider       *)
(* (context/AuthContext.tsx), the forms and menus that call it, the        *)
(* routes that depend on it (App.tsx, ProtectedRoute.tsx) and the cookie   *)
(* userId, which the tabs share.                                           *)
(*                                                                         *)
(* A call in flight is a record of the set calls.  When its outcome is     *)
(* known the continuation that awaits it runs, even when the component     *)
(* that made the call is gone; calls end in any order.  React renders      *)
(* after every step, so a redirection that rendering makes belongs to the  *)
(* step that causes it.                                                    *)
(***************************************************************************)
EXTENDS Naturals, FiniteSets

CONSTANTS
    Tab,        \* the tabs of the browser
    User,       \* the accounts
    Admin,      \* those whose role is admin
    None,       \* no account
    MaxCalls,   \* the model's bound on the calls in flight
    Faults      \* {"lost"} when the network may fail

ASSUME AdminAssumption == Admin \subseteq User
ASSUME NoneAssumption  == None \notin User

VARIABLES
    route,       \* the route each tab shows
    user,        \* AuthProvider's user
    isLoggedIn,  \* AuthProvider's isLoggedIn
    isLoading,   \* AuthProvider's isLoading
    calls,       \* the calls in flight
    cookie,      \* the value of the cookie userId
    admitted,    \* history: who gave the right password in this browser
    wanted,      \* history: the route last asked for in each tab, or led to
    disturbed,   \* history: a tab's identity changed from elsewhere, or while
                 \* a call of the tab was in flight, or could not be fetched
    stuck        \* history: the tabs where login or register was lost

vars == <<route, user, isLoggedIn, isLoading, calls, cookie,
          admitted, wanted, disturbed, stuck>>

Route == {"login", "home", "settings", "control"}
Kind  == {"mount", "validate", "details", "register", "update", "refetch"}
Call  == [tab : Tab, kind : Kind, who : User \cup {None}]

\* How a call ends: the backend agrees, or refuses (the password is wrong, the
\* account is not there, its database fails), or fetch fails.
Outcome == {"ok", "refused"} \cup Faults

TypeOK ==
    /\ route \in [Tab -> Route]
    /\ user \in [Tab -> User \cup {None}]
    /\ isLoggedIn \in [Tab -> BOOLEAN]
    /\ isLoading \in [Tab -> BOOLEAN]
    /\ calls \subseteq Call
    /\ cookie \in User \cup {None}
    /\ admitted \subseteq User
    /\ wanted \in [Tab -> Route]
    /\ disturbed \in [Tab -> BOOLEAN]
    /\ stuck \subseteq Tab

----------------------------------------------------------------------------
(* Routes *)

IsAdmin(u) == u \in Admin

\* AdminRoute: everybody else is sent home.
AdminRoute(r, u) == IF r = "control" /\ ~IsAdmin(u) THEN "home" ELSE r

ProtectedRouteAtOnce(r, loading, loggedIn, u) ==
    IF loggedIn THEN AdminRoute(r, u) ELSE "login"

\* ProtectedRoute: no redirection while the cookie is being looked up.
ProtectedRoute(r, loading, loggedIn, u) ==
    IF loading THEN r ELSE IF loggedIn THEN AdminRoute(r, u) ELSE "login"

\* The route a tab ends on when it renders.
App(r, loading, loggedIn, u) ==
    IF r = "login" THEN r ELSE ProtectedRoute(r, loading, loggedIn, u)

\* The provider's state after a step of tab t, and where rendering leads.
Becomes(t, r, u, loggedIn, loading) ==
    /\ user' = [user EXCEPT ![t] = u]
    /\ isLoggedIn' = [isLoggedIn EXCEPT ![t] = loggedIn]
    /\ isLoading' = [isLoading EXCEPT ![t] = loading]
    /\ route' = [route EXCEPT ![t] = App(r, loading, loggedIn, u)]

\* The page that is asked for is forgotten where login is the only one.
Wants(t, r) ==
    wanted' = [wanted EXCEPT ![t] =
        IF isLoading'[t] \/ isLoggedIn'[t] THEN r ELSE "login"]

----------------------------------------------------------------------------
(* Calls *)

Of(t) == {c \in calls : c.tab = t}

Busy(t) == Of(t) # {}

InFlight(t, k) == \E c \in Of(t) : c.kind = k

NewCall(t, k, u) == [tab |-> t, kind |-> k, who |-> u]

\* The bounds: few calls at a time, and never the same one twice.
Add(rest, c) ==
    /\ c \notin rest
    /\ Cardinality(rest) < MaxCalls
    /\ calls' = rest \cup {c}

Send(t, k, u) == Add(calls, NewCall(t, k, u))

\* The call c is over; or its continuation makes the call k.
Done(c) == calls' = calls \ {c}
Then(c, k) == Add(calls \ {c}, [c EXCEPT !.kind = k])

\* A step of tab t that changes the cookie changes it for the other tabs.
DisturbOthers(t) ==
    disturbed' = [o \in Tab |-> disturbed[o] \/ (o # t /\ cookie' # cookie)]

\* A form or a logout in tab t, besides: a call of t still in flight will act
\* on what it knew.
Disturb(t) ==
    disturbed' = [o \in Tab |-> disturbed[o] \/ IF o = t THEN Busy(t) ELSE cookie' # cookie]

----------------------------------------------------------------------------
(* Pages, logging in and out *)

KeepCookie == cookie' = cookie

RemoveCookie == cookie' = None

\* With no cookie there is nothing to wait for.
LoadingAtStartAlways == TRUE

LoadingAtStart == cookie # None

\* A tab loads the application at route r: whatever it was doing is gone, and
\* the account named by the cookie, if any, is fetched.
MountProvider(t, r) ==
    /\ disturbed' = [disturbed EXCEPT ![t] = FALSE]
    /\ stuck' = stuck \ {t}
    /\ Becomes(t, r, None, FALSE, LoadingAtStart)
    /\ IF cookie = None THEN calls' = calls \ Of(t)
       ELSE Add(calls \ Of(t), NewCall(t, "mount", cookie))
    /\ UNCHANGED <<cookie, admitted>>
    /\ Wants(t, r)

\* A link, or the browser's Back and Forward buttons.
Navigate(t, r) ==
    /\ r # route[t]
    /\ Becomes(t, r, user[t], isLoggedIn[t], isLoading[t])
    /\ UNCHANGED <<calls, cookie, admitted, disturbed, stuck>>
    /\ Wants(t, r)

\* The login page offers its forms to who is not logged in.
FormsOffered(t) == route[t] = "login" /\ ~isLoggedIn[t]

\* The button of LoginForm is enabled.
LoginFormReady(t) == FormsOffered(t) /\ ~isLoading[t]

\* RegisterForm does not know that the provider is loading, nor, once its dialog
\* was closed and opened again, of its own call.
RegisterFormReady(t) == FormsOffered(t)

\* useLoginForm's handleSubmit calls login, which is authenticate.
SubmitLogin(t, u) ==
    /\ LoginFormReady(t)
    /\ Send(t, "validate", u)
    /\ Becomes(t, route[t], user[t], isLoggedIn[t], TRUE)
    /\ UNCHANGED <<cookie, admitted, stuck>>
    /\ Disturb(t)
    /\ Wants(t, wanted[t])

\* useRegisterForm's handleSubmit calls register.
SubmitRegister(t) ==
    /\ RegisterFormReady(t)
    /\ Send(t, "register", None)
    /\ Becomes(t, route[t], user[t], isLoggedIn[t], TRUE)
    /\ UNCHANGED <<cookie, admitted, stuck>>
    /\ Disturb(t)
    /\ Wants(t, wanted[t])

\* NavUser's menu is on the pages, which wait for isLoading; LoginButton is not.
LogoutOffered(t) == isLoggedIn[t] /\ (route[t] = "login" \/ ~isLoading[t])

\* logout.  A call in flight stays so.
Logout(t) ==
    /\ LogoutOffered(t)
    /\ RemoveCookie
    /\ Becomes(t, "login", None, FALSE, isLoading[t])
    /\ UNCHANGED <<calls, admitted, stuck>>
    /\ Disturb(t)
    /\ Wants(t, "login")

\* The settings' button is disabled while they are saved, but leaving the page and
\* coming back enables it.
SettingsOffered(t) == route[t] = "settings" /\ isLoggedIn[t] /\ ~isLoading[t]

\* useUserSettings' handleSubmit.
SubmitSettings(t) ==
    /\ SettingsOffered(t)
    /\ Send(t, "update", user[t])
    /\ UNCHANGED <<route, user, isLoggedIn, isLoading, cookie, admitted,
                   wanted, disturbed, stuck>>

----------------------------------------------------------------------------
(* Continuations *)

Ends(c, k) == c \in calls /\ c.kind = k

\* The account of the cookie is shown, or is not there: the cookie is removed.
FinishMount(c, outcome) ==
    LET t == c.tab IN
    /\ Ends(c, "mount")
    /\ Done(c)
    /\ \/ /\ outcome = "ok"
          /\ Becomes(t, route[t], c.who, TRUE, FALSE)
          /\ UNCHANGED cookie
       \/ /\ outcome # "ok"
          /\ Becomes(t, route[t], None, FALSE, FALSE)
          /\ RemoveCookie
    /\ DisturbOthers(t)
    /\ stuck' = stuck \ {t}
    /\ UNCHANGED admitted
    /\ Wants(t, wanted[t])

Answered(outcome) == outcome # "lost"

Accepted(outcome) == outcome = "ok"

\* Where isLoading stays set.
NoteStuck(t, outcome) ==
    stuck' = IF isLoading'[t] /\ outcome = "lost" THEN stuck \cup {t} ELSE stuck \ {t}

\* authenticate: the cookie is set before the account is fetched.  A fetch
\* that fails is caught by nobody, and leaves isLoading set.
FinishValidate(c, outcome) ==
    LET t == c.tab IN
    /\ Ends(c, "validate")
    /\ Becomes(t, route[t], user[t], isLoggedIn[t], isLoading[t] /\ outcome = "lost")
    /\ admitted' = IF outcome = "ok" THEN admitted \cup {c.who} ELSE admitted
    /\ \/ /\ Accepted(outcome)
          /\ cookie' = c.who
          /\ Then(c, "details")
       \/ /\ ~Accepted(outcome)
          /\ Done(c)
          /\ UNCHANGED cookie
    /\ DisturbOthers(t)
    /\ NoteStuck(t, outcome)
    /\ Wants(t, wanted[t])

\* handleSuccessfulAuth and navigate(AppRoutes.HOME).
FinishDetails(c, outcome) ==
    LET t == c.tab IN
    /\ Ends(c, "details")
    /\ Done(c)
    /\ \/ /\ outcome = "ok"
          /\ Becomes(t, "home", c.who, TRUE, isLoading[t])
          /\ Wants(t, "home")
          /\ UNCHANGED disturbed
       \/ /\ outcome # "ok"
          /\ disturbed' = [disturbed EXCEPT ![t] = TRUE]
          /\ UNCHANGED <<route, user, isLoggedIn, isLoading, wanted>>
    /\ UNCHANGED <<cookie, admitted, stuck>>

\* register: an answer ends isLoading, a failure of the network does not.
FinishRegister(c, outcome) ==
    LET t == c.tab IN
    /\ Ends(c, "register")
    /\ Done(c)
    /\ Becomes(t, route[t], user[t], isLoggedIn[t], isLoading[t] /\ outcome = "lost")
    /\ NoteStuck(t, outcome)
    /\ UNCHANGED <<cookie, admitted, disturbed>>
    /\ Wants(t, wanted[t])

\* A profile that was saved is fetched again, whoever is logged in by now.
FinishUpdate(c, outcome) ==
    /\ Ends(c, "update")
    /\ IF outcome = "ok" THEN Then(c, "refetch") ELSE Done(c)
    /\ UNCHANGED <<route, user, isLoggedIn, isLoading, cookie, admitted, wanted, disturbed,
                   stuck>>

FinishRefetch(c, outcome) ==
    LET t == c.tab IN
    /\ Ends(c, "refetch")
    /\ Done(c)
    /\ \/ /\ outcome = "ok"
          /\ Becomes(t, route[t], c.who, TRUE, isLoading[t])
          /\ Wants(t, wanted[t])
       \/ /\ outcome # "ok"
          /\ UNCHANGED <<route, user, isLoggedIn, isLoading, wanted>>
    /\ UNCHANGED <<cookie, admitted, disturbed, stuck>>

Finish(c) == \E outcome \in Outcome :
    \/ FinishMount(c, outcome)    \/ FinishValidate(c, outcome)
    \/ FinishDetails(c, outcome)  \/ FinishRegister(c, outcome)
    \/ FinishUpdate(c, outcome)   \/ FinishRefetch(c, outcome)

----------------------------------------------------------------------------
Init ==
    /\ route = [t \in Tab |-> "login"]
    /\ user = [t \in Tab |-> None]
    /\ isLoggedIn = [t \in Tab |-> FALSE]
    /\ isLoading = [t \in Tab |-> FALSE]
    /\ calls = {}
    /\ cookie = None
    /\ admitted = {}
    /\ wanted = [t \in Tab |-> "login"]
    /\ disturbed = [t \in Tab |-> FALSE]
    /\ stuck = {}

Next ==
    \/ \E t \in Tab :
           \/ \E r \in Route : MountProvider(t, r) \/ Navigate(t, r)
           \/ \E u \in User : SubmitLogin(t, u)
           \/ SubmitRegister(t) \/ Logout(t) \/ SubmitSettings(t)
    \/ \E c \in calls : Finish(c)

Spec == Init /\ [][Next]_vars

----------------------------------------------------------------------------
(* Properties *)

\* A tab that nothing disturbed and that is not fetching the account shows the
\* one that the cookie names: a reload shows the same, and after a logout
\* nobody is logged in.  (logout, authenticate and the mount effect change
\* user and cookie apart, and authenticate the cookie first.)
IdentityAgrees ==
    \A t \in Tab :
        ~disturbed[t] /\ ~InFlight(t, "mount") /\ ~InFlight(t, "details") => cookie = user[t]

\* Whatever is in flight and whoever logs out meanwhile, no tab shows, and the
\* cookie does not name, an account whose password was not given here.
OnlyAdmittedShown ==
    /\ cookie \in admitted \cup {None}
    /\ \A t \in Tab : user[t] \in admitted \cup {None}

\* Who is logged in stays on the page he asked for; in particular a reload
\* does not lead to the login page or home while the cookie is looked up.
WantedPageShown ==
    \A t \in Tab :
        isLoggedIn[t] /\ ~disturbed[t] => route[t] = AdminRoute(wanted[t], user[t])

\* The login button and the pages wait for isLoading: while it is set, a call
\* of the tab that clears it is in flight, whatever the tab has done since;
\* except where login or register was lost, which only a reload mends.
LoadingAwaits ==
    \A t \in Tab : isLoading[t] =>
        t \in stuck \/ \E k \in {"mount", "validate", "register"} : InFlight(t, k)
=============================================================================
