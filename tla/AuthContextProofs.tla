-------------------------- MODULE AuthContextProofs --------------------------
(***************************************************************************)
(* Theorems about AuthContext for any tabs and accounts, any number of     *)
(* calls in flight, and whatever the network loses.                        *)
(***************************************************************************)
EXTENDS AuthContext, TLAPS

(***************************************************************************)
(* 1. The inductive invariant, tab by tab.                                 *)
(***************************************************************************)

(* What a tab shows, and what its calls will make it show, was admitted.    *)
ShowsAdmitted(t) ==
    /\ user[t] \in admitted \cup {None}
    /\ \A c \in Of(t) : c.kind \in {"mount", "details", "update", "refetch"}
                            => c.who \in admitted \cup {None}
    /\ \A c \in Of(t) : c.kind = "validate" => c.who \in User

LoadingEnds(t) == isLoading[t] =>
    t \in stuck \/ \E k \in {"mount", "validate", "register"} : InFlight(t, k)

(* A tab that nothing disturbed has one call of those that log in, as long  *)
(* as it is not logged in, and others only afterwards; each is about the    *)
(* account of the cookie.                                                   *)
CallsAgree(t) ==
    /\ \A c \in Of(t) : c.kind \in {"mount", "details", "update", "refetch"} => c.who = cookie
    /\ \A c \in Of(t) : c.kind \in {"mount", "validate", "details", "register"}
                            => ~isLoggedIn[t] /\ Of(t) = {c}
    /\ \A c \in Of(t) : c.kind = "mount" => isLoading[t] /\ route[t] = wanted[t]
    /\ \A c \in Of(t) : c.kind = "details" => ~isLoading[t]
    /\ \A c \in Of(t) : c.kind \in {"update", "refetch"} => isLoggedIn[t]
    /\ isLoggedIn[t] => ~isLoading[t]

TabAgrees(t) ==
    /\ ~InFlight(t, "mount") /\ ~InFlight(t, "details") => cookie = user[t]
    /\ isLoggedIn[t] => route[t] = AdminRoute(wanted[t], user[t])

TabInv(t) ==
    /\ ShowsAdmitted(t) /\ LoadingEnds(t)
    /\ ~disturbed[t] => CallsAgree(t) /\ TabAgrees(t)

IInv ==
    /\ TypeOK
    /\ cookie \in admitted \cup {None}
    /\ \A t \in Tab : TabInv(t)

(***************************************************************************)
(* 2. What the parts of a step do.                                         *)
(***************************************************************************)

(* What one tab does leaves the others as they are, or disturbs them. *)
LEMMA TabStep ==
  ASSUME IInv, NEW t \in Tab, TypeOK', TabInv(t)',
         admitted \subseteq admitted', cookie' \in admitted' \cup {None},
         \A o \in Tab \ {t} :
             /\ route'[o] = route[o] /\ user'[o] = user[o] /\ wanted'[o] = wanted[o]
             /\ isLoggedIn'[o] = isLoggedIn[o] /\ isLoading'[o] = isLoading[o]
             /\ Of(o)' = Of(o) /\ (o \in stuck' <=> o \in stuck)
             /\ disturbed[o] => disturbed'[o]
             /\ cookie' = cookie \/ disturbed'[o]
  PROVE  IInv'
<1> SUFFICES ASSUME NEW o \in Tab, o # t PROVE TabInv(o)'
  BY DEF IInv
<1>1. TabInv(o)
  BY DEF IInv
<1>2. ShowsAdmitted(o)' /\ LoadingEnds(o)'
  BY <1>1 DEF TabInv, ShowsAdmitted, LoadingEnds, InFlight
<1>3. ASSUME ~disturbed'[o] PROVE CallsAgree(o)' /\ TabAgrees(o)'
  BY <1>1, <1>3 DEF TabInv, CallsAgree, TabAgrees, InFlight, AdminRoute, IsAdmin
<1> QED
  BY <1>2, <1>3 DEF TabInv

LEMMA WantsOnly ==
  ASSUME TypeOK, NEW t \in Tab, NEW r \in Route, Wants(t, r)
  PROVE  /\ wanted' \in [Tab -> Route]
         /\ isLoading'[t] \/ isLoggedIn'[t] => wanted'[t] = r
         /\ \A o \in Tab \ {t} : wanted'[o] = wanted[o]
BY DEF Wants, TypeOK, Route

(* A call of one tab is made, its other calls being kept or forgotten. *)
LEMMA AddOnly ==
  ASSUME TypeOK, NEW t \in Tab, NEW c \in Call, c.tab = t,
         NEW rest \in SUBSET calls, \A o \in Tab \ {t} : Of(o) \subseteq rest,
         Add(rest, c)
  PROVE  /\ calls' \in SUBSET Call
         /\ Of(t)' = (Of(t) \cap rest) \cup {c}
         /\ \A o \in Tab \ {t} : Of(o)' = Of(o)
BY DEF Add, Of, TypeOK

LEMMA DoneOnly ==
  ASSUME TypeOK, NEW c \in calls, Done(c)
  PROVE  /\ c.tab \in Tab /\ calls' \in SUBSET Call
         /\ Of(c.tab)' = Of(c.tab) \ {c}
         /\ \A o \in Tab \ {c.tab} : Of(o)' = Of(o)
BY DEF Done, Of, TypeOK, Call

LEMMA ThenOnly ==
  ASSUME TypeOK, NEW c \in calls, NEW k \in Kind, Then(c, k)
  PROVE  \E d \in Call :
         /\ d.tab = c.tab /\ d.kind = k /\ d.who = c.who
         /\ c.tab \in Tab /\ calls' \in SUBSET Call
         /\ Of(c.tab)' = (Of(c.tab) \ {c}) \cup {d}
         /\ \A o \in Tab \ {c.tab} : Of(o)' = Of(o)
<1> DEFINE d == [tab |-> c.tab, kind |-> k, who |-> c.who]
<1>1. c \in Call /\ c.tab \in Tab
  BY DEF TypeOK, Call
<1>2. [c EXCEPT !.kind = k] = d
  BY <1>1 DEF Call
<1>3. d \in Call /\ d.tab = c.tab /\ d.kind = k /\ d.who = c.who
  BY <1>1 DEF Call
<1> HIDE DEF d
<1>4. Add(calls \ {c}, d)
  BY <1>2 DEF Then
<1>5. \A o \in Tab \ {c.tab} : Of(o) \subseteq calls \ {c}
  BY DEF Of
<1>6. /\ calls' \in SUBSET Call
      /\ Of(c.tab)' = (Of(c.tab) \cap (calls \ {c})) \cup {d}
      /\ \A o \in Tab \ {c.tab} : Of(o)' = Of(o)
  BY <1>1, <1>3, <1>4, <1>5, AddOnly
<1>7. Of(c.tab) \cap (calls \ {c}) = Of(c.tab) \ {c}
  BY DEF Of
<1> QED
  BY <1>1, <1>3, <1>6, <1>7
(***************************************************************************)
(* 3. The steps.                                                           *)
(***************************************************************************)

LEMMA InitIInv == Init => IInv
<1> SUFFICES ASSUME Init PROVE IInv
  OBVIOUS
<1>1. TypeOK
  BY DEF Init, TypeOK, Route
<1>2. ASSUME NEW t \in Tab PROVE TabInv(t)
  <2>1. Of(t) = {} /\ ~isLoggedIn[t] /\ ~isLoading[t] /\ user[t] = None /\ cookie = None
    BY DEF Init, Of
  <2> QED
    BY <2>1 DEF TabInv, ShowsAdmitted, LoadingEnds, CallsAgree, TabAgrees
<1> QED
  BY <1>1, <1>2 DEF Init, IInv

LEMMA MountStep ==
  ASSUME IInv, NEW t \in Tab, NEW r \in Route, MountProvider(t, r)
  PROVE  IInv'
<1> USE DEF IInv
<1>1. /\ disturbed' = [disturbed EXCEPT ![t] = FALSE] /\ stuck' = stuck \ {t}
      /\ Becomes(t, r, None, FALSE, LoadingAtStart) /\ Wants(t, r)
      /\ UNCHANGED <<cookie, admitted>>
  BY DEF MountProvider
<1>2. /\ user' \in [Tab -> User \cup {None}] /\ route' \in [Tab -> Route]
      /\ isLoggedIn' \in [Tab -> BOOLEAN] /\ isLoading' \in [Tab -> BOOLEAN]
      /\ user'[t] = None /\ ~isLoggedIn'[t] /\ (isLoading'[t] <=> cookie # None)
      /\ cookie # None => route'[t] = r
      /\ \A o \in Tab \ {t} :
            /\ user'[o] = user[o] /\ isLoggedIn'[o] = isLoggedIn[o]
            /\ isLoading'[o] = isLoading[o] /\ route'[o] = route[o]
  <2>1. route'[t] \in Route /\ (cookie # None => route'[t] = r)
    BY <1>1 DEF Becomes, App, ProtectedRoute, AdminRoute, LoadingAtStart, TypeOK, Route
  <2> QED
    BY <1>1, <2>1 DEF Becomes, LoadingAtStart, TypeOK
<1>3. wanted' \in [Tab -> Route] /\ \A o \in Tab \ {t} : wanted'[o] = wanted[o]
  BY <1>1, WantsOnly
<1>4. \A o \in Tab \ {t} : disturbed'[o] = disturbed[o]
  BY <1>1 DEF TypeOK
<1>5. CASE cookie = None
  <2>1. calls' = calls \ Of(t)
    BY <1>5 DEF MountProvider
  <2>2. Of(t)' = {} /\ calls' \in SUBSET Call /\ \A o \in Tab \ {t} : Of(o)' = Of(o)
    BY <2>1 DEF Of, TypeOK
  <2>3. TypeOK'
    BY <1>1, <1>2, <1>3, <2>2 DEF TypeOK
  <2>4. TabInv(t)'
    BY <1>1, <1>2, <1>5, <2>2 DEF TabInv, ShowsAdmitted, LoadingEnds, CallsAgree, TabAgrees
  <2> QED
    BY <1>1, <1>2, <1>3, <1>4, <2>2, <2>3, <2>4, TabStep
<1>6. CASE cookie # None
  <2> DEFINE c == NewCall(t, "mount", cookie)
  <2>1. Add(calls \ Of(t), c)
    BY <1>6 DEF MountProvider
  <2>2. c \in Call /\ c.tab = t /\ c.kind = "mount" /\ c.who = cookie
    BY DEF NewCall, Call, Kind, TypeOK
  <2> HIDE DEF c
  <2>3. \A o \in Tab \ {t} : Of(o) \subseteq calls \ Of(t)
    BY DEF Of
  <2>4. Of(t)' = {c} /\ calls' \in SUBSET Call /\ \A o \in Tab \ {t} : Of(o)' = Of(o)
    BY <2>1, <2>2, <2>3, AddOnly
  <2>5. TypeOK'
    BY <1>1, <1>2, <1>3, <2>4 DEF TypeOK
  <2>6. isLoading'[t]
    BY <1>2, <1>6
  <2>7. wanted'[t] = r
    BY <1>1, <2>6, WantsOnly
  <2>8. route'[t] = r
    BY <1>2, <1>6
  <2>9. InFlight(t, "mount")'
    BY <2>2, <2>4 DEF InFlight
  <2>10. TabInv(t)'
    BY <1>1, <1>2, <2>2, <2>4, <2>6, <2>9, <2>7, <2>8 DEF TabInv, ShowsAdmitted, LoadingEnds, CallsAgree,
                                                 TabAgrees
  <2> QED
    BY <1>1, <1>2, <1>3, <1>4, <2>4, <2>5, <2>10, TabStep
<1> QED
  BY <1>5, <1>6

LEMMA NavigateStep ==
  ASSUME IInv, NEW t \in Tab, NEW r \in Route, Navigate(t, r)
  PROVE  IInv'
<1> USE DEF IInv
<1>1. /\ UNCHANGED <<calls, cookie, admitted, disturbed, stuck>>
      /\ user' = user /\ isLoggedIn' = isLoggedIn /\ isLoading' = isLoading
  BY DEF Navigate, Becomes, TypeOK
<1>2. /\ route' \in [Tab -> Route] /\ \A o \in Tab \ {t} : route'[o] = route[o]
      /\ isLoading[t] => route'[t] = r
      /\ isLoggedIn[t] /\ ~isLoading[t] => route'[t] = AdminRoute(r, user[t])
  BY DEF Navigate, Becomes, App, ProtectedRoute, AdminRoute, TypeOK, Route
<1>3. wanted' \in [Tab -> Route] /\ \A o \in Tab \ {t} : wanted'[o] = wanted[o]
  BY WantsOnly DEF Navigate
<1>4. isLoading'[t] \/ isLoggedIn'[t] => wanted'[t] = r
  BY WantsOnly DEF Navigate
<1>5. TypeOK'
  BY <1>1, <1>2, <1>3 DEF TypeOK
<1>6. \A o \in Tab : Of(o)' = Of(o)
  BY <1>1 DEF Of
<1>7. TabInv(t)'
  BY <1>1, <1>2, <1>4, <1>6 DEF TabInv, ShowsAdmitted, LoadingEnds, InFlight, CallsAgree,
     TabAgrees, AdminRoute, IsAdmin
<1> QED
  BY <1>1, <1>2, <1>3, <1>5, <1>6, <1>7, TabStep

(* A form is submitted in a tab whose call, if it has one, disturbs it. *)
LEMMA FormStep ==
  ASSUME IInv, NEW t \in Tab, NEW k \in {"validate", "register"}, NEW u \in User \cup {None},
         k = "validate" => u \in User, FormsOffered(t), Send(t, k, u),
         Becomes(t, route[t], user[t], isLoggedIn[t], TRUE),
         UNCHANGED <<cookie, admitted, stuck>>, Disturb(t), Wants(t, wanted[t])
  PROVE  IInv'
<1> USE DEF IInv
<1>1. /\ user[t] \in User \cup {None} /\ isLoggedIn[t] = FALSE /\ route[t] \in Route
      /\ wanted[t] \in Route /\ TabInv(t)
  BY DEF TypeOK, FormsOffered
<1>2. /\ user' \in [Tab -> User \cup {None}] /\ route' \in [Tab -> Route]
      /\ isLoggedIn' \in [Tab -> BOOLEAN] /\ isLoading' \in [Tab -> BOOLEAN]
      /\ user'[t] = user[t] /\ ~isLoggedIn'[t] /\ isLoading'[t]
      /\ \A o \in Tab \ {t} :
            /\ user'[o] = user[o] /\ isLoggedIn'[o] = isLoggedIn[o]
            /\ isLoading'[o] = isLoading[o] /\ route'[o] = route[o]
  <2>1. route'[t] \in Route
    BY <1>1 DEF Becomes, App, ProtectedRoute, AdminRoute, TypeOK, Route
  <2> QED
    BY <1>1, <2>1 DEF Becomes, TypeOK
<1>3. wanted' \in [Tab -> Route] /\ \A o \in Tab \ {t} : wanted'[o] = wanted[o]
  BY <1>1, WantsOnly
<1> DEFINE c == NewCall(t, k, u)
<1>4. c \in Call /\ c.tab = t /\ c.kind = k /\ c.who = u
  BY DEF NewCall, Call, Kind
<1>5. Add(calls, c)
  BY DEF Send
<1> HIDE DEF c
<1>6. Of(t)' = Of(t) \cup {c} /\ calls' \in SUBSET Call /\ \A o \in Tab \ {t} : Of(o)' = Of(o)
  <2>1. \A o \in Tab : Of(o) \subseteq calls
    BY DEF Of
  <2> QED
    BY <1>4, <1>5, <2>1, AddOnly
<1>7. /\ disturbed' \in [Tab -> BOOLEAN]
      /\ disturbed'[t] = (disturbed[t] \/ Of(t) # {})
      /\ \A o \in Tab \ {t} : disturbed'[o] = disturbed[o]
  BY DEF Disturb, Busy, TypeOK
<1>8. TypeOK'
  BY <1>2, <1>3, <1>6, <1>7 DEF TypeOK
<1>9. InFlight(t, k)'
  BY <1>4, <1>6 DEF InFlight
<1>10. ShowsAdmitted(t)' /\ LoadingEnds(t)'
  BY <1>1, <1>2, <1>4, <1>6, <1>9 DEF TabInv, ShowsAdmitted, LoadingEnds
<1>11. ASSUME ~disturbed'[t] PROVE CallsAgree(t)' /\ TabAgrees(t)'
  <2>1. Of(t)' = {c} /\ Of(t) = {} /\ ~disturbed[t]
    BY <1>6, <1>7, <1>11
  <2> QED
    BY <1>1, <1>2, <1>4, <2>1 DEF TabInv, CallsAgree, TabAgrees, InFlight
<1> QED
  BY <1>2, <1>3, <1>6, <1>7, <1>8, <1>10, <1>11, TabStep DEF TabInv

LEMMA SubmitLoginStep ==
  ASSUME IInv, NEW t \in Tab, NEW u \in User, SubmitLogin(t, u)
  PROVE  IInv'
BY FormStep DEF SubmitLogin, LoginFormReady

LEMMA SubmitRegisterStep ==
  ASSUME IInv, NEW t \in Tab, SubmitRegister(t)
  PROVE  IInv'
BY FormStep DEF SubmitRegister, RegisterFormReady

LEMMA LogoutStep ==
  ASSUME IInv, NEW t \in Tab, Logout(t)
  PROVE  IInv'
<1> USE DEF IInv
<1>1. /\ Becomes(t, "login", None, FALSE, isLoading[t]) /\ Wants(t, "login")
      /\ UNCHANGED <<calls, admitted, stuck>> /\ cookie' = None
      /\ isLoading[t] \in BOOLEAN /\ "login" \in Route /\ TabInv(t)
  BY DEF Logout, RemoveCookie, TypeOK, Route
<1>2. /\ user' \in [Tab -> User \cup {None}] /\ route' \in [Tab -> Route]
      /\ isLoggedIn' \in [Tab -> BOOLEAN] /\ isLoading' \in [Tab -> BOOLEAN]
      /\ user'[t] = None /\ ~isLoggedIn'[t] /\ isLoading'[t] = isLoading[t]
      /\ \A o \in Tab \ {t} :
            /\ user'[o] = user[o] /\ isLoggedIn'[o] = isLoggedIn[o]
            /\ isLoading'[o] = isLoading[o] /\ route'[o] = route[o]
  <2>1. route'[t] \in Route
    BY <1>1 DEF Becomes, App, ProtectedRoute, AdminRoute, TypeOK, Route
  <2> QED
    BY <1>1, <2>1 DEF Becomes, TypeOK
<1>3. wanted' \in [Tab -> Route] /\ \A o \in Tab \ {t} : wanted'[o] = wanted[o]
  BY <1>1, WantsOnly
<1>4. \A o \in Tab : Of(o)' = Of(o)
  BY <1>1 DEF Of
<1>5. /\ disturbed' \in [Tab -> BOOLEAN]
      /\ disturbed'[t] = (disturbed[t] \/ Of(t) # {})
      /\ \A o \in Tab \ {t} : disturbed'[o] = (disturbed[o] \/ cookie' # cookie)
  BY DEF Logout, Disturb, Busy, TypeOK
<1>6. TypeOK'
  BY <1>1, <1>2, <1>3, <1>5 DEF TypeOK
<1>7. TabInv(t)'
  BY <1>1, <1>2, <1>4, <1>5 DEF TabInv, ShowsAdmitted, LoadingEnds, CallsAgree, TabAgrees,
                                InFlight
<1> QED
  BY <1>1, <1>2, <1>3, <1>4, <1>5, <1>6, <1>7, TabStep
LEMMA SubmitSettingsStep ==
  ASSUME IInv, NEW t \in Tab, SubmitSettings(t)
  PROVE  IInv'
<1> USE DEF IInv
<1>1. /\ UNCHANGED <<route, user, isLoggedIn, isLoading, cookie, admitted,
                     wanted, disturbed, stuck>>
      /\ isLoggedIn[t] /\ TabInv(t)
  BY DEF SubmitSettings, SettingsOffered
<1> DEFINE c == NewCall(t, "update", user[t])
<1>2. c \in Call /\ c.tab = t /\ c.kind = "update" /\ c.who = user[t]
  BY DEF NewCall, Call, Kind, TypeOK
<1>3. Add(calls, c)
  BY DEF SubmitSettings, Send
<1> HIDE DEF c
<1>4. Of(t)' = Of(t) \cup {c} /\ calls' \in SUBSET Call /\ \A o \in Tab \ {t} : Of(o)' = Of(o)
  <2>1. \A o \in Tab : Of(o) \subseteq calls
    BY DEF Of
  <2> QED
    BY <1>2, <1>3, <2>1, AddOnly
<1>5. TypeOK'
  BY <1>1, <1>4 DEF TypeOK
<1>6. ShowsAdmitted(t)' /\ LoadingEnds(t)'
  BY <1>1, <1>2, <1>4 DEF TabInv, ShowsAdmitted, LoadingEnds, InFlight
<1>7. ASSUME ~disturbed'[t] PROVE CallsAgree(t)' /\ TabAgrees(t)'
  <2>1. CallsAgree(t) /\ TabAgrees(t)
    BY <1>1, <1>7 DEF TabInv
  <2>2. \A d \in Of(t) : d.kind \notin {"mount", "validate", "details", "register"}
    BY <1>1, <2>1 DEF CallsAgree
  <2>3. ~InFlight(t, "mount") /\ ~InFlight(t, "details") /\ user[t] = cookie
    BY <2>1, <2>2 DEF InFlight, TabAgrees
  <2>4. ~InFlight(t, "mount")' /\ ~InFlight(t, "details")'
    BY <1>2, <1>4, <2>2 DEF InFlight
  <2>5. TabAgrees(t)'
    BY <1>1, <2>1, <2>3 DEF TabAgrees, AdminRoute, IsAdmin
  <2>6. CallsAgree(t)'
    BY <1>1, <1>2, <1>4, <2>1, <2>2, <2>3 DEF CallsAgree
  <2> QED
    BY <2>5, <2>6
<1> QED
  BY <1>1, <1>4, <1>5, <1>6, <1>7, TabStep DEF TabInv

(* The cookie changes, if it does, in this tab. *)
LEMMA DisturbOthersOnly ==
  ASSUME TypeOK, NEW t \in Tab, DisturbOthers(t)
  PROVE  /\ disturbed' \in [Tab -> BOOLEAN] /\ (disturbed'[t] <=> disturbed[t])
         /\ \A o \in Tab \ {t} : (disturbed[o] => disturbed'[o])
                                     /\ (cookie' = cookie \/ disturbed'[o])
BY DEF DisturbOthers, TypeOK

(* What the tab of a call in flight is known to be. *)
LEMMA CallKnown ==
  ASSUME IInv, NEW c \in calls
  PROVE  /\ c \in Call /\ c.tab \in Tab /\ c.who \in User \cup {None} /\ c \in Of(c.tab)
         /\ TypeOK /\ TabInv(c.tab) /\ cookie \in admitted \cup {None}
BY DEF IInv, TypeOK, Call, Of

LEMMA FinishMountStep ==
  ASSUME IInv, NEW c \in calls, NEW outcome \in Outcome, FinishMount(c, outcome)
  PROVE  IInv'
<1> DEFINE t == c.tab
<1>1. /\ c \in Call /\ t \in Tab /\ c.who \in User \cup {None} /\ c \in Of(t)
      /\ TypeOK /\ TabInv(t) /\ cookie \in admitted \cup {None}
  BY CallKnown
<1>2. /\ c.kind = "mount" /\ Done(c) /\ DisturbOthers(t) /\ stuck' = stuck \ {t}
      /\ admitted' = admitted /\ Wants(t, wanted[t])
  BY DEF FinishMount, Ends
<1>3. c.who \in admitted \cup {None}
  BY <1>1, <1>2 DEF TabInv, ShowsAdmitted
<1>4. /\ user' \in [Tab -> User \cup {None}]
      /\ isLoggedIn' \in [Tab -> BOOLEAN] /\ isLoading' \in [Tab -> BOOLEAN]
      /\ user'[t] \in {c.who, None} /\ (isLoggedIn'[t] => user'[t] = c.who) /\ ~isLoading'[t]
      /\ cookie' \in {cookie, None} /\ cookie' \in User \cup {None}
      /\ \A o \in Tab \ {t} :
            /\ user'[o] = user[o] /\ isLoggedIn'[o] = isLoggedIn[o]
            /\ isLoading'[o] = isLoading[o] /\ route'[o] = route[o]
  <2>1. CASE outcome = "ok"
    BY <1>1, <2>1 DEF FinishMount, Becomes, TypeOK
  <2>2. CASE outcome # "ok"
    BY <1>1, <2>2 DEF FinishMount, Becomes, RemoveCookie, TypeOK
  <2> QED
    BY <2>1, <2>2
<1>5. route' \in [Tab -> Route] /\ (isLoggedIn'[t] => route'[t] = AdminRoute(route[t], user'[t]))
  <2>1. CASE outcome = "ok"
    BY <1>1, <2>1 DEF FinishMount, Becomes, App, ProtectedRoute, AdminRoute, TypeOK, Route
  <2>2. CASE outcome # "ok"
    BY <1>1, <2>2 DEF FinishMount, Becomes, App, ProtectedRoute, AdminRoute, TypeOK, Route
  <2> QED
    BY <2>1, <2>2
<1>6. (cookie = c.who => cookie' = user'[t])
  <2>1. CASE outcome = "ok"
    BY <1>1, <2>1 DEF FinishMount, Becomes, TypeOK
  <2>2. CASE outcome # "ok"
    BY <1>1, <2>2 DEF FinishMount, Becomes, RemoveCookie, TypeOK
  <2> QED
    BY <2>1, <2>2
<1> HIDE DEF t
<1>7. calls' \in SUBSET Call /\ Of(t)' = Of(t) \ {c} /\ \A o \in Tab \ {t} : Of(o)' = Of(o)
  BY <1>1, <1>2, DoneOnly DEF t
<1>8. /\ disturbed' \in [Tab -> BOOLEAN] /\ (disturbed'[t] <=> disturbed[t])
      /\ \A o \in Tab \ {t} : (disturbed[o] => disturbed'[o])
                                  /\ (cookie' = cookie \/ disturbed'[o])
  BY <1>1, <1>2, DisturbOthersOnly
<1>9. wanted' \in [Tab -> Route] /\ \A o \in Tab \ {t} : wanted'[o] = wanted[o]
  BY <1>1, <1>2, WantsOnly DEF TypeOK
<1>10. isLoggedIn'[t] => wanted'[t] = wanted[t]
  BY <1>1, <1>2, WantsOnly DEF TypeOK
<1>11. TypeOK'
  BY <1>1, <1>2, <1>4, <1>5, <1>7, <1>8, <1>9 DEF TypeOK
<1>12. ShowsAdmitted(t)' /\ LoadingEnds(t)'
  BY <1>1, <1>2, <1>3, <1>4, <1>7 DEF TabInv, ShowsAdmitted, LoadingEnds
<1>13. ASSUME ~disturbed'[t] PROVE CallsAgree(t)' /\ TabAgrees(t)'
  <2>1. CallsAgree(t) /\ TabAgrees(t)
    BY <1>1, <1>8, <1>13 DEF TabInv
  <2>2. Of(t)' = {} /\ c.who = cookie /\ route[t] = wanted[t]
    BY <1>1, <1>2, <1>7, <2>1 DEF CallsAgree
  <2>3. CallsAgree(t)'
    BY <1>4, <2>2 DEF CallsAgree
  <2>4. TabAgrees(t)'
    BY <1>5, <1>6, <1>10, <2>2 DEF TabAgrees, AdminRoute, IsAdmin
  <2> QED
    BY <2>3, <2>4
<1>14. admitted \subseteq admitted' /\ cookie' \in admitted' \cup {None}
  BY <1>1, <1>2, <1>4
<1>15. \A o \in Tab \ {t} : (o \in stuck' <=> o \in stuck)
  BY <1>2
<1> QED
  BY <1>1, <1>4, <1>7, <1>8, <1>9, <1>11, <1>12, <1>13, <1>14, <1>15, TabStep DEF TabInv
(* Neither login nor register changes who is logged in before its end; they *)
(* leave isLoading set only where they are lost.                            *)
LEMMA FormEnds ==
  ASSUME IInv, NEW c \in calls, NEW outcome \in Outcome,
         Becomes(c.tab, route[c.tab], user[c.tab], isLoggedIn[c.tab],
                 isLoading[c.tab] /\ outcome = "lost"),
         NoteStuck(c.tab, outcome), Wants(c.tab, wanted[c.tab])
  PROVE  /\ user' = user /\ isLoggedIn' = isLoggedIn /\ wanted' \in [Tab -> Route]
         /\ isLoading' \in [Tab -> BOOLEAN] /\ route' \in [Tab -> Route] /\ stuck' \subseteq Tab
         /\ outcome = "ok" => ~isLoading'[c.tab]
         /\ isLoading'[c.tab] => c.tab \in stuck'
         /\ \A o \in Tab \ {c.tab} :
               /\ isLoading'[o] = isLoading[o] /\ route'[o] = route[o] /\ wanted'[o] = wanted[o]
               /\ o \in stuck' <=> o \in stuck
<1> DEFINE t == c.tab
<1>1. t \in Tab /\ TypeOK
  BY CallKnown
<1>2. user' = user /\ isLoggedIn' = isLoggedIn
  BY <1>1 DEF Becomes, TypeOK
<1>3. /\ isLoading' \in [Tab -> BOOLEAN] /\ (isLoading'[t] => outcome = "lost")
      /\ \A o \in Tab \ {t} : isLoading'[o] = isLoading[o]
  BY <1>1 DEF Becomes, TypeOK
<1>4. route' \in [Tab -> Route] /\ \A o \in Tab \ {t} : route'[o] = route[o]
  BY <1>1 DEF Becomes, App, ProtectedRoute, AdminRoute, TypeOK, Route
<1>5. wanted' \in [Tab -> Route] /\ \A o \in Tab \ {t} : wanted'[o] = wanted[o]
  BY <1>1 DEF Wants, TypeOK, Route
<1>6. /\ stuck' \subseteq Tab /\ \A o \in Tab \ {t} : (o \in stuck' <=> o \in stuck)
      /\ isLoading'[t] => t \in stuck'
  BY <1>1, <1>3 DEF NoteStuck, TypeOK
<1> QED
  BY <1>2, <1>3, <1>4, <1>5, <1>6

LEMMA FinishValidateStep ==
  ASSUME IInv, NEW c \in calls, NEW outcome \in Outcome, FinishValidate(c, outcome)
  PROVE  IInv'
<1> DEFINE t == c.tab
<1>1. /\ c \in Call /\ t \in Tab /\ c.who \in User \cup {None} /\ c \in Of(t)
      /\ TypeOK /\ TabInv(t) /\ cookie \in admitted \cup {None}
  BY CallKnown
<1>2. /\ c.kind = "validate" /\ DisturbOthers(t)
      /\ admitted' = IF outcome = "ok" THEN admitted \cup {c.who} ELSE admitted
      /\ \/ outcome = "ok" /\ cookie' = c.who /\ Then(c, "details")
         \/ outcome # "ok" /\ cookie' = cookie /\ Done(c)
  BY DEF FinishValidate, Ends, Accepted
<1>3. /\ user' = user /\ isLoggedIn' = isLoggedIn /\ wanted' \in [Tab -> Route]
      /\ isLoading' \in [Tab -> BOOLEAN] /\ route' \in [Tab -> Route] /\ stuck' \subseteq Tab
      /\ outcome = "ok" => ~isLoading'[t]
      /\ isLoading'[t] => t \in stuck'
      /\ \A o \in Tab \ {t} :
            /\ isLoading'[o] = isLoading[o] /\ route'[o] = route[o] /\ wanted'[o] = wanted[o]
            /\ o \in stuck' <=> o \in stuck
  BY FormEnds DEF FinishValidate
<1>4. /\ disturbed' \in [Tab -> BOOLEAN] /\ (disturbed'[t] <=> disturbed[t])
      /\ \A o \in Tab \ {t} : (disturbed[o] => disturbed'[o])
                                  /\ (cookie' = cookie \/ disturbed'[o])
  BY <1>1, <1>2, DisturbOthersOnly
<1>5. c.who \in User
  BY <1>1, <1>2 DEF TabInv, ShowsAdmitted
<1>6. ASSUME ~disturbed'[t] PROVE CallsAgree(t) /\ TabAgrees(t) /\ ~isLoggedIn[t] /\ Of(t) = {c}
  BY <1>1, <1>2, <1>4, <1>6 DEF TabInv, CallsAgree
<1> HIDE DEF t
<1>7. CASE outcome = "ok" /\ cookie' = c.who /\ Then(c, "details")
  <2>1. "details" \in Kind
    BY DEF Kind
  <2>2. PICK d \in Call :
         /\ d.tab = t /\ d.kind = "details" /\ d.who = c.who
         /\ calls' \in SUBSET Call
         /\ Of(t)' = (Of(t) \ {c}) \cup {d}
         /\ \A o \in Tab \ {t} : Of(o)' = Of(o)
    BY <1>1, <1>7, <2>1, ThenOnly DEF t
  <2>3. admitted' = admitted \cup {c.who} /\ c.who \in User
    BY <1>2, <1>7, <1>5
  <2>4. TypeOK'
    BY <1>1, <1>3, <1>4, <1>7, <2>2, <2>3 DEF TypeOK
  <2>5. ShowsAdmitted(t)' /\ LoadingEnds(t)'
    BY <1>1, <1>3, <2>2, <2>3 DEF TabInv, ShowsAdmitted, LoadingEnds
  <2>6. ASSUME ~disturbed'[t] PROVE CallsAgree(t)' /\ TabAgrees(t)'
    <3>1. Of(t)' = {d} /\ ~isLoggedIn[t]
      BY <1>6, <2>2, <2>6
    <3>2. InFlight(t, "details")'
      BY <2>2, <3>1 DEF InFlight
    <3> QED
      BY <1>3, <1>7, <2>2, <3>1, <3>2 DEF CallsAgree, TabAgrees
  <2> QED
    BY <1>1, <1>3, <1>4, <1>7, <2>2, <2>3, <2>4, <2>5, <2>6, TabStep DEF TabInv
<1>8. CASE outcome # "ok" /\ cookie' = cookie /\ Done(c)
  <2>1. calls' \in SUBSET Call /\ Of(t)' = Of(t) \ {c} /\ \A o \in Tab \ {t} : Of(o)' = Of(o)
    BY <1>1, <1>8, DoneOnly DEF t
  <2>2. admitted' = admitted
    BY <1>2, <1>8
  <2>3. TypeOK'
    BY <1>1, <1>3, <1>4, <1>8, <2>1, <2>2 DEF TypeOK
  <2>4. ShowsAdmitted(t)' /\ LoadingEnds(t)'
    BY <1>1, <1>3, <2>1, <2>2 DEF TabInv, ShowsAdmitted, LoadingEnds
  <2>5. ASSUME ~disturbed'[t] PROVE CallsAgree(t)' /\ TabAgrees(t)'
    <3>1. Of(t)' = {} /\ ~isLoggedIn[t] /\ cookie = user[t]
      BY <1>2, <1>6, <2>1, <2>5 DEF TabAgrees, InFlight
    <3> QED
      BY <1>3, <1>8, <3>1 DEF CallsAgree, TabAgrees
  <2> QED
    BY <1>1, <1>3, <1>4, <1>8, <2>1, <2>2, <2>3, <2>4, <2>5, TabStep DEF TabInv
<1> QED
  BY <1>2, <1>7, <1>8
LEMMA FinishDetailsStep ==
  ASSUME IInv, NEW c \in calls, NEW outcome \in Outcome, FinishDetails(c, outcome)
  PROVE  IInv'
<1> DEFINE t == c.tab
<1>1. /\ c \in Call /\ t \in Tab /\ c.who \in User \cup {None} /\ c \in Of(t)
      /\ TypeOK /\ TabInv(t) /\ cookie \in admitted \cup {None}
  BY CallKnown
<1>2. /\ c.kind = "details" /\ Done(c) /\ UNCHANGED <<cookie, admitted, stuck>>
  BY DEF FinishDetails, Ends
<1>3. c.who \in admitted \cup {None}
  BY <1>1, <1>2 DEF TabInv, ShowsAdmitted
<1>4. calls' \in SUBSET Call /\ Of(t)' = Of(t) \ {c} /\ \A o \in Tab \ {t} : Of(o)' = Of(o)
  BY <1>1, <1>2, DoneOnly
<1>5. CASE outcome # "ok"
  <2>1. /\ UNCHANGED <<route, user, isLoggedIn, isLoading, wanted>>
        /\ disturbed' \in [Tab -> BOOLEAN] /\ disturbed'[t]
        /\ \A o \in Tab \ {t} : disturbed'[o] = disturbed[o]
    BY <1>1, <1>5 DEF FinishDetails, TypeOK
  <2> HIDE DEF t
  <2>2. TypeOK'
    BY <1>1, <1>2, <1>4, <2>1 DEF TypeOK
  <2>3. ShowsAdmitted(t)' /\ LoadingEnds(t)'
    BY <1>1, <1>2, <1>4, <2>1 DEF TabInv, ShowsAdmitted, LoadingEnds, InFlight
  <2> QED
    BY <1>1, <1>2, <1>4, <2>1, <2>2, <2>3, TabStep DEF TabInv
<1>6. CASE outcome = "ok"
  <2>1. /\ user' = [user EXCEPT ![t] = c.who]
        /\ isLoggedIn' = [isLoggedIn EXCEPT ![t] = TRUE]
        /\ isLoading' = isLoading /\ disturbed' = disturbed
        /\ Wants(t, "home")
    BY <1>1, <1>6 DEF FinishDetails, Becomes, TypeOK
  <2>2. /\ route' \in [Tab -> Route] /\ \A o \in Tab \ {t} : route'[o] = route[o]
        /\ ~isLoading[t] => route'[t] = "home"
    BY <1>1, <1>6 DEF FinishDetails, Becomes, App, ProtectedRoute, AdminRoute, TypeOK, Route
  <2>3. /\ user' \in [Tab -> User \cup {None}] /\ isLoggedIn' \in [Tab -> BOOLEAN]
        /\ user'[t] = c.who /\ isLoggedIn'[t]
        /\ \A o \in Tab \ {t} : user'[o] = user[o] /\ isLoggedIn'[o] = isLoggedIn[o]
    BY <1>1, <2>1 DEF TypeOK
  <2>4. wanted' \in [Tab -> Route] /\ \A o \in Tab \ {t} : wanted'[o] = wanted[o]
    BY <1>1, <2>1, WantsOnly DEF Route
  <2>5. wanted'[t] = "home"
    BY <1>1, <2>1, <2>3, WantsOnly DEF Route
  <2> HIDE DEF t
  <2>6. TypeOK'
    BY <1>1, <1>2, <1>4, <2>1, <2>2, <2>3, <2>4 DEF TypeOK
  <2>7. ShowsAdmitted(t)' /\ LoadingEnds(t)'
    BY <1>1, <1>2, <1>3, <1>4, <2>1, <2>3 DEF TabInv, ShowsAdmitted, LoadingEnds, InFlight
  <2>8. ASSUME ~disturbed'[t] PROVE CallsAgree(t)' /\ TabAgrees(t)'
    <3>1. CallsAgree(t)
      BY <1>1, <2>1, <2>8 DEF TabInv
    <3>2. Of(t)' = {} /\ c.who = cookie /\ ~isLoading[t]
      BY <1>1, <1>2, <1>4, <3>1 DEF CallsAgree
    <3> QED
      BY <1>2, <2>1, <2>2, <2>3, <2>5, <3>2 DEF CallsAgree, TabAgrees, AdminRoute
  <2> QED
    BY <1>1, <1>2, <1>4, <2>1, <2>2, <2>3, <2>4, <2>6, <2>7, <2>8, TabStep DEF TabInv
<1> QED
  BY <1>5, <1>6

LEMMA FinishRegisterStep ==
  ASSUME IInv, NEW c \in calls, NEW outcome \in Outcome, FinishRegister(c, outcome)
  PROVE  IInv'
<1> DEFINE t == c.tab
<1>1. /\ c \in Call /\ t \in Tab /\ c.who \in User \cup {None} /\ c \in Of(t)
      /\ TypeOK /\ TabInv(t) /\ cookie \in admitted \cup {None}
  BY CallKnown
<1>2. c.kind = "register" /\ Done(c) /\ UNCHANGED <<cookie, admitted, disturbed>>
  BY DEF FinishRegister, Ends
<1>3. /\ user' = user /\ isLoggedIn' = isLoggedIn /\ wanted' \in [Tab -> Route]
      /\ isLoading' \in [Tab -> BOOLEAN] /\ route' \in [Tab -> Route] /\ stuck' \subseteq Tab
      /\ isLoading'[t] => t \in stuck'
      /\ \A o \in Tab \ {t} :
            /\ isLoading'[o] = isLoading[o] /\ route'[o] = route[o] /\ wanted'[o] = wanted[o]
            /\ o \in stuck' <=> o \in stuck
  BY FormEnds DEF FinishRegister
<1>4. calls' \in SUBSET Call /\ Of(t)' = Of(t) \ {c} /\ \A o \in Tab \ {t} : Of(o)' = Of(o)
  BY <1>1, <1>2, DoneOnly
<1> HIDE DEF t
<1>5. TypeOK'
  BY <1>1, <1>2, <1>3, <1>4 DEF TypeOK
<1>6. ShowsAdmitted(t)' /\ LoadingEnds(t)'
  BY <1>1, <1>2, <1>3, <1>4 DEF TabInv, ShowsAdmitted, LoadingEnds
<1>7. ASSUME ~disturbed'[t] PROVE CallsAgree(t)' /\ TabAgrees(t)'
  <2>1. CallsAgree(t) /\ TabAgrees(t)
    BY <1>1, <1>2, <1>7 DEF TabInv
  <2>2. Of(t) = {c} /\ ~isLoggedIn[t]
    BY <1>1, <1>2, <2>1 DEF CallsAgree
  <2>3. Of(t)' = {} /\ cookie = user[t]
    BY <1>2, <1>4, <2>1, <2>2 DEF TabAgrees, InFlight
  <2> QED
    BY <1>2, <1>3, <2>2, <2>3 DEF CallsAgree, TabAgrees
<1> QED
  BY <1>1, <1>2, <1>3, <1>4, <1>5, <1>6, <1>7, TabStep DEF TabInv

LEMMA FinishUpdateStep ==
  ASSUME IInv, NEW c \in calls, NEW outcome \in Outcome, FinishUpdate(c, outcome)
  PROVE  IInv'
<1> DEFINE t == c.tab
<1>1. /\ c \in Call /\ t \in Tab /\ c.who \in User \cup {None} /\ c \in Of(t)
      /\ TypeOK /\ TabInv(t) /\ cookie \in admitted \cup {None}
  BY CallKnown
<1>2. /\ c.kind = "update" /\ (Done(c) \/ Then(c, "refetch"))
      /\ UNCHANGED <<route, user, isLoggedIn, isLoading, cookie, admitted, wanted, disturbed,
                     stuck>>
  BY DEF FinishUpdate, Ends
<1>3. /\ calls' \in SUBSET Call /\ \A o \in Tab \ {t} : Of(o)' = Of(o)
      /\ \A d \in Of(t)' : d \in Of(t) \/ (d.kind = "refetch" /\ d.who = c.who)
      /\ \A d \in Of(t) : d # c => d \in Of(t)'
  <2>1. CASE Done(c)
    BY <1>1, <2>1, DoneOnly
  <2>2. CASE Then(c, "refetch")
    BY <1>1, <2>2, ThenOnly DEF Kind
  <2> QED
    BY <1>2, <2>1, <2>2
<1> HIDE DEF t
<1>4. TypeOK'
  BY <1>1, <1>2, <1>3 DEF TypeOK
<1>5. ShowsAdmitted(t)' /\ LoadingEnds(t)'
  BY <1>1, <1>2, <1>3 DEF TabInv, ShowsAdmitted, LoadingEnds, InFlight
<1>6. ASSUME ~disturbed'[t] PROVE CallsAgree(t)' /\ TabAgrees(t)'
  <2>1. CallsAgree(t) /\ TabAgrees(t) /\ isLoggedIn[t]
    BY <1>1, <1>2, <1>6 DEF TabInv, CallsAgree
  <2>2. \A d \in Of(t)' : d.kind \notin {"mount", "validate", "details", "register"}
    BY <1>3, <2>1 DEF CallsAgree
  <2>3. cookie = user[t]
    BY <2>1 DEF CallsAgree, TabAgrees, InFlight
  <2>4. CallsAgree(t)'
    BY <1>1, <1>2, <1>3, <2>1, <2>2 DEF CallsAgree
  <2>5. TabAgrees(t)'
    BY <1>2, <2>1, <2>3 DEF TabAgrees, AdminRoute, IsAdmin
  <2> QED
    BY <2>4, <2>5
<1> QED
  BY <1>1, <1>2, <1>3, <1>4, <1>5, <1>6, TabStep DEF TabInv

LEMMA FinishRefetchStep ==
  ASSUME IInv, NEW c \in calls, NEW outcome \in Outcome, FinishRefetch(c, outcome)
  PROVE  IInv'
<1> DEFINE t == c.tab
<1>1. /\ c \in Call /\ t \in Tab /\ c.who \in User \cup {None} /\ c \in Of(t)
      /\ TypeOK /\ TabInv(t) /\ cookie \in admitted \cup {None}
  BY CallKnown
<1>2. c.kind = "refetch" /\ Done(c) /\ UNCHANGED <<cookie, admitted, disturbed, stuck>>
  BY DEF FinishRefetch, Ends
<1>3. c.who \in admitted \cup {None}
  BY <1>1, <1>2 DEF TabInv, ShowsAdmitted
<1>4. calls' \in SUBSET Call /\ Of(t)' = Of(t) \ {c} /\ \A o \in Tab \ {t} : Of(o)' = Of(o)
  BY <1>1, <1>2, DoneOnly
<1>5. ASSUME ~disturbed[t]
      PROVE  /\ CallsAgree(t) /\ TabAgrees(t) /\ isLoggedIn[t] /\ ~isLoading[t]
             /\ c.who = cookie /\ cookie = user[t]
             /\ \A d \in Of(t) : d.kind \notin {"mount", "validate", "details", "register"}
  <2>1. CallsAgree(t) /\ TabAgrees(t) /\ isLoggedIn[t] /\ ~isLoading[t] /\ c.who = cookie
    BY <1>1, <1>2, <1>5 DEF TabInv, CallsAgree
  <2>2. \A d \in Of(t) : d.kind \notin {"mount", "validate", "details", "register"}
    BY <2>1 DEF CallsAgree
  <2> QED
    BY <2>1, <2>2 DEF TabAgrees, InFlight
<1>6. CASE outcome # "ok"
  <2>1. UNCHANGED <<route, user, isLoggedIn, isLoading, wanted>>
    BY <1>6 DEF FinishRefetch
  <2> HIDE DEF t
  <2>2. TypeOK'
    BY <1>1, <1>2, <1>4, <2>1 DEF TypeOK
  <2>3. ShowsAdmitted(t)' /\ LoadingEnds(t)'
    BY <1>1, <1>2, <1>4, <2>1 DEF TabInv, ShowsAdmitted, LoadingEnds, InFlight
  <2>4. ASSUME ~disturbed'[t] PROVE CallsAgree(t)' /\ TabAgrees(t)'
    <3>1. CallsAgree(t)'
      BY <1>2, <1>4, <1>5, <2>1, <2>4 DEF CallsAgree
    <3>2. TabAgrees(t)'
      BY <1>2, <1>5, <2>1, <2>4 DEF TabAgrees, AdminRoute, IsAdmin
    <3> QED
      BY <3>1, <3>2
  <2> QED
    BY <1>1, <1>2, <1>4, <2>1, <2>2, <2>3, <2>4, TabStep DEF TabInv
<1>7. CASE outcome = "ok"
  <2>1. /\ user' = [user EXCEPT ![t] = c.who]
        /\ isLoggedIn' = [isLoggedIn EXCEPT ![t] = TRUE]
        /\ isLoading' = isLoading /\ Wants(t, wanted[t])
    BY <1>1, <1>7 DEF FinishRefetch, Becomes, TypeOK
  <2>2. /\ route' \in [Tab -> Route] /\ \A o \in Tab \ {t} : route'[o] = route[o]
        /\ ~isLoading[t] => route'[t] = AdminRoute(route[t], c.who)
    BY <1>1, <1>7 DEF FinishRefetch, Becomes, App, ProtectedRoute, AdminRoute, TypeOK, Route
  <2>3. /\ user' \in [Tab -> User \cup {None}] /\ isLoggedIn' \in [Tab -> BOOLEAN]
        /\ user'[t] = c.who /\ isLoggedIn'[t]
        /\ \A o \in Tab \ {t} : user'[o] = user[o] /\ isLoggedIn'[o] = isLoggedIn[o]
    BY <1>1, <2>1 DEF TypeOK
  <2>4. wanted' \in [Tab -> Route] /\ \A o \in Tab \ {t} : wanted'[o] = wanted[o]
    BY <1>1, <2>1, WantsOnly DEF TypeOK
  <2>5. wanted'[t] = wanted[t]
    BY <1>1, <2>1, <2>3, WantsOnly DEF TypeOK
  <2> HIDE DEF t
  <2>6. TypeOK'
    BY <1>1, <1>2, <1>4, <2>1, <2>2, <2>3, <2>4 DEF TypeOK
  <2>7. ShowsAdmitted(t)' /\ LoadingEnds(t)'
    BY <1>1, <1>2, <1>3, <1>4, <2>1, <2>3 DEF TabInv, ShowsAdmitted, LoadingEnds, InFlight
  <2>8. ASSUME ~disturbed'[t] PROVE CallsAgree(t)' /\ TabAgrees(t)'
    <3>1. CallsAgree(t)'
      BY <1>2, <1>4, <1>5, <2>1, <2>3, <2>8 DEF CallsAgree
    <3>2. route'[t] = AdminRoute(wanted[t], c.who)
      BY <1>2, <1>5, <2>2, <2>8 DEF TabAgrees, AdminRoute
    <3>3. TabAgrees(t)'
      BY <1>2, <1>5, <2>3, <2>5, <2>8, <3>2 DEF TabAgrees, AdminRoute, IsAdmin
    <3> QED
      BY <3>1, <3>3
  <2> QED
    BY <1>1, <1>2, <1>4, <2>1, <2>2, <2>3, <2>4, <2>6, <2>7, <2>8, TabStep DEF TabInv
<1> QED
  BY <1>6, <1>7

(***************************************************************************)
(* 4. The theorems.                                                        *)
(***************************************************************************)

LEMMA NextStep == IInv /\ Next => IInv'
BY MountStep, NavigateStep, SubmitLoginStep, SubmitRegisterStep, LogoutStep, SubmitSettingsStep,
   FinishMountStep, FinishValidateStep, FinishDetailsStep, FinishRegisterStep, FinishUpdateStep,
   FinishRefetchStep DEF Next, Finish

LEMMA Stutter == IInv /\ UNCHANGED vars => IInv'
BY DEF vars, IInv, TypeOK, TabInv, ShowsAdmitted, LoadingEnds, CallsAgree, TabAgrees, InFlight,
       Of, AdminRoute, IsAdmin

(* The inductive invariant holds throughout. *)
LEMMA Invariance == Spec => []IInv
<1>1. Init => IInv
  BY InitIInv
<1>2. IInv /\ [Next]_vars => IInv'
  BY NextStep, Stutter
<1> QED
  BY <1>1, <1>2, PTL DEF Spec

(* Every variable keeps its type: in particular the cookie and each tab's   *)
(* user are accounts, or nobody.                                            *)
THEOREM TypeCorrect == Spec => []TypeOK
<1>1. IInv => TypeOK
  BY DEF IInv
<1> QED
  BY <1>1, Invariance, PTL

(* Whoever logs in and out in however many tabs, nobody is shown whose      *)
(* password was not given (authenticate, the mount effect, refreshUser).    *)
THEOREM AdmittedOnly == Spec => []OnlyAdmittedShown
<1>1. IInv => OnlyAdmittedShown
  BY DEF IInv, TabInv, ShowsAdmitted, OnlyAdmittedShown
<1> QED
  BY <1>1, Invariance, PTL

(* A tab left alone agrees with the cookie: a reload shows the same user.   *)
THEOREM ReloadAgrees == Spec => []IdentityAgrees
<1>1. IInv => IdentityAgrees
  BY DEF IInv, TabInv, TabAgrees, IdentityAgrees
<1> QED
  BY <1>1, Invariance, PTL

(* Who is logged in stays where he asked to be (ProtectedRoute, AdminRoute).*)
THEOREM PageKept == Spec => []WantedPageShown
<1>1. IInv => WantedPageShown
  BY DEF IInv, TabInv, TabAgrees, WantedPageShown
<1> QED
  BY <1>1, Invariance, PTL

(* The provider's isLoading is set only while a call that clears it is in   *)
(* flight, or where login or register was lost.                             *)
THEOREM LoadingIsAwaited == Spec => []LoadingAwaits
<1>1. IInv => LoadingAwaits
  BY DEF IInv, TabInv, LoadingEnds, LoadingAwaits
<1> QED
  BY <1>1, Invariance, PTL
=============================================================================
