------------------------------ MODULE LabsPage ------------------------------
(***************************************************************************)
(* The pages that list instances and act on them: MyLabs with VMsTable,    *)
(* SubjectDetail with VMDetails and RequestLabButton, and the professors'  *)
(* SubjectInstancesManager.  A page fetches a list from the backend        *)
(* (useVMs, useSubjectVMs), copies it, and patches the copy when its own   *)
(* actions end; LoadingContext disables the buttons of every page while    *)
(* an action runs.  Other tabs, the backend's session monitor and          *)
(* professors change the instances too.                                    *)
(*                                                                         *)
(* One page is open at a time; the manager is modelled as a page although  *)
(* it opens above SubjectDetail.  A page shows nothing before all its      *)
(* hooks have answered: their fetches count as one.                        *)
(***************************************************************************)
EXTENDS FiniteSets, Naturals

CONSTANTS
    Instance,    \* the instances of one student or professor in one subject
    None,        \* no instance
    MaxActions   \* the model's bound on the actions in flight

ASSUME NoneAssumption == None \notin Instance

VARIABLES
    status,         \* the backend's view of each instance
    professor,      \* whether the user is a professor or an administrator
    page,           \* the page that is open
    loading,        \* its hook's loading
    fetches,        \* its fetches in flight
    list,           \* its hook's list, except where only its copy is looked at
    shown,          \* its own copy of the list
    globalLoading,  \* LoadingContext's isLoading
    actions,        \* its actions in flight, and those of the pages before it
    foreign         \* history: the instances that changed elsewhere since the
                    \* list was read, or on which an action failed or stopped
                    \* nothing, and what is stale in a list shown again

vars == <<status, professor, page, loading, fetches, list, shown,
          globalLoading, actions, foreign>>

Page   == {"other", "mylabs", "detail", "manager"}
Status == {"none", "shut off", "running"}
List   == [Instance -> Status]
Empty  == [i \in Instance |-> "none"]

\* refresh: asked for with the button.  read: the backend has answered.
Fetch == [refresh : BOOLEAN, read : BOOLEAN, list : List]

\* state: sent, then ok, failed, or void: answered ok, without an effect;
\* overtaken when the instance changes again.
\* mounted: the component that started it is.
Action == [kind : {"start", "stop", "delete", "create"}, id : Instance \cup {None},
           state : {"sent", "ok", "failed", "void", "overtaken"},
           mounted : BOOLEAN]

TypeOK ==
    /\ status \in List
    /\ professor \in BOOLEAN
    /\ page \in Page
    /\ loading \in BOOLEAN
    /\ fetches \subseteq Fetch
    /\ list \in List
    /\ shown \in List
    /\ globalLoading \in BOOLEAN
    /\ actions \subseteq Action
    /\ foreign \subseteq Instance

----------------------------------------------------------------------------
(* Fetching the list *)

NewFetch(refresh) == [refresh |-> refresh, read |-> FALSE, list |-> Empty]

\* Where the list l is not what the backend would answer now.
Stale(l) == {i \in Instance : l[i] # status[i]}

Unmounted(as) == {[a EXCEPT !.mounted = FALSE] : a \in as}

\* The page p is mounted and asks for its list.
Mount(p) ==
    /\ page' = p
    /\ fetches' = IF p = "other" THEN {} ELSE {NewFetch(FALSE)}
    /\ loading' = (p # "other")
    /\ list' = Empty
    /\ shown' = Empty
    /\ foreign' = IF p = "manager" THEN Stale(Empty) ELSE {}

\* A bound: a professor's MyLabs is a student's that never refuses a start.
PagesOf(prof) == IF prof THEN {"detail", "manager"} ELSE {"mylabs", "detail"}

\* A link or the browser's buttons.  An action goes on without its component.
Navigate(p) ==
    /\ p # page
    /\ p # "other" => p \in PagesOf(professor)
    /\ Mount(p)
    /\ actions' = Unmounted(actions)
    /\ UNCHANGED <<status, professor, globalLoading>>

\* The page is loaded again.  Nobody will hear of what is in flight: what the
\* backend still does of it is one of the others' actions.
Reload ==
    /\ Mount(page)
    /\ globalLoading' = FALSE
    /\ actions' = {}
    /\ UNCHANGED <<status, professor>>

\* The manager keeps its copy while it loads.
HasCopy == page = "manager" \/ (page # "other" /\ ~loading)

\* MyLabs shows no table, and no button, when its list is empty.
TableShown ==
    /\ page # "other" /\ ~loading
    /\ page = "mylabs" => list # Empty

\* The dialog of RequestLabButton cannot be closed while it waits.
DialogWaits == \E a \in actions : a.kind = "create" /\ a.mounted

\* The manager's button waits for its own fetch and not for the first one; a
\* spinner replaces the other pages, their buttons and copies.
Refresh ==
    /\ ~DialogWaits
    /\ \/ /\ page = "manager"
          /\ \A f \in fetches : ~f.refresh
          /\ UNCHANGED <<actions, shown, foreign>>
       \/ /\ page \in {"mylabs", "detail"} /\ TableShown
          /\ actions' = Unmounted(actions)
          /\ shown' = Empty /\ foreign' = {}
    /\ fetches' = fetches \cup {NewFetch(TRUE)}
    /\ loading' = TRUE
    /\ UNCHANGED <<status, professor, page, list, globalLoading>>

Read(f) ==
    /\ f \in fetches /\ ~f.read
    /\ fetches' = (fetches \ {f}) \cup {[f EXCEPT !.read = TRUE, !.list = status]}
    /\ UNCHANGED <<status, professor, page, loading, list, shown, globalLoading,
                   actions, foreign>>

NotSynchronized(l) == shown

\* The effect on initialVMs, or mounting the table again: the copy is the list.
Synchronized(l) == l

\* An empty list may be what useSubjectVMs filters from the instances of other
\* subjects.
ShowList(f) ==
    /\ f \in fetches /\ f.read
    /\ fetches' = fetches \ {f}
    /\ loading' = FALSE
    /\ list' = IF page = "manager" THEN Empty ELSE f.list
    /\ shown' = Synchronized(f.list)
    /\ foreign' = Stale(f.list)
    /\ UNCHANGED <<status, professor, page, globalLoading, actions>>

\* useSubjectVMs keeps its list.  VMDetails is mounted again on it, and loses what
\* its actions had changed; the manager keeps its copy.
KeepList(f) ==
    /\ f \in fetches /\ page \in {"detail", "manager"}
    /\ fetches' = fetches \ {f}
    /\ loading' = FALSE
    /\ \/ page = "detail" /\ shown' = list /\ foreign' = Stale(list)
       \/ page = "manager" /\ UNCHANGED <<shown, foreign>>
    /\ UNCHANGED <<status, professor, page, list, globalLoading, actions>>

\* The fetch fails: useVMs empties its list.
LoseList(f) ==
    \/ /\ f \in fetches /\ page = "mylabs"
       /\ fetches' = fetches \ {f}
       /\ loading' = FALSE
       /\ list' = Empty /\ shown' = Empty
       /\ foreign' = Stale(Empty)
       /\ UNCHANGED <<status, professor, page, globalLoading, actions>>
    \/ KeepList(f)

\* Where there is no instance in another subject either, the backend's empty
\* answer is null: useVMs takes it for [], useSubjectVMs throws on it.
ReadNull(f) == f.read /\ f.list = Empty /\ KeepList(f)

----------------------------------------------------------------------------
(* Actions on an instance *)

CanStartAnother == professor \/ \E i \in Instance : shown[i] # "running"

\* canStart: a student is offered to start an instance when he sees none running.
CanStart == professor \/ \A i \in Instance : shown[i] # "running"

\* The buttons that a row's status leads to.
ByStatus(kind, i, canStart) ==
    /\ shown[i] = IF kind = "stop" THEN "running" ELSE "shut off"
    /\ kind = "start" => canStart

InTable(kind, i) == ByStatus(kind, i, CanStart)
InManager(kind, i) == ByStatus(kind, i, CanStart)

\* VMDetails shows one instance, and does not look at the others.
InDetails(kind, i) == ByStatus(kind, i, TRUE)

Offered(kind, i) ==
    \/ page = "mylabs"  /\ InTable(kind, i)
    \/ page = "detail"  /\ InDetails(kind, i)
    \/ page = "manager" /\ InManager(kind, i)

ButtonsAlwaysEnabled == TRUE

ButtonsEnabled == ~globalLoading

NewAction(kind, i) ==
    [kind |-> kind, id |-> i, state |-> "sent", mounted |-> TRUE]

Send(a) == Cardinality(actions) < MaxActions /\ actions' = actions \cup {a}

Click(kind, i) ==
    /\ TableShown /\ ~DialogWaits
    /\ ButtonsEnabled
    /\ Offered(kind, i)
    /\ Send(NewAction(kind, i))
    /\ globalLoading' = TRUE
    /\ UNCHANGED <<status, professor, page, loading, fetches, list, shown, foreign>>

\* handleStart, handleStop and handleDelete of the three buttons.
Start(i)  == Click("start", i)
Stop(i)   == Click("stop", i)
Delete(i) == Click("delete", i)

RequestAlwaysOffered == TRUE

\* TemplateSelector and its button.
RequestOffered == list = Empty \/ professor

\* RequestLabButton's handleSubmit.
RequestLab ==
    /\ page = "detail" /\ ~loading /\ ~DialogWaits
    /\ RequestOffered
    /\ Send(NewAction("create", None))
    /\ UNCHANGED <<status, professor, page, loading, fetches, list, shown,
                   globalLoading, foreign>>

----------------------------------------------------------------------------
(* The backend *)

\* Where an action of this kind leads from the status s; elsewhere it is refused.
Legal(kind, s) ==
    CASE kind = "start"  -> s = "shut off"
      [] kind = "stop"   -> s = "running"
      [] kind = "delete" -> s = "shut off"
      [] kind = "create" -> s = "none"

After(kind) ==
    CASE kind = "start"  -> "running"
      [] kind = "stop"   -> "shut off"
      [] kind = "delete" -> "none"
      [] kind = "create" -> "shut off"

\* The instance i becomes s; known: the page will show it.
Becomes(i, s, known) ==
    /\ status' = [status EXCEPT ![i] = s]
    /\ foreign' = IF HasCopy /\ ~known /\ shown[i] # s
                  THEN foreign \cup {i} ELSE foreign \ {i}

\* The other actions on i have been overtaken.
Overtake(as, i) ==
    {IF a.id = i /\ a.state = "ok" THEN [a EXCEPT !.state = "overtaken"] ELSE a : a \in as}

Answered(a, state) == {[a EXCEPT !.state = state]}

\* The backend does what is asked, its answer arriving or not, or refuses, or
\* reports a stop although it passed over every agent: those that do not answer,
\* and those that have no such guest running.
Perform(a) ==
    /\ a \in actions /\ a.state = "sent"
    /\ \/ \E i \in Instance, state \in {"ok", "failed"} :
              /\ a.id \in {i, None}
              /\ Legal(a.kind, status[i])
              /\ Becomes(i, After(a.kind), state = "ok" /\ a.mounted /\ a.kind # "create")
              /\ actions' = Overtake(actions \ {a}, i) \cup Answered(a, state)
       \/ /\ actions' = (actions \ {a}) \cup Answered(a, "failed")
          /\ UNCHANGED <<status, foreign>>
       \/ /\ a.kind = "stop" /\ Legal(a.kind, status[a.id])
          /\ actions' = (actions \ {a}) \cup Answered(a, "void")
          /\ UNCHANGED <<status, foreign>>
    /\ UNCHANGED <<professor, page, loading, fetches, list, shown, globalLoading>>

\* Another tab, the session monitor, a professor.
OtherActor(kind, i) ==
    /\ Legal(kind, status[i])
    /\ Becomes(i, After(kind), FALSE)
    /\ actions' = Overtake(actions, i)
    /\ UNCHANGED <<professor, page, loading, fetches, list, shown, globalLoading>>

----------------------------------------------------------------------------
(* Answers to the page *)

\* The local updaters.
Patched(l, a) == [l EXCEPT ![a.id] = After(a.kind)]

\* onSuccess is called whatever startVM, stopVM or deleteVM returned.
Finish(a) ==
    /\ a \in actions /\ a.state # "sent" /\ a.kind # "create"
    /\ actions' = actions \ {a}
    /\ globalLoading' = FALSE
    /\ shown' = IF a.mounted THEN Patched(shown, a) ELSE shown
    /\ foreign' = IF a.mounted /\ a.state # "ok" THEN foreign \cup {a.id} ELSE foreign
    /\ UNCHANGED <<status, professor, page, loading, fetches, list>>

\* A lab that was created reloads whatever page is open by now.
FinishCreate(a) ==
    /\ a \in actions /\ a.kind = "create" /\ a.state # "sent"
    /\ \/ /\ a.state = "ok"
          /\ Reload
       \/ /\ a.state = "failed"
          /\ actions' = actions \ {a}
          /\ UNCHANGED <<status, professor, page, loading, fetches, list, shown,
                         globalLoading, foreign>>

----------------------------------------------------------------------------
Init ==
    /\ status \in [Instance -> {"none", "shut off"}]
    /\ professor \in BOOLEAN
    /\ page = "other"
    /\ loading = FALSE
    /\ fetches = {}
    /\ list = Empty
    /\ shown = Empty
    /\ globalLoading = FALSE
    /\ actions = {}
    /\ foreign = {}

User ==
    \/ \E p \in Page : Navigate(p)
    \/ Reload \/ Refresh \/ RequestLab
    \/ \E i \in Instance : Start(i) \/ Stop(i) \/ Delete(i)

Answer ==
    \/ \E f \in fetches : Read(f) \/ ShowList(f) \/ LoseList(f) \/ ReadNull(f)
    \/ \E a \in actions : Perform(a) \/ Finish(a) \/ FinishCreate(a)

Others == \E i \in Instance, kind \in {"start", "stop", "delete", "create"} : OtherActor(kind, i)

Next == User \/ Answer \/ Others

Spec == Init /\ [][Next]_vars

----------------------------------------------------------------------------
(* Properties *)

Running == {a \in actions : a.kind # "create"}

\* The buttons of every page are disabled exactly while an action of this page
\* load is in flight, and there is one at most: an action that outlives its
\* page does not leave them disabled, nor does it enable them too early.
ActionsExclusive ==
    /\ globalLoading <=> Running # {}
    /\ \A a, b \in Running : a = b

\* A row differs from the backend only while an action on it is in flight, or
\* when it changed elsewhere, or an action on it failed or was a stop reported
\* and not done, since the list was read; or when the list could not be read
\* again and VMDetails went back to the one before its own actions.
DisplayTrue ==
    TableShown /\ fetches = {} =>
        \A i \in Instance \ foreign :
            shown[i] = status[i] \/ \E a \in Running : a.mounted /\ a.id = i

Sent == {a \in actions' \ actions : a.state = "sent" /\ a.mounted}

\* A student who looks at the list of his instances, and the list is right,
\* starts none while another one runs.
StartsWhenNoneRuns ==
    [][\A a \in Sent :
          a.kind = "start" /\ page = "mylabs" /\ ~professor /\ foreign = {}
              => \A i \in Instance : status[i] # "running"]_vars

\* A student who has an instance in the subject asks for another only if the
\* page is wrong about it.
OneLabAsked ==
    [][\A a \in Sent :
          a.kind = "create" /\ ~professor /\ foreign = {} => status = Empty]_vars
=============================================================================
