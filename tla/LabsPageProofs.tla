---------------------------- MODULE LabsPageProofs ----------------------------
(***************************************************************************)
(* Theorems about LabsPage for any instances and any number of actions in  *)
(* flight, whichever pages are open when they end.                         *)
(***************************************************************************)
EXTENDS LabsPage, TLAPS

(***************************************************************************)
(* 1. The inductive invariant, part by part.                               *)
(***************************************************************************)

(* The buttons act on one instance each; one that has succeeded, and was    *)
(* not overtaken, left the instance in the state its page will show.        *)
ActionFits(a) ==
    /\ a.kind = "create" <=> a.id = None
    /\ a.kind # "create" /\ a.state = "ok" => status[a.id] = After(a.kind)

ActionsFit == \A a \in actions : ActionFits(a)

(* A copy differs from the backend only where it is excused.                *)
CopyTrue == HasCopy =>
    \A i \in Instance \ foreign :
        shown[i] = status[i] \/ \E a \in Running : a.mounted /\ a.id = i

(* The pages other than the manager wait for their one fetch, showing a     *)
(* spinner where the components were that had started actions.              *)
SpinnerFits == page \in {"mylabs", "detail"} =>
    /\ fetches # {} => loading
    /\ \A f, g \in fetches : f = g
    /\ loading => \A a \in actions : ~a.mounted

(* Where SubjectDetail offers a lab, VMDetails has nothing to act on.       *)
EmptyDetail == page = "detail" /\ ~loading /\ list = Empty =>
    shown = Empty /\ \A a \in Running : ~a.mounted

IInv ==
    /\ TypeOK /\ ActionsFit /\ ActionsExclusive /\ CopyTrue /\ SpinnerFits /\ EmptyDetail

(***************************************************************************)
(* 2. What the steps do to the actions in flight.                          *)
(***************************************************************************)

LEMMA EmptyTyped == Empty \in List /\ \A i \in Instance : Empty[i] = "none"
BY DEF Empty, List, Status

LEMMA NewActionTyped ==
  ASSUME NEW kind \in {"start", "stop", "delete", "create"}, NEW i \in Instance \cup {None}
  PROVE  /\ NewAction(kind, i) \in Action
         /\ NewAction(kind, i).kind = kind /\ NewAction(kind, i).id = i
         /\ NewAction(kind, i).state = "sent" /\ NewAction(kind, i).mounted
BY DEF NewAction, Action

(* At most one action disables the buttons. *)
Single(as) == \A a, b \in as : a.kind # "create" /\ b.kind # "create" => a = b

Disabling(as) == \E a \in as : a.kind # "create"

LEMMA Exclusive ==
  ActionsExclusive <=> ((globalLoading <=> Disabling(actions)) /\ Single(actions))
BY DEF ActionsExclusive, Running, Disabling, Single

LEMMA MountedSet ==
  ASSUME NEW a \in Action, NEW m \in BOOLEAN
  PROVE  [a EXCEPT !.mounted = m] =
             [kind |-> a.kind, id |-> a.id, state |-> a.state, mounted |-> m]
BY DEF Action

LEMMA UnmountedActions ==
  ASSUME NEW as \in SUBSET Action
  PROVE  /\ Unmounted(as) \subseteq Action
         /\ \A b \in Unmounted(as) :
               ~b.mounted /\ \E a \in as : b.kind = a.kind /\ b.id = a.id /\ b.state = a.state
         /\ Disabling(Unmounted(as)) <=> Disabling(as)
         /\ Single(as) => Single(Unmounted(as))
<1> DEFINE f(a) == [kind |-> a.kind, id |-> a.id, state |-> a.state, mounted |-> FALSE]
<1>1. \A a \in as : [a EXCEPT !.mounted = FALSE] = f(a)
  BY MountedSet
<1>2. Unmounted(as) = {f(a) : a \in as}
  BY <1>1 DEF Unmounted
<1>3. \A a \in as : /\ f(a) \in Action /\ ~f(a).mounted
                    /\ f(a).kind = a.kind /\ f(a).id = a.id /\ f(a).state = a.state
  BY DEF Action
<1> HIDE DEF f
<1>4. \A b \in Unmounted(as) : \E a \in as : b = f(a)
  BY <1>2
<1>5. \A a \in as : f(a) \in Unmounted(as)
  BY <1>2
<1>6. Disabling(Unmounted(as)) <=> Disabling(as)
  BY <1>3, <1>4, <1>5 DEF Disabling
<1>7. ASSUME Single(as) PROVE Single(Unmounted(as))
  <2> SUFFICES ASSUME NEW b \in Unmounted(as), NEW c \in Unmounted(as),
                      b.kind # "create", c.kind # "create"
               PROVE  b = c
    BY DEF Single
  <2>1. PICK d \in as : b = f(d)
    BY <1>4
  <2>2. PICK e \in as : c = f(e)
    BY <1>4
  <2>3. d = e
    BY <1>3, <1>7, <2>1, <2>2 DEF Single
  <2> QED
    BY <2>1, <2>2, <2>3
<1> QED
  BY <1>3, <1>4, <1>6, <1>7

LEMMA OvertakenActions ==
  ASSUME NEW as \in SUBSET Action, NEW i \in Instance
  PROVE  /\ Overtake(as, i) \subseteq Action
         /\ \A b \in Overtake(as, i) :
               \/ b \in as /\ ~(b.id = i /\ b.state = "ok")
               \/ /\ b.state = "overtaken" /\ b.id = i
                  /\ \E a \in as : b.kind = a.kind /\ b.id = a.id /\ (b.mounted <=> a.mounted)
         /\ \A a \in as : \E b \in Overtake(as, i) :
               b.kind = a.kind /\ b.id = a.id /\ (b.mounted <=> a.mounted)
         /\ Disabling(Overtake(as, i)) <=> Disabling(as)
         /\ Single(as) => Single(Overtake(as, i))
<1> DEFINE f(a) == IF a.id = i /\ a.state = "ok" THEN [a EXCEPT !.state = "overtaken"] ELSE a
<1>1. /\ \A b \in Overtake(as, i) : \E a \in as : b = f(a)
      /\ \A a \in as : f(a) \in Overtake(as, i)
  BY DEF Overtake
<1>2. ASSUME NEW a \in as
      PROVE  /\ f(a) \in Action
             /\ f(a).kind = a.kind /\ f(a).id = a.id /\ (f(a).mounted <=> a.mounted)
             /\ \/ f(a) = a /\ ~(a.id = i /\ a.state = "ok")
                \/ f(a).state = "overtaken" /\ a.id = i
  <2>1. CASE a.id = i /\ a.state = "ok"
    <3> DEFINE r == [kind |-> a.kind, id |-> a.id, state |-> "overtaken", mounted |-> a.mounted]
    <3>1. f(a) = r
      BY <2>1 DEF Action
    <3>2. /\ r \in Action /\ r.kind = a.kind /\ r.id = a.id /\ (r.mounted <=> a.mounted)
          /\ r.state = "overtaken"
      BY DEF Action
    <3> HIDE DEF f, r
    <3> QED
      BY <2>1, <3>1, <3>2
  <2>2. CASE ~(a.id = i /\ a.state = "ok")
    <3>1. f(a) = a /\ a \in Action
      BY <2>2
    <3> HIDE DEF f
    <3> QED
      BY <2>2, <3>1
  <2> QED
    BY <2>1, <2>2
<1> HIDE DEF f
<1>3. Disabling(Overtake(as, i)) <=> Disabling(as)
  BY <1>1, <1>2 DEF Disabling
<1>4. ASSUME Single(as) PROVE Single(Overtake(as, i))
  <2> SUFFICES ASSUME NEW b \in Overtake(as, i), NEW c \in Overtake(as, i),
                      b.kind # "create", c.kind # "create"
               PROVE  b = c
    BY DEF Single
  <2>1. PICK d \in as : b = f(d)
    BY <1>1
  <2>2. PICK e \in as : c = f(e)
    BY <1>1
  <2>3. d = e
    BY <1>2, <1>4, <2>1, <2>2 DEF Single
  <2> QED
    BY <2>1, <2>2, <2>3
<1>5. \A b \in Overtake(as, i) :
         /\ b \in Action
         /\ \/ b \in as /\ ~(b.id = i /\ b.state = "ok")
            \/ /\ b.state = "overtaken" /\ b.id = i
               /\ \E a \in as : b.kind = a.kind /\ b.id = a.id /\ (b.mounted <=> a.mounted)
  <2> SUFFICES ASSUME NEW b \in Overtake(as, i)
               PROVE  /\ b \in Action
                      /\ \/ b \in as /\ ~(b.id = i /\ b.state = "ok")
                         \/ /\ b.state = "overtaken" /\ b.id = i
                            /\ \E a \in as : /\ b.kind = a.kind /\ b.id = a.id
                                             /\ (b.mounted <=> a.mounted)
    OBVIOUS
  <2>1. PICK a \in as : b = f(a)
    BY <1>1
  <2>2. CASE f(a) = a /\ ~(a.id = i /\ a.state = "ok")
    BY <1>2, <2>1, <2>2
  <2>3. CASE f(a).state = "overtaken" /\ a.id = i
    BY <1>2, <2>1, <2>3
  <2> QED
    BY <1>2, <2>1, <2>2, <2>3
<1>6. \A a \in as : \E b \in Overtake(as, i) :
         b.kind = a.kind /\ b.id = a.id /\ (b.mounted <=> a.mounted)
  BY <1>1, <1>2
<1> QED
  BY <1>3, <1>4, <1>5, <1>6

LEMMA AnsweredAction ==
  ASSUME NEW a \in Action, NEW state \in {"ok", "failed", "void"}
  PROVE  \E b \in Action : /\ Answered(a, state) = {b} /\ b.state = state
                           /\ b.kind = a.kind /\ b.id = a.id /\ (b.mounted <=> a.mounted)
<1> DEFINE b == [kind |-> a.kind, id |-> a.id, state |-> state, mounted |-> a.mounted]
<1>1. [a EXCEPT !.state = state] = b
  BY DEF Action
<1> QED
  BY <1>1 DEF Answered, Action

LEMMA AfterTyped ==
  ASSUME NEW kind \in {"start", "stop", "delete", "create"}
  PROVE  After(kind) \in Status
BY DEF After, Status

LEMMA NewFetchTyped ==
  ASSUME NEW refresh \in BOOLEAN
  PROVE  NewFetch(refresh) \in Fetch
BY EmptyTyped DEF NewFetch, Fetch

LEMMA FetchRead ==
  ASSUME NEW f \in Fetch, NEW read \in BOOLEAN, NEW l \in List
  PROVE  [f EXCEPT !.read = read, !.list = l] \in Fetch
BY DEF Fetch

(***************************************************************************)
(* 3. The actions of the user.                                             *)
(***************************************************************************)

LEMMA Mounted ==
  ASSUME TypeOK, NEW p \in Page, Mount(p)
  PROVE  /\ page' = p /\ page' \in Page /\ loading' = (p # "other") /\ loading' \in BOOLEAN
         /\ fetches' \subseteq Fetch /\ \A f, g \in fetches' : f = g
         /\ list' = Empty /\ list' \in List /\ shown' = Empty /\ shown' \in List
         /\ foreign' \subseteq Instance
         /\ p = "manager" => \A i \in Instance \ foreign' : shown'[i] = status[i]
<1>1. p = "manager" => \A i \in Instance \ foreign' : Empty[i] = status[i]
  BY DEF Mount, Stale
<1>2. fetches' \subseteq Fetch /\ \A f, g \in fetches' : f = g
  BY NewFetchTyped DEF Mount
<1> QED
  BY <1>1, <1>2, EmptyTyped DEF Mount, Stale

LEMMA Navigations ==
  ASSUME IInv, NEW p \in Page, Navigate(p)
  PROVE  IInv'
<1> USE DEF IInv
<1>1. Mount(p) /\ actions' = Unmounted(actions) /\ UNCHANGED <<status, professor, globalLoading>>
  BY DEF Navigate
<1>2. actions \in SUBSET Action
  BY DEF TypeOK
<1>3. /\ page' = p /\ page' \in Page /\ loading' = (p # "other") /\ loading' \in BOOLEAN
      /\ fetches' \subseteq Fetch /\ \A f, g \in fetches' : f = g
      /\ list' = Empty /\ list' \in List /\ shown' = Empty /\ shown' \in List
      /\ foreign' \subseteq Instance
      /\ p = "manager" => \A i \in Instance \ foreign' : shown'[i] = status[i]
  BY <1>1, Mounted
<1>4. /\ actions' \subseteq Action
      /\ \A b \in actions' :
            ~b.mounted /\ \E a \in actions : b.kind = a.kind /\ b.id = a.id /\ b.state = a.state
      /\ (Disabling(actions') <=> Disabling(actions)) /\ Single(actions')
  BY <1>1, <1>2, UnmountedActions, Exclusive
<1>5. TypeOK'
  BY <1>1, <1>3, <1>4 DEF TypeOK
<1>6. ActionsFit'
  BY <1>1, <1>4 DEF ActionsFit, ActionFits
<1>7. ActionsExclusive'
  BY <1>1, <1>4, Exclusive DEF ActionsExclusive, Running, Disabling, Single
<1>8. CopyTrue'
  BY <1>1, <1>3 DEF CopyTrue, HasCopy
<1>9. SpinnerFits' /\ EmptyDetail'
  BY <1>3, <1>4 DEF SpinnerFits, EmptyDetail
<1> QED
  BY <1>5, <1>6, <1>7, <1>8, <1>9

LEMMA Reloads == IInv /\ Reload => IInv'
<1> SUFFICES ASSUME IInv, Reload PROVE IInv'
  OBVIOUS
<1> USE DEF IInv
<1>1. Mount(page) /\ globalLoading' = FALSE /\ actions' = {} /\ UNCHANGED <<status, professor>>
  BY DEF Reload
<1>2. page \in Page
  BY DEF TypeOK
<1>3. /\ page' = page /\ loading' = (page # "other") /\ loading' \in BOOLEAN
      /\ fetches' \subseteq Fetch /\ \A f, g \in fetches' : f = g
      /\ list' = Empty /\ list' \in List /\ shown' = Empty /\ shown' \in List
      /\ foreign' \subseteq Instance
      /\ page = "manager" => \A i \in Instance \ foreign' : shown'[i] = status[i]
  BY <1>1, <1>2, Mounted
<1>4. TypeOK'
  BY <1>1, <1>3 DEF TypeOK
<1>5. ActionsFit' /\ ActionsExclusive'
  BY <1>1 DEF ActionsFit, ActionsExclusive, Running
<1>6. CopyTrue' /\ SpinnerFits' /\ EmptyDetail'
  BY <1>1, <1>2, <1>3 DEF CopyTrue, HasCopy, SpinnerFits, EmptyDetail, Page
<1> QED
  BY <1>4, <1>5, <1>6

LEMMA Refreshes == IInv /\ Refresh => IInv'
<1> SUFFICES ASSUME IInv, Refresh PROVE IInv'
  OBVIOUS
<1> USE DEF IInv
<1>1. /\ fetches' = fetches \cup {NewFetch(TRUE)} /\ loading' = TRUE
      /\ UNCHANGED <<status, professor, page, list, globalLoading>>
  BY DEF Refresh
<1>2. fetches' \subseteq Fetch
  BY <1>1, NewFetchTyped DEF TypeOK
<1>3. CASE page = "manager" /\ UNCHANGED <<actions, shown, foreign>>
  <2>1. TypeOK'
    BY <1>1, <1>2, <1>3 DEF TypeOK
  <2>2. ActionsFit' /\ ActionsExclusive'
    BY <1>1, <1>3 DEF ActionsFit, ActionFits, ActionsExclusive, Running
  <2>3. CopyTrue' /\ SpinnerFits' /\ EmptyDetail'
    BY <1>1, <1>3 DEF CopyTrue, HasCopy, Running, SpinnerFits, EmptyDetail
  <2> QED
    BY <2>1, <2>2, <2>3
<1>4. CASE /\ page \in {"mylabs", "detail"} /\ TableShown
           /\ actions' = Unmounted(actions) /\ shown' = Empty /\ foreign' = {}
  <2>1. actions \in SUBSET Action
    BY DEF TypeOK
  <2>2. /\ actions' \subseteq Action
        /\ \A b \in actions' :
              ~b.mounted /\ \E a \in actions : b.kind = a.kind /\ b.id = a.id /\ b.state = a.state
        /\ (Disabling(actions') <=> Disabling(actions)) /\ Single(actions')
    BY <1>4, <2>1, UnmountedActions, Exclusive
  <2>3. TypeOK'
    BY <1>1, <1>2, <1>4, <2>2, EmptyTyped DEF TypeOK
  <2>4. ActionsFit'
    BY <1>1, <2>2 DEF ActionsFit, ActionFits
  <2>5. ActionsExclusive'
    BY <1>1, <2>2, Exclusive DEF ActionsExclusive, Running, Disabling, Single
  <2>6. fetches = {}
    BY <1>4 DEF TableShown, SpinnerFits
  <2>7. CopyTrue' /\ SpinnerFits' /\ EmptyDetail'
    BY <1>1, <1>4, <2>2, <2>6 DEF CopyTrue, HasCopy, SpinnerFits, EmptyDetail
  <2> QED
    BY <2>3, <2>4, <2>5, <2>7
<1> QED
  BY <1>3, <1>4 DEF Refresh
(* A button is clicked. *)
LEMMA Clicks ==
  ASSUME IInv, NEW kind \in {"start", "stop", "delete"}, NEW i \in Instance, Click(kind, i)
  PROVE  IInv'
<1> USE DEF IInv
<1> DEFINE new == NewAction(kind, i)
<1>1. /\ TableShown /\ ButtonsEnabled /\ Offered(kind, i)
      /\ actions' = actions \cup {new} /\ globalLoading' = TRUE
      /\ UNCHANGED <<status, professor, page, loading, fetches, list, shown, foreign>>
  BY DEF Click, Send
<1>2. new \in Action /\ new.kind = kind /\ new.id = i /\ new.state = "sent" /\ new.mounted
  BY NewActionTyped
<1> HIDE DEF new
<1>3. TypeOK'
  BY <1>1, <1>2 DEF TypeOK
<1>4. ActionsFit'
  BY <1>1, <1>2, NoneAssumption DEF ActionsFit, ActionFits
<1>5. Running = {}
  BY <1>1 DEF ButtonsEnabled, ActionsExclusive
<1>6. ActionsExclusive'
  BY <1>1, <1>2, <1>5 DEF ActionsExclusive, Running
<1>7. CopyTrue'
  BY <1>1 DEF CopyTrue, HasCopy, Running
<1>8. SpinnerFits'
  BY <1>1 DEF SpinnerFits, TableShown
<1>9. ~(page = "detail" /\ shown = Empty)
  BY <1>1, EmptyTyped DEF Offered, InDetails, ByStatus
<1>10. EmptyDetail'
  BY <1>1, <1>9 DEF EmptyDetail
<1> QED
  BY <1>3, <1>4, <1>6, <1>7, <1>8, <1>10

LEMMA Requests == IInv /\ RequestLab => IInv'
<1> SUFFICES ASSUME IInv, RequestLab PROVE IInv'
  OBVIOUS
<1> USE DEF IInv
<1> DEFINE new == NewAction("create", None)
<1>1. /\ page = "detail" /\ ~loading /\ actions' = actions \cup {new}
      /\ UNCHANGED <<status, professor, page, loading, fetches, list, shown, globalLoading, foreign>>
  BY DEF RequestLab, Send
<1>2. new \in Action /\ new.kind = "create" /\ new.id = None
  BY NewActionTyped
<1> HIDE DEF new
<1>3. TypeOK'
  BY <1>1, <1>2 DEF TypeOK
<1>4. Running' = Running
  BY <1>1, <1>2 DEF Running
<1>5. ActionsFit' /\ ActionsExclusive'
  BY <1>1, <1>2, <1>4 DEF ActionsFit, ActionFits, ActionsExclusive
<1>6. CopyTrue' /\ SpinnerFits' /\ EmptyDetail'
  BY <1>1, <1>4 DEF CopyTrue, HasCopy, SpinnerFits, EmptyDetail
<1> QED
  BY <1>3, <1>5, <1>6

(***************************************************************************)
(* 4. The lists, and what changes elsewhere.                               *)
(***************************************************************************)

LEMMA Lists ==
  ASSUME IInv, NEW f \in fetches, Read(f) \/ ShowList(f) \/ LoseList(f) \/ ReadNull(f)
  PROVE  IInv'
<1> USE DEF IInv
<1>0. f \in Fetch /\ f.list \in List
  BY DEF TypeOK, Fetch
<1>1. UNCHANGED <<status, professor, page, globalLoading, actions>>
  BY DEF Read, ShowList, LoseList, ReadNull, KeepList
<1>2. ActionsFit' /\ ActionsExclusive' /\ Running' = Running
  BY <1>1 DEF ActionsFit, ActionFits, ActionsExclusive, Running
<1>3. CASE Read(f)
  <2>3. PICK g \in Fetch : fetches' = (fetches \ {f}) \cup {g}
    BY <1>0, <1>3, FetchRead DEF Read, TypeOK
  <2>4. UNCHANGED <<loading, list, shown, foreign>>
    BY <1>3 DEF Read
  <2>5. TypeOK'
    BY <1>1, <2>3, <2>4 DEF TypeOK
  <2>6. CopyTrue' /\ SpinnerFits' /\ EmptyDetail'
    BY <1>1, <1>2, <2>3, <2>4 DEF CopyTrue, HasCopy, SpinnerFits, EmptyDetail
  <2> QED
    BY <1>2, <2>5, <2>6
<1>4. CASE ShowList(f) \/ LoseList(f) \/ ReadNull(f)
  <2>1. fetches' = fetches \ {f} /\ loading' = FALSE
    BY <1>4 DEF ShowList, LoseList, ReadNull, KeepList
  <2>2. page \in {"mylabs", "detail"} => loading /\ \A a \in actions : ~a.mounted
    BY DEF SpinnerFits
  <2>3. SpinnerFits'
    BY <1>1, <2>1 DEF SpinnerFits
  <2>4. \/ UNCHANGED <<shown, foreign, list>> /\ page = "manager"
        \/ \E l \in List : /\ shown' = l /\ foreign' = Stale(l)
                           /\ list' \in {l, Empty} /\ (page = "detail" => list' = l)
    <3>1. CASE ShowList(f)
      BY <1>0, <3>1 DEF ShowList, Synchronized
    <3>2. CASE KeepList(f)
      BY <3>2 DEF KeepList, TypeOK
    <3>3. CASE LoseList(f)
      BY <3>2, <3>3, EmptyTyped DEF LoseList
    <3>4. CASE ReadNull(f)
      BY <3>2, <3>4 DEF ReadNull
    <3> QED
      BY <1>4, <3>1, <3>3, <3>4
  <2>5. CASE UNCHANGED <<shown, foreign, list>> /\ page = "manager"
    <3>1. TypeOK'
      BY <1>1, <2>1, <2>5 DEF TypeOK
    <3>2. CopyTrue' /\ EmptyDetail'
      BY <1>1, <1>2, <2>5 DEF CopyTrue, HasCopy, EmptyDetail
    <3> QED
      BY <1>2, <2>3, <3>1, <3>2
  <2>6. CASE \E l \in List : /\ shown' = l /\ foreign' = Stale(l)
                             /\ list' \in {l, Empty} /\ (page = "detail" => list' = l)
    <3>1. TypeOK'
      BY <1>1, <2>1, <2>6, EmptyTyped DEF TypeOK, Stale
    <3>2. CopyTrue'
      BY <1>1, <2>6 DEF CopyTrue, Stale
    <3>3. EmptyDetail'
      BY <1>1, <1>2, <2>2, <2>6 DEF EmptyDetail, Running
    <3> QED
      BY <1>2, <2>3, <3>1, <3>2, <3>3
  <2> QED
    BY <2>4, <2>5, <2>6
<1> QED
  BY <1>3, <1>4
(* The actions in flight go on, being answered or overtaken. *)
LEMMA ActionsStep ==
  ASSUME IInv, UNCHANGED <<professor, page, loading, fetches, list, shown, globalLoading>>,
         status' \in List, foreign' \subseteq Instance, actions' \subseteq Action,
         \A b \in actions' :
             /\ \E a \in actions : b.kind = a.kind /\ b.id = a.id /\ (b.mounted <=> a.mounted)
             /\ b.kind # "create" /\ b.state = "ok" => status'[b.id] = After(b.kind),
         Disabling(actions') <=> Disabling(actions), Single(actions'),
         CopyTrue'
  PROVE  IInv'
<1> USE DEF IInv
<1>1. TypeOK'
  BY DEF TypeOK
<1>2. ActionsFit'
  BY DEF ActionsFit, ActionFits
<1>3. ActionsExclusive'
  BY Exclusive DEF ActionsExclusive, Running, Disabling, Single
<1>4. SpinnerFits' /\ EmptyDetail'
  BY DEF SpinnerFits, EmptyDetail, Running
<1> QED
  BY <1>1, <1>2, <1>3, <1>4

(* An instance changes: its row is excused, or right, or its action is about *)
(* to say so.                                                               *)
LEMMA CopyStaysTrue ==
  ASSUME IInv, UNCHANGED <<page, loading, shown>>, NEW i \in Instance, NEW s \in Status,
         status' = [status EXCEPT ![i] = s], foreign \ {i} \subseteq foreign',
         HasCopy /\ i \notin foreign' =>
             shown[i] = s \/ \E b \in actions' : b.kind # "create" /\ b.mounted /\ b.id = i,
         \A a \in actions : \E b \in actions' :
             b.kind = a.kind /\ b.id = a.id /\ (b.mounted <=> a.mounted)
  PROVE  CopyTrue' /\ status' \in List
<1> USE DEF IInv
<1>1. status' \in List /\ \A j \in Instance : status'[j] = IF j = i THEN s ELSE status[j]
  BY DEF TypeOK, List
<1>2. ASSUME HasCopy, NEW j \in Instance \ foreign'
      PROVE  shown[j] = status'[j] \/ \E b \in Running' : b.mounted /\ b.id = j
  <2>1. CASE j = i
    BY <1>1, <1>2, <2>1 DEF Running
  <2>2. CASE j # i
    <3>1. shown[j] = status[j] \/ \E a \in Running : a.mounted /\ a.id = j
      BY <1>2, <2>2 DEF CopyTrue
    <3> QED
      BY <1>1, <2>2, <3>1 DEF Running
  <2> QED
    BY <2>1, <2>2
<1> QED
  BY <1>1, <1>2 DEF CopyTrue, HasCopy

LEMMA OtherActors ==
  ASSUME IInv, NEW i \in Instance, NEW kind \in {"start", "stop", "delete", "create"},
         OtherActor(kind, i)
  PROVE  IInv'
<1> USE DEF IInv
<1>1. /\ status' = [status EXCEPT ![i] = After(kind)]
      /\ foreign' = IF HasCopy /\ shown[i] # After(kind) THEN foreign \cup {i} ELSE foreign \ {i}
      /\ actions' = Overtake(actions, i)
      /\ UNCHANGED <<professor, page, loading, fetches, list, shown, globalLoading>>
  BY DEF OtherActor, Becomes
<1>2. actions \in SUBSET Action
  BY DEF TypeOK
<1>3. /\ actions' \subseteq Action
      /\ \A b \in actions' :
            \/ b \in actions /\ ~(b.id = i /\ b.state = "ok")
            \/ /\ b.state = "overtaken" /\ b.id = i
               /\ \E a \in actions : b.kind = a.kind /\ b.id = a.id /\ (b.mounted <=> a.mounted)
      /\ \A a \in actions : \E b \in actions' :
            b.kind = a.kind /\ b.id = a.id /\ (b.mounted <=> a.mounted)
      /\ (Disabling(actions') <=> Disabling(actions)) /\ Single(actions')
  BY <1>1, <1>2, OvertakenActions, Exclusive
<1>4. CopyTrue' /\ status' \in List
  BY <1>1, <1>3, AfterTyped, CopyStaysTrue
<1>5. \A j \in Instance : j # i => status'[j] = status[j]
  BY <1>1 DEF TypeOK, List
<1>6. ASSUME NEW b \in actions'
      PROVE  /\ \E a \in actions : b.kind = a.kind /\ b.id = a.id /\ (b.mounted <=> a.mounted)
             /\ b.kind # "create" /\ b.state = "ok" => status'[b.id] = After(b.kind)
  <2>1. b.kind # "create" => b.id \in Instance
    BY <1>2, <1>3 DEF ActionsFit, ActionFits, Action
  <2> QED
    BY <1>3, <1>5, <2>1 DEF ActionsFit, ActionFits
<1>7. foreign' \subseteq Instance
  BY <1>1 DEF TypeOK
<1> QED
  BY <1>1, <1>3, <1>4, <1>6, <1>7, ActionsStep

(* The call of a has been answered; the rest of the actions are as before, or *)
(* overtaken.                                                                *)
LEMMA OneAnswered ==
  ASSUME IInv, NEW a \in actions, NEW rest \in SUBSET Action, NEW e \in Action,
         e.kind = a.kind, e.id = a.id, e.mounted <=> a.mounted,
         Disabling(rest) <=> Disabling(actions \ {a}), Single(rest)
  PROVE  /\ Disabling(rest \cup {e}) <=> Disabling(actions)
         /\ Single(rest \cup {e})
<1>1. Single(actions)
  BY Exclusive DEF IInv
<1>2. CASE a.kind = "create"
  BY <1>2 DEF Disabling, Single
<1>3. CASE a.kind # "create"
  <2>1. ~Disabling(actions \ {a})
    BY <1>1, <1>3 DEF Disabling, Single
  <2> QED
    BY <1>3, <2>1 DEF Disabling, Single
<1> QED
  BY <1>2, <1>3

(* What is asked is done, its answer arriving or not. *)
LEMMA Successes ==
  ASSUME IInv, NEW a \in actions, NEW i \in Instance, NEW e \in Action,
         e.kind = a.kind, e.id = a.id, e.mounted <=> a.mounted,
         UNCHANGED <<professor, page, loading, fetches, list, shown, globalLoading>>,
         a.id \in {i, None},
         status' = [status EXCEPT ![i] = After(a.kind)],
         foreign' = IF HasCopy /\ ~(e.state = "ok" /\ a.mounted /\ a.kind # "create")
                       /\ shown[i] # After(a.kind)
                    THEN foreign \cup {i} ELSE foreign \ {i},
         actions' = Overtake(actions \ {a}, i) \cup {e}
  PROVE  IInv'
<1> USE DEF IInv
<1>1. a \in Action /\ ActionFits(a)
  BY DEF TypeOK, ActionsFit
<1>2. (actions \ {a}) \in SUBSET Action
  BY DEF TypeOK
<1>3. Single(actions \ {a})
  BY Exclusive DEF Single
<1> DEFINE rest == Overtake(actions \ {a}, i)
<1>4. /\ rest \subseteq Action
      /\ \A b \in rest :
            \/ b \in actions \ {a} /\ ~(b.id = i /\ b.state = "ok")
            \/ /\ b.state = "overtaken" /\ b.id = i
               /\ \E c \in actions \ {a} : b.kind = c.kind /\ b.id = c.id /\ (b.mounted <=> c.mounted)
      /\ \A c \in actions \ {a} : \E b \in rest :
            b.kind = c.kind /\ b.id = c.id /\ (b.mounted <=> c.mounted)
      /\ (Disabling(rest) <=> Disabling(actions \ {a})) /\ Single(rest)
  <2> DEFINE others == actions \ {a}
  <2>1. others \in SUBSET Action /\ Single(others)
    BY <1>2, <1>3
  <2> HIDE DEF others
  <2>2. /\ Overtake(others, i) \subseteq Action
        /\ \A b \in Overtake(others, i) :
              \/ b \in others /\ ~(b.id = i /\ b.state = "ok")
              \/ /\ b.state = "overtaken" /\ b.id = i
                 /\ \E c \in others : b.kind = c.kind /\ b.id = c.id /\ (b.mounted <=> c.mounted)
        /\ \A c \in others : \E b \in Overtake(others, i) :
              b.kind = c.kind /\ b.id = c.id /\ (b.mounted <=> c.mounted)
        /\ (Disabling(Overtake(others, i)) <=> Disabling(others)) /\ Single(Overtake(others, i))
    BY <2>1, OvertakenActions
  <2> QED
    BY <2>2 DEF others
<1>5. actions' = rest \cup {e}
  OBVIOUS
<1> HIDE DEF rest
<1>6. (Disabling(actions') <=> Disabling(actions)) /\ Single(actions')
  <2>1. rest \in SUBSET Action
    BY <1>4
  <2> QED
    BY <1>4, <1>5, <2>1, OneAnswered
<1>7. After(a.kind) \in Status
  BY <1>1, AfterTyped DEF Action
<1>8. a.kind # "create" => a.id = i
  BY <1>1 DEF ActionFits
<1>9. \A c \in actions : \E b \in actions' :
          b.kind = c.kind /\ b.id = c.id /\ (b.mounted <=> c.mounted)
  BY <1>4, <1>5
<1>10. HasCopy /\ i \notin foreign' =>
          shown[i] = After(a.kind)
          \/ \E b \in actions' : b.kind # "create" /\ b.mounted /\ b.id = i
  BY <1>5, <1>8
<1>11. foreign \ {i} \subseteq foreign' /\ foreign' \subseteq Instance
  BY DEF TypeOK
<1>12. CopyTrue' /\ status' \in List
  BY <1>1, <1>7, <1>9, <1>10, <1>11, CopyStaysTrue
<1>13. \A j \in Instance : status'[j] = IF j = i THEN After(a.kind) ELSE status[j]
  BY DEF TypeOK, List
<1>14. ASSUME NEW b \in actions'
       PROVE  /\ \E c \in actions : b.kind = c.kind /\ b.id = c.id /\ (b.mounted <=> c.mounted)
              /\ b.kind # "create" /\ b.state = "ok" => status'[b.id] = After(b.kind)
  <2>1. CASE b = e
    BY <1>8, <1>13, <2>1
  <2>2. CASE b \in rest
    <3>1. b.kind # "create" => b.id \in Instance
      BY <1>4, <2>2 DEF ActionsFit, ActionFits, TypeOK, Action
    <3> QED
      BY <1>4, <1>13, <2>2, <3>1 DEF ActionsFit, ActionFits
  <2> QED
    BY <1>5, <2>1, <2>2
<1>15. actions' \subseteq Action
  BY <1>4, <1>5
<1> QED
  BY <1>1, <1>6, <1>11, <1>12, <1>14, <1>15, ActionsStep

LEMMA Performances ==
  ASSUME IInv, NEW a \in actions, Perform(a)
  PROVE  IInv'
<1> USE DEF IInv
<1>1. /\ a \in Action /\ ActionFits(a)
      /\ UNCHANGED <<professor, page, loading, fetches, list, shown, globalLoading>>
  BY DEF Perform, TypeOK, ActionsFit
<1>2. (actions \ {a}) \in SUBSET Action
  BY DEF TypeOK
<1>3. Single(actions \ {a})
  BY Exclusive DEF Single
<1>4. CASE \E i \in Instance, state \in {"ok", "failed"} :
              /\ a.id \in {i, None}
              /\ Legal(a.kind, status[i])
              /\ Becomes(i, After(a.kind), state = "ok" /\ a.mounted /\ a.kind # "create")
              /\ actions' = Overtake(actions \ {a}, i) \cup Answered(a, state)
  <2>1. PICK i \in Instance, state \in {"ok", "failed"} :
              /\ a.id \in {i, None}
              /\ status' = [status EXCEPT ![i] = After(a.kind)]
              /\ foreign' = IF HasCopy /\ ~(state = "ok" /\ a.mounted /\ a.kind # "create")
                               /\ shown[i] # After(a.kind)
                            THEN foreign \cup {i} ELSE foreign \ {i}
              /\ actions' = Overtake(actions \ {a}, i) \cup Answered(a, state)
    BY <1>4 DEF Becomes
  <2>2. CASE state = "ok"
    <3>1. PICK e \in Action : /\ Answered(a, "ok") = {e} /\ e.state = "ok"
                              /\ e.kind = a.kind /\ e.id = a.id /\ (e.mounted <=> a.mounted)
      BY <1>1, AnsweredAction
    <3> QED
      BY <1>1, <2>1, <2>2, <3>1, Successes
  <2>3. CASE state = "failed"
    <3>1. PICK e \in Action : /\ Answered(a, "failed") = {e} /\ e.state = "failed"
                              /\ e.kind = a.kind /\ e.id = a.id /\ (e.mounted <=> a.mounted)
      BY <1>1, AnsweredAction
    <3> QED
      BY <1>1, <2>1, <2>3, <3>1, Successes
  <2> QED
    BY <2>1, <2>2, <2>3
<1>5. CASE \E state \in {"failed", "void"} :
              /\ actions' = (actions \ {a}) \cup Answered(a, state)
              /\ UNCHANGED <<status, foreign>>
  <2>0. PICK state \in {"failed", "void"} :
              /\ actions' = (actions \ {a}) \cup Answered(a, state)
              /\ UNCHANGED <<status, foreign>>
    BY <1>5
  <2>1. PICK e \in Action : /\ Answered(a, state) = {e} /\ e.state = state
                            /\ e.kind = a.kind /\ e.id = a.id /\ (e.mounted <=> a.mounted)
    <3>1. state = "failed" \/ state = "void"
      OBVIOUS
    <3>2. CASE state = "failed"
      BY <1>1, <3>2, AnsweredAction
    <3>3. CASE state = "void"
      BY <1>1, <3>3, AnsweredAction
    <3> QED
      BY <3>1, <3>2, <3>3
  <2>2. actions' = (actions \ {a}) \cup {e} /\ UNCHANGED <<status, foreign>>
    BY <2>0, <2>1
  <2>3. (Disabling(actions') <=> Disabling(actions)) /\ Single(actions')
    BY <1>2, <1>3, <2>1, <2>2, OneAnswered
  <2>4. \A b \in actions' :
            /\ \E c \in actions : b.kind = c.kind /\ b.id = c.id /\ (b.mounted <=> c.mounted)
            /\ b.kind # "create" /\ b.state = "ok" => status'[b.id] = After(b.kind)
    BY <2>0, <2>1, <2>2 DEF ActionsFit, ActionFits
  <2>5. CopyTrue'
    BY <1>1, <2>1, <2>2 DEF CopyTrue, HasCopy, Running
  <2>6. actions' \subseteq Action /\ status' \in List /\ foreign' \subseteq Instance
    BY <1>2, <2>2 DEF TypeOK
  <2> QED
    BY <1>1, <2>3, <2>4, <2>5, <2>6, ActionsStep
<1> QED
  BY <1>4, <1>5 DEF Perform

(***************************************************************************)
(* 5. Answers to the page.                                                 *)
(***************************************************************************)

LEMMA Endings ==
  ASSUME IInv, NEW a \in actions, Finish(a)
  PROVE  IInv'
<1> USE DEF IInv
<1>1. /\ a.kind # "create" /\ a.state # "sent"
      /\ actions' = actions \ {a} /\ globalLoading' = FALSE
      /\ shown' = IF a.mounted THEN [shown EXCEPT ![a.id] = After(a.kind)] ELSE shown
      /\ foreign' = IF a.mounted /\ a.state # "ok" THEN foreign \cup {a.id} ELSE foreign
      /\ UNCHANGED <<status, professor, page, loading, fetches, list>>
  BY DEF Finish, Patched
<1>2. a \in Action /\ a.id \in Instance /\ After(a.kind) \in Status
  BY <1>1, AfterTyped DEF TypeOK, Action, ActionsFit, ActionFits
<1>3. shown' \in List /\ \A i \in Instance : i # a.id => shown'[i] = shown[i]
  BY <1>1, <1>2 DEF TypeOK, List
<1>4. TypeOK'
  BY <1>1, <1>2, <1>3 DEF TypeOK
<1>5. ActionsFit'
  BY <1>1 DEF ActionsFit, ActionFits
<1>6. Running' = {} /\ Running = {a}
  BY <1>1 DEF Running, ActionsExclusive
<1>7. ActionsExclusive'
  BY <1>1, <1>6 DEF ActionsExclusive
<1>8. CopyTrue'
  <2> SUFFICES ASSUME HasCopy, NEW i \in Instance \ foreign' PROVE shown'[i] = status[i]
    BY <1>1 DEF CopyTrue, HasCopy
  <2>1. i \notin foreign
    BY <1>1
  <2>2. shown[i] = status[i] \/ (a.mounted /\ a.id = i)
    BY <1>6, <2>1 DEF CopyTrue
  <2>3. CASE a.mounted /\ a.id = i
    <3>1. a.state = "ok" /\ status[i] = After(a.kind)
      BY <1>1, <2>3 DEF ActionsFit, ActionFits
    <3> QED
      BY <1>1, <2>3, <3>1 DEF TypeOK, List
  <2>4. CASE ~(a.mounted /\ a.id = i)
    BY <1>1, <1>3, <2>2, <2>4
  <2> QED
    BY <2>3, <2>4
<1>9. SpinnerFits'
  BY <1>1 DEF SpinnerFits
<1>10. EmptyDetail'
  BY <1>1, <1>6 DEF EmptyDetail
<1> QED
  BY <1>4, <1>5, <1>7, <1>8, <1>9, <1>10

LEMMA CreationEndings ==
  ASSUME IInv, NEW a \in actions, FinishCreate(a)
  PROVE  IInv'
<1> USE DEF IInv
<1>1. CASE Reload
  BY <1>1, Reloads
<1>2. CASE /\ actions' = actions \ {a}
           /\ UNCHANGED <<status, professor, page, loading, fetches, list, shown,
                          globalLoading, foreign>>
  <2>1. Running' = Running
    BY <1>2 DEF FinishCreate, Running
  <2>2. TypeOK' /\ ActionsFit' /\ ActionsExclusive'
    BY <1>2, <2>1 DEF TypeOK, ActionsFit, ActionFits, ActionsExclusive
  <2>3. CopyTrue' /\ SpinnerFits' /\ EmptyDetail'
    BY <1>2, <2>1 DEF CopyTrue, HasCopy, SpinnerFits, EmptyDetail
  <2> QED
    BY <2>2, <2>3
<1> QED
  BY <1>1, <1>2 DEF FinishCreate

(***************************************************************************)
(* 6. The theorems.                                                        *)
(***************************************************************************)

LEMMA Initially == Init => IInv
<1> SUFFICES ASSUME Init PROVE IInv
  OBVIOUS
<1>1. TypeOK
  BY EmptyTyped DEF Init, TypeOK, List, Status, Page
<1>2. ActionsFit /\ ActionsExclusive /\ CopyTrue /\ SpinnerFits /\ EmptyDetail
  BY DEF Init, ActionsFit, ActionsExclusive, Running, CopyTrue, HasCopy, SpinnerFits, EmptyDetail
<1> QED
  BY <1>1, <1>2 DEF IInv

LEMMA Stuttering == IInv /\ UNCHANGED vars => IInv'
<1> SUFFICES ASSUME IInv, UNCHANGED vars PROVE IInv'
  OBVIOUS
<1> USE DEF IInv, vars
<1>1. TypeOK' /\ ActionsFit' /\ ActionsExclusive'
  BY DEF TypeOK, ActionsFit, ActionFits, ActionsExclusive, Running
<1>2. CopyTrue' /\ SpinnerFits' /\ EmptyDetail'
  BY DEF CopyTrue, HasCopy, Running, SpinnerFits, EmptyDetail
<1> QED
  BY <1>1, <1>2

LEMMA Invariance == IInv /\ [Next]_vars => IInv'
<1> SUFFICES ASSUME IInv, [Next]_vars PROVE IInv'
  OBVIOUS
<1>1. CASE \E p \in Page : Navigate(p)
  BY <1>1, Navigations
<1>2. CASE Reload \/ Refresh \/ RequestLab
  BY <1>2, Reloads, Refreshes, Requests
<1>3. CASE \E i \in Instance : Start(i) \/ Stop(i) \/ Delete(i)
  BY <1>3, Clicks DEF Start, Stop, Delete
<1>4. CASE \E f \in fetches : Read(f) \/ ShowList(f) \/ LoseList(f) \/ ReadNull(f)
  BY <1>4, Lists
<1>5. CASE \E a \in actions : Perform(a) \/ Finish(a) \/ FinishCreate(a)
  BY <1>5, Performances, Endings, CreationEndings
<1>6. CASE Others
  BY <1>6, OtherActors DEF Others
<1>7. CASE UNCHANGED vars
  BY <1>7, Stuttering
<1> QED
  BY <1>1, <1>2, <1>3, <1>4, <1>5, <1>6, <1>7 DEF Next, User, Answer

LEMMA AlwaysIInv == Spec => []IInv
<1>1. Init => IInv
  BY Initially
<1>2. IInv /\ [Next]_vars => IInv'
  BY Invariance
<1> QED
  BY <1>1, <1>2, PTL DEF Spec

(* The variables keep their types, whatever page is open. *)
THEOREM TypeCorrect == Spec => []TypeOK
<1>1. IInv => TypeOK
  BY DEF IInv
<1> QED
  BY <1>1, AlwaysIInv, PTL

(* LoadingContext lets one action run at a time, from whichever page, and its  *)
(* buttons come back with the end of that action and not before.              *)
THEOREM OneActionAtATime == Spec => []ActionsExclusive
<1>1. IInv => ActionsExclusive
  BY DEF IInv
<1> QED
  BY <1>1, AlwaysIInv, PTL

(* The rows that the pages patch themselves agree with the backend. *)
THEOREM RowsTrue == Spec => []DisplayTrue
<1>1. IInv => DisplayTrue
  BY DEF IInv, DisplayTrue, TableShown, CopyTrue, HasCopy
<1> QED
  BY <1>1, AlwaysIInv, PTL
(* Only a click, of a button or of RequestLabButton, sends an action. *)
LEMMA OnlyClicksSend ==
  ASSUME IInv, [Next]_vars, NEW x \in Sent
  PROVE  \/ \E i \in Instance : Click("start", i) /\ x = NewAction("start", i)
         \/ RequestLab /\ x = NewAction("create", None)
         \/ x.kind \in {"stop", "delete"}
<1> USE DEF IInv
<1>1. x \in actions' /\ x \notin actions /\ x.state = "sent" /\ x.mounted
  BY DEF Sent
<1>2. actions \in SUBSET Action
  BY DEF TypeOK
<1>3. \A b \in Unmounted(actions) : ~b.mounted
  BY <1>2, UnmountedActions
<1>4. \A i \in Instance : \A b \in Overtake(actions, i) : b \in actions \/ b.state = "overtaken"
  BY <1>2, OvertakenActions
<1>5. CASE (\E p \in Page : Navigate(p)) \/ Reload \/ Refresh
  BY <1>1, <1>3, <1>5 DEF Navigate, Reload, Refresh
<1>6. CASE RequestLab
  BY <1>1, <1>6 DEF RequestLab, Send
<1>7. CASE \E i \in Instance : Start(i) \/ Stop(i) \/ Delete(i)
  <2>1. PICK i \in Instance, kind \in {"start", "stop", "delete"} : Click(kind, i)
    BY <1>7 DEF Start, Stop, Delete
  <2>2. x = NewAction(kind, i)
    BY <1>1, <2>1 DEF Click, Send
  <2>3. x.kind = kind
    BY <2>2, NewActionTyped
  <2> QED
    BY <2>1, <2>2, <2>3
<1>8. CASE \E f \in fetches : Read(f) \/ ShowList(f) \/ LoseList(f) \/ ReadNull(f)
  BY <1>1, <1>8 DEF Read, ShowList, LoseList, ReadNull, KeepList
<1>9. CASE \E a \in actions : Perform(a)
  <2>1. PICK a \in actions : Perform(a)
    BY <1>9
  <2>2. a \in Action
    BY <1>2
  <2>3. ASSUME NEW state \in {"ok", "failed", "void"}
        PROVE  \A b \in Answered(a, state) : b.state # "sent"
    BY <2>2, <2>3 DEF Answered, Action
  <2> DEFINE others == actions \ {a}
  <2>4. others \in SUBSET Action /\ others \subseteq actions
    BY <1>2
  <2> HIDE DEF others
  <2>5. \A i \in Instance : \A b \in Overtake(others, i) : b \in actions \/ b.state = "overtaken"
    <3> SUFFICES ASSUME NEW i \in Instance, NEW b \in Overtake(others, i)
                 PROVE  b \in others \/ b.state = "overtaken"
      BY <2>4
    <3>1. others \in SUBSET Action
      BY <2>4
    <3>2. \A c \in Overtake(others, i) :
              \/ c \in others /\ ~(c.id = i /\ c.state = "ok")
              \/ /\ c.state = "overtaken" /\ c.id = i
                 /\ \E d \in others : c.kind = d.kind /\ c.id = d.id /\ (c.mounted <=> d.mounted)
      BY <3>1, OvertakenActions
    <3> QED
      BY <3>2
  <2>6. \A b \in actions' : b \in actions \/ b.state # "sent"
    <3>1. CASE \E i \in Instance, state \in {"ok", "failed"} :
                  actions' = Overtake(others, i) \cup Answered(a, state)
      BY <2>3, <2>5, <3>1
    <3>2. CASE \E state \in {"failed", "void"} : actions' = others \cup Answered(a, state)
      BY <2>3, <2>4, <3>2
    <3> QED
      BY <2>1, <3>1, <3>2 DEF Perform, others
  <2> QED
    BY <1>1, <2>6
<1>10. CASE \E a \in actions : Finish(a) \/ FinishCreate(a)
  BY <1>1, <1>10 DEF Finish, FinishCreate, Reload
<1>11. CASE Others
  BY <1>1, <1>4, <1>11 DEF Others, OtherActor
<1>12. CASE UNCHANGED vars
  BY <1>1, <1>12 DEF vars
<1> QED
  BY <1>5, <1>6, <1>7, <1>8, <1>9, <1>10, <1>11, <1>12 DEF Next, User, Answer

(* VMsTable's canStart is right as long as its rows are. *)
THEOREM StartsRightly == Spec => StartsWhenNoneRuns
<1>1. ASSUME IInv, [Next]_vars
      PROVE  \A a \in Sent :
                a.kind = "start" /\ page = "mylabs" /\ ~professor /\ foreign = {}
                    => \A i \in Instance : status[i] # "running"
  <2> SUFFICES ASSUME NEW a \in Sent, a.kind = "start", page = "mylabs", ~professor, foreign = {},
                      NEW i \in Instance
               PROVE  status[i] # "running"
    OBVIOUS
  <2>1. NewAction("create", None).kind = "create"
    BY NewActionTyped
  <2>2. PICK j \in Instance : Click("start", j)
    BY <1>1, <2>1, OnlyClicksSend
  <2>3. TableShown /\ ButtonsEnabled /\ CanStart
    BY <2>2 DEF Click, Offered, InTable, ByStatus
  <2>4. shown[i] # "running"
    BY <2>3 DEF CanStart
  <2>5. Running = {}
    BY <1>1, <2>3 DEF IInv, ActionsExclusive, ButtonsEnabled
  <2>6. HasCopy
    BY <2>3 DEF TableShown, HasCopy
  <2> QED
    BY <1>1, <2>4, <2>5, <2>6 DEF IInv, CopyTrue
<1> QED
  BY <1>1, AlwaysIInv, PTL DEF Spec, StartsWhenNoneRuns

(* SubjectDetail offers RequestLabButton to those who have no instance there. *)
THEOREM LabsAskedRightly == Spec => OneLabAsked
<1>1. ASSUME IInv, [Next]_vars
      PROVE  \A a \in Sent :
                a.kind = "create" /\ ~professor /\ foreign = {} => status = Empty
  <2> SUFFICES ASSUME NEW a \in Sent, a.kind = "create", ~professor, foreign = {}
               PROVE  status = Empty
    OBVIOUS
  <2>1. \A i \in Instance : NewAction("start", i).kind = "start"
    BY NewActionTyped
  <2>2. RequestLab
    BY <1>1, <2>1, OnlyClicksSend
  <2>3. page = "detail" /\ ~loading /\ list = Empty
    BY <2>2 DEF RequestLab, RequestOffered
  <2>4. shown = Empty /\ \A b \in Running : ~b.mounted
    BY <1>1, <2>3 DEF IInv, EmptyDetail
  <2>5. \A i \in Instance : shown[i] = status[i]
    BY <1>1, <2>3, <2>4 DEF IInv, CopyTrue, HasCopy
  <2> QED
    BY <1>1, <2>4, <2>5 DEF IInv, TypeOK, List, Empty
<1> QED
  BY <1>1, AlwaysIInv, PTL DEF Spec, OneLabAsked
=============================================================================
