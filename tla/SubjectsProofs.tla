---------------------------- MODULE SubjectsProofs ----------------------------
(***************************************************************************)
(* Theorems about Subjects for any users and templates, any number of      *)
(* calls in flight, in whatever order they are answered or lost.           *)
(***************************************************************************)
EXTENDS Subjects, TLAPS

(***************************************************************************)
(* 1. The inductive invariant, part by part.                               *)
(***************************************************************************)

(* A deletion in progress is of a subject that has been made; one that      *)
(* succeeded, of a subject that is gone.                                    *)
DropKnows(c) == c.kind = "drop" =>
    /\ c.state \in {"unused", "untemplated", "emptied"} => row # "none"
    /\ c.state = "done" => row = "gone"

(* Whoever has an instance while his removal is on its way got it after it  *)
(* was decided.                                                             *)
RemovalKnows(c) ==
    /\ c.kind = "remove" /\ c.state = "sent" /\ c.about \in Owners => c.about \in unseen
    /\ c.kind = "drop" /\ c.state \in {"unused", "untemplated"} => Owners \subseteq unseen

(* The sheet's calls are those of the chain's step; an enrolment that       *)
(* succeeded is there, or somebody removed the user since.                  *)
SheetCallFits(c) == c.by = "sheet" =>
    \/ c.kind = "post" /\ chain.step = "subject"
    \/ /\ c.kind = "enrol" /\ chain.step \in {"professors", "students"}
       /\ chain.step = "students" => c.about \notin Professor
       /\ c.state = "done" => c.about \in enrolled \cup removed
    \/ c.kind \in {"instance", "define"} /\ chain.step = "last"

(* The panel's calls are those whose spinners it knows; each call is about  *)
(* a user or a template, as its kind needs.                                 *)
WellMade(c) ==
    /\ c.by = "panel" => c.kind \in {"enrol", "remove", "define", "erase", "erased"}
    /\ c.kind \in {"enrol", "remove", "instance"} => c.about \in Mail
    /\ c.kind \in {"define", "capture"} => c.about \in Template

CallFits(c) == DropKnows(c) /\ RemovalKnows(c) /\ SheetCallFits(c) /\ WellMade(c)

CallsFit == \A c \in calls : CallFits(c)

(* Of the first and the last step there is one call.                        *)
OneCall == chain.step \in {"subject", "last"} =>
    \A c, d \in calls : c.by = "sheet" /\ d.by = "sheet" => c = d

(* The chain runs while the sheet waits, and lists nobody until its subject *)
(* is made.                                                                 *)
ChainFits ==
    /\ sheet # "waiting" => chain.step = "idle"
    /\ chain.step \in {"idle", "subject"} => chain.listed = {}

(* Who was listed is accounted for, or his enrolment is not over.           *)
Accounted(m) ==
    \/ m \in enrolled \cup chain.refused \cup removed
    \/ \E c \in calls : c.by = "sheet" /\ c.kind = "enrol" /\ c.about = m

(* The panel shows the owners of the instances that are not newer than its  *)
(* list.                                                                    *)
PanelKnows == view = "panel" => Owners \ {Manager} \subseteq vms \cup unseen

IInv ==
    /\ TypeOK /\ CallsFit /\ OneCall /\ ChainFits
    /\ \A m \in chain.listed : Accounted(m)
    /\ NoOrphans /\ PanelKnows /\ JumpsFromDeleted

(***************************************************************************)
(* 2. What the parts of a step do.                                         *)
(***************************************************************************)

LEMMA IdleFits == Idle \in Chain /\ Idle.step = "idle" /\ Idle.listed = {} /\ Idle.refused = {}
BY DEF Idle, Chain

LEMMA NewCallTyped ==
  ASSUME NEW by \in {"sheet", "panel", "page"},
         NEW kind \in {"post", "enrol", "instance", "remove", "define", "erase", "capture", "drop"},
         NEW about \in Mail \cup Template \cup {None}
  PROVE  /\ NewCall(by, kind, about) \in Call
         /\ NewCall(by, kind, about).by = by /\ NewCall(by, kind, about).kind = kind
         /\ NewCall(by, kind, about).about = about /\ NewCall(by, kind, about).state = "sent"
BY DEF NewCall, Call

(* The same call, which somebody else awaits or nobody. *)
Same(d, c) ==
    /\ d.kind = c.kind /\ d.about = c.about /\ d.state = c.state
    /\ d.by = c.by \/ d.by \in {"left", "nobody"}

LEMMA SameSheet ==
  ASSUME NEW d \in Call, NEW c \in Call, Same(d, c), d.by = "sheet"
  PROVE  d = c
<1>1. d = [by |-> d.by, kind |-> d.kind, about |-> d.about, state |-> d.state]
  BY DEF Call
<1>2. c = [by |-> c.by, kind |-> c.kind, about |-> c.about, state |-> c.state]
  BY DEF Call
<1> QED
  BY <1>1, <1>2 DEF Same

LEMMA AbandonedSame ==
  ASSUME NEW cs \in SUBSET Call, NEW bys
  PROVE  /\ Abandoned(cs, bys) \subseteq Call
         /\ \A d \in Abandoned(cs, bys) : d.by \notin bys \/ d.by = "nobody"
         /\ \A d \in Abandoned(cs, bys) : \E c \in cs : Same(d, c)
         /\ \A c \in cs : c.by \notin bys => c \in Abandoned(cs, bys)
<1>1. ASSUME NEW d \in Abandoned(cs, bys)
      PROVE  d \in Call /\ (d.by \notin bys \/ d.by = "nobody") /\ \E c \in cs : Same(d, c)
  <2>1. CASE d \in cs /\ d.by \notin bys
    BY <2>1 DEF Same
  <2>2. CASE \E c \in cs : d = [c EXCEPT !.by = "nobody"]
    <3>1. PICK c \in cs : d = [c EXCEPT !.by = "nobody"]
      BY <2>2
    <3>2. d = [by |-> "nobody", kind |-> c.kind, about |-> c.about, state |-> c.state]
      BY <3>1 DEF Call
    <3> QED
      BY <3>2 DEF Same, Call
  <2> QED
    BY <1>1, <2>1, <2>2 DEF Abandoned
<1> QED
  BY <1>1 DEF Abandoned

LEMMA LeftSame ==
  ASSUME NEW cs \in SUBSET Call
  PROVE  /\ Left(cs) \subseteq Call
         /\ \A d \in Left(cs) : \E c \in cs : Same(d, c)
         /\ \A c \in cs : c.by # "page" => c \in Left(cs)
<1>1. ASSUME NEW d \in Left(cs) PROVE d \in Call /\ \E c \in cs : Same(d, c)
  <2>1. PICK c \in cs : d = IF c.by = "page" THEN [c EXCEPT !.by = "left"] ELSE c
    BY DEF Left
  <2>2. CASE c.by = "page"
    <3>1. d = [by |-> "left", kind |-> c.kind, about |-> c.about, state |-> c.state]
      BY <2>1, <2>2 DEF Call
    <3> QED
      BY <3>1 DEF Same, Call
  <2>3. CASE c.by # "page"
    BY <2>1, <2>3 DEF Same
  <2> QED
    BY <2>2, <2>3
<1>2. ASSUME NEW c \in cs, c.by # "page" PROVE c \in Left(cs)
  BY <1>2 DEF Left
<1> QED
  BY <1>1, <1>2

(* A call goes on at the backend, or is over. *)
LEMMA StepSame ==
  ASSUME TypeOK, NEW c \in calls, NEW s \in {"unused", "untemplated", "emptied", "done", "failed"},
         Step(c, s)
  PROVE  /\ calls' \subseteq Call
         /\ \A d \in calls' : \/ d \in calls \ {c}
                              \/ /\ d.by = c.by /\ d.kind = c.kind /\ d.about = c.about
                                 /\ d.state = s
         /\ \A d \in calls \ {c} : d \in calls'
         /\ c.by = "sheet" => \E d \in calls' : d.by = "sheet" /\ d.kind = c.kind /\ d.about = c.about
<1>1. c \in Call
  BY DEF TypeOK
<1> DEFINE e == [by |-> c.by, kind |-> c.kind, about |-> c.about, state |-> s]
<1>2. [c EXCEPT !.state = s] = e
  BY <1>1 DEF Call
<1>3. e \in Call /\ e.by = c.by /\ e.kind = c.kind /\ e.about = c.about /\ e.state = s
  BY <1>1 DEF Call
<1>4. calls' = (calls \ {c}) \cup IF c.by = "nobody" /\ s \in {"done", "failed"} THEN {} ELSE {e}
  BY <1>2 DEF Step
<1> HIDE DEF e
<1> QED
  BY <1>3, <1>4 DEF TypeOK

(* The manager's tab makes calls, awaits others no more, and changes nothing *)
(* else of what the invariant is about.                                     *)
LEMMA TabStep ==
  ASSUME IInv, TypeOK', UNCHANGED <<database, chain, removed>>,
         sheet' = sheet \/ (sheet # "waiting" /\ sheet' # "waiting"),
         PanelKnows',
         \A m \in Owners \cap unseen : m \in unseen' \/ ~RemovalDecided(m),
         jump' => row = "gone",
         \A d \in calls' :
             \/ \E c \in calls : Same(d, c)
             \/ /\ d.by # "sheet" /\ (d.state = "sent" \/ d.kind = "erased")
                /\ d.kind = "remove" /\ d.about \in Owners => d.about \in unseen'
                /\ WellMade(d),
         \A c \in calls : c.by = "sheet" => c \in calls'
  PROVE  IInv'
<1> USE DEF IInv
<1>1. Owners' = Owners
  BY DEF Owners, database
<1>2. UNCHANGED <<row, enrolled, templates, lab>>
  BY DEF database
<1>3. CallsFit'
  <2> SUFFICES ASSUME NEW d \in calls'
               PROVE  CallFits(d)'
    BY DEF CallsFit
  <2>1. CASE \E c \in calls : Same(d, c)
    <3>1. PICK c \in calls : Same(d, c)
      BY <2>1
    <3>2. CallFits(c)
      BY DEF CallsFit
    <3>3. RemovalKnows(d)'
      BY <1>1, <3>1, <3>2 DEF CallFits, RemovalKnows, RemovalDecided, Same
    <3> QED
      BY <1>1, <1>2, <3>1, <3>2, <3>3
         DEF CallFits, DropKnows, SheetCallFits, WellMade, Same
  <2>2. CASE /\ d.by # "sheet" /\ (d.state = "sent" \/ d.kind = "erased")
             /\ d.kind = "remove" /\ d.about \in Owners => d.about \in unseen'
             /\ WellMade(d)
    BY <1>1, <2>2 DEF CallFits, DropKnows, RemovalKnows, SheetCallFits, WellMade
  <2> QED
    BY <2>1, <2>2
<1>4. \A d \in calls' : d.by = "sheet" => d \in calls
  BY SameSheet DEF TypeOK
<1>5. OneCall'
  BY <1>4 DEF OneCall
<1>6. ChainFits'
  BY DEF ChainFits
<1>7. \A m \in chain'.listed : Accounted(m)'
  <2> SUFFICES ASSUME NEW m \in chain.listed PROVE Accounted(m)'
    OBVIOUS
  <2>1. Accounted(m)
    OBVIOUS
  <2> QED
    BY <1>2, <2>1 DEF Accounted
<1>8. NoOrphans' /\ JumpsFromDeleted'
  BY <1>1, <1>2 DEF NoOrphans, JumpsFromDeleted
<1> QED
  BY <1>3, <1>5, <1>6, <1>7, <1>8

(* Nothing of what the tabs show is moved by the backend or other users. *)
LEMMA OthersStep ==
  ASSUME IInv, TypeOK', UNCHANGED <<chain, sheet, jump, view, vms>>,
         row # "none" => row' # "none", row = "gone" => row' = "gone",
         NoOrphans',
         Owners' \subseteq unseen' \cup (Owners \ unseen),
         chain # Idle => enrolled \cup removed \subseteq enrolled' \cup removed',
         UNCHANGED calls
         \/ \E c \in calls : \E s \in {"unused", "untemplated", "emptied", "done", "failed"} :
               /\ Step(c, s)
               /\ c.kind = "drop" => /\ s \in {"unused", "untemplated", "emptied"} => row' # "none"
                                     /\ s = "done" => row' = "gone"
                                     /\ s \in {"unused", "untemplated"} => Owners' \subseteq unseen'
               /\ c.kind = "enrol" /\ s = "done" => c.about \in enrolled'
  PROVE  IInv'
<1> USE DEF IInv
<1>1. ASSUME NEW d \in calls
      PROVE  CallFits(d)'
  <2>1. DropKnows(d) /\ RemovalKnows(d) /\ SheetCallFits(d) /\ WellMade(d)
    BY DEF CallsFit, CallFits
  <2>2. DropKnows(d)'
    BY <2>1 DEF DropKnows
  <2>3. RemovalKnows(d)'
    BY <2>1 DEF RemovalKnows
  <2>4. SheetCallFits(d)'
    BY <2>1, IdleFits DEF SheetCallFits
  <2> QED
    BY <2>1, <2>2, <2>3, <2>4 DEF CallFits, WellMade
<1>2. JumpsFromDeleted' /\ ChainFits' /\ PanelKnows'
  BY DEF JumpsFromDeleted, ChainFits, PanelKnows
<1>3. CASE UNCHANGED calls
  <2>1. CallsFit' /\ OneCall'
    BY <1>1, <1>3 DEF CallsFit, OneCall
  <2>2. \A m \in chain'.listed : Accounted(m)'
    BY <1>3, IdleFits DEF Accounted
  <2> QED
    BY <1>2, <2>1, <2>2
<1>4. ASSUME NEW c \in calls,
             NEW s \in {"unused", "untemplated", "emptied", "done", "failed"}, Step(c, s),
             c.kind = "drop" => /\ s \in {"unused", "untemplated", "emptied"} => row' # "none"
                                /\ s = "done" => row' = "gone"
                                /\ s \in {"unused", "untemplated"} => Owners' \subseteq unseen',
             c.kind = "enrol" /\ s = "done" => c.about \in enrolled'
      PROVE  IInv'
  <2>1. /\ \A d \in calls' : \/ d \in calls \ {c}
                             \/ /\ d.by = c.by /\ d.kind = c.kind /\ d.about = c.about
                                /\ d.state = s
        /\ \A d \in calls \ {c} : d \in calls'
        /\ c.by = "sheet" => \E d \in calls' : d.by = "sheet" /\ d.kind = c.kind /\ d.about = c.about
    BY <1>4, StepSame
  <2>2. CallsFit'
    <3> SUFFICES ASSUME NEW d \in calls',
                        d.by = c.by, d.kind = c.kind, d.about = c.about, d.state = s
                 PROVE  CallFits(d)'
      BY <1>1, <2>1 DEF CallsFit
    <3>1. SheetCallFits(c) /\ WellMade(c)
      BY DEF CallsFit, CallFits
    <3> QED
      BY <1>4, <3>1 DEF CallFits, DropKnows, RemovalKnows, SheetCallFits, WellMade
  <2>3. OneCall'
    <3> SUFFICES ASSUME chain.step \in {"subject", "last"}, NEW d \in calls', NEW e \in calls',
                        d.by = "sheet", e.by = "sheet"
                 PROVE  d = e
      BY DEF OneCall
    <3>1. CASE c.by = "sheet"
      <4>1. \A f \in calls : f.by = "sheet" => f = c
        BY <3>1 DEF OneCall
      <4>2. d \notin calls \ {c} /\ e \notin calls \ {c}
        BY <4>1
      <4>3. \A f \in calls' : f \notin calls \ {c} => f = [c EXCEPT !.state = s]
        BY <1>4 DEF Step
      <4> QED
        BY <4>2, <4>3
    <3>2. CASE c.by # "sheet"
      BY <2>1, <3>2 DEF OneCall
    <3> QED
      BY <3>1, <3>2
  <2>4. \A m \in chain'.listed : Accounted(m)'
    <3> SUFFICES ASSUME NEW m \in chain.listed PROVE Accounted(m)'
      OBVIOUS
    <3>1. Accounted(m) /\ chain # Idle
      BY IdleFits
    <3> QED
      BY <2>1, <3>1 DEF Accounted
  <2> QED
    BY <1>2, <2>2, <2>3, <2>4
<1> QED
  BY <1>3, <1>4
(* The spinners of the manager's tab, whichever it sets. *)
LEMMA BusyTyped ==
  ASSUME busy \in Busy, NEW b \in BOOLEAN, NEW m \in Mail \cup {None}, NEW t \in Template \cup {None}
  PROVE  /\ [busy EXCEPT !.adding = b] \in Busy /\ [busy EXCEPT !.removing = m] \in Busy
         /\ [busy EXCEPT !.defining = b] \in Busy /\ [busy EXCEPT !.deleting = t] \in Busy
         /\ [busy EXCEPT !.dropping = b] \in Busy
         /\ NotBusy \in Busy /\ [NotBusy EXCEPT !.dropping = busy.dropping] \in Busy
BY DEF Busy, NotBusy

(***************************************************************************)
(* 3. The actions of the manager's tab.                                    *)
(***************************************************************************)

(* Nothing is sent: the sheet is opened or closed, a page is, a list is read. *)
LEMMA QuietSteps ==
  ASSUME IInv,
         \/ LoadBases \/ ToggleSheet \/ OpenPage \/ OpenPanel
         \/ \E kind \in Loads : LoadList(kind)
  PROVE  IInv'
<1> USE DEF IInv, database, creator, lists, manager, history
<1>1. TypeOK'
  <2>1. CASE LoadBases
    BY <2>1 DEF LoadBases, TypeOK
  <2>2. CASE ToggleSheet
    BY <2>2 DEF ToggleSheet, TypeOK
  <2>3. CASE OpenPage
    BY <2>3 DEF OpenPage, TypeOK
  <2>4. CASE OpenPanel
    BY <2>4 DEF OpenPanel, TypeOK, Owners
  <2>5. CASE \E kind \in Loads : LoadList(kind)
    <3>1. PICK kind \in Loads : LoadList(kind)
      BY <2>5
    <3>2. Others(enrolled) \subseteq Mail \ {Manager} /\ Others(Owners) \subseteq Mail \ {Manager}
      BY DEF TypeOK, Others, Owners
    <3>3. /\ users' \in {Others(enrolled), users} /\ vms' \in {Others(Owners), vms}
          /\ tpls' \in {templates, tpls} /\ loading' \subseteq loading
          /\ unseen' \subseteq unseen
      BY <3>1 DEF LoadList
    <3>4. users' \subseteq Mail \ {Manager} /\ vms' \subseteq Mail \ {Manager} /\ tpls' \subseteq Template
      BY <3>2, <3>3 DEF TypeOK
    <3>5. UNCHANGED <<database, creator, view, busy, jump, calls, removed>>
      BY <3>1 DEF LoadList
    <3> QED
      BY <3>3, <3>4, <3>5 DEF TypeOK
  <2> QED
    BY <2>1, <2>2, <2>3, <2>4, <2>5
<1>2. /\ UNCHANGED <<database, chain, removed, jump, calls>>
      /\ sheet' = sheet \/ (sheet # "waiting" /\ sheet' # "waiting")
  BY DEF LoadBases, ToggleSheet, OpenPage, OpenPanel, LoadList
<1>5. Owners' = Owners
  BY <1>2 DEF Owners
<1>6. PanelKnows' /\ \A m \in Owners \cap unseen : m \in unseen' \/ ~RemovalDecided(m)
  <2>1. CASE LoadBases \/ ToggleSheet
    BY <1>5, <2>1 DEF LoadBases, ToggleSheet, PanelKnows
  <2>2. CASE OpenPage
    BY <1>5, <2>2 DEF OpenPage, PanelKnows
  <2>3. CASE OpenPanel
    BY <1>5, <2>3 DEF OpenPanel, PanelKnows
  <2>4. CASE \E kind \in Loads : LoadList(kind)
    <3>1. \/ vms' = Others(Owners) /\ unseen' = {m \in unseen : RemovalDecided(m)}
          \/ UNCHANGED <<vms, unseen>>
      BY <2>4 DEF LoadList
    <3>2. view' = view
      BY <2>4 DEF LoadList
    <3> QED
      BY <1>5, <3>1, <3>2 DEF PanelKnows, Others
  <2> QED
    BY <2>1, <2>2, <2>3, <2>4
<1>3. \A d \in calls' : \E c \in calls : Same(d, c)
  BY <1>2 DEF Same
<1>4. jump' => row = "gone"
  BY <1>2 DEF JumpsFromDeleted
<1> QED
  BY <1>1, <1>2, <1>3, <1>4, <1>6, TabStep

(* A click sends a call; somebody with an instance is removed if it is newer *)
(* than the panel's list.                                                   *)
LEMMA Clicks ==
  ASSUME IInv,
         \/ DeleteSubject
         \/ \E m \in Mail : AddUser(m) \/ RemoveUser(m)
         \/ \E t \in Template : CreateTemplate(t) \/ DeleteTemplate(t) \/ DefineTemplate(t)
  PROVE  IInv'
<1> USE DEF IInv, database, creator, lists, manager, history
<1>1. \E by \in {"panel", "page"} : \E kind \in {"enrol", "remove", "define", "erase", "capture", "drop"} :
      \E about \in Mail \cup Template \cup {None} :
         /\ calls' = calls \cup {NewCall(by, kind, about)}
         /\ by = "panel" => kind \in {"enrol", "remove", "define", "erase"}
         /\ kind \in {"enrol", "remove"} => about \in Mail
         /\ kind \in {"define", "capture"} => about \in Template
         /\ kind = "remove" => view = "panel" /\ about \in users \ vms
  BY DEF DeleteSubject, AddUser, RemoveUser, RemoveOffered, HasInstances, CreateTemplate,
         DeleteTemplate, DefineTemplate, Send
<1>2. UNCHANGED <<database, creator, view, lists, jump, history>>
  BY DEF DeleteSubject, AddUser, RemoveUser, CreateTemplate, DeleteTemplate, DefineTemplate
<1>3. busy' \in Busy
  <2> USE BusyTyped DEF TypeOK
  <2>1. CASE DeleteSubject
    BY <2>1 DEF DeleteSubject
  <2>2. CASE \E m \in Mail : AddUser(m)
    BY <2>2 DEF AddUser
  <2>3. CASE \E m \in Mail : RemoveUser(m)
    BY <2>3 DEF RemoveUser
  <2>4. CASE \E t \in Template : CreateTemplate(t)
    BY <2>4 DEF CreateTemplate
  <2>5. CASE \E t \in Template : DeleteTemplate(t)
    BY <2>5 DEF DeleteTemplate
  <2>6. CASE \E t \in Template : DefineTemplate(t)
    BY <2>6 DEF DefineTemplate
  <2> QED
    BY <2>1, <2>2, <2>3, <2>4, <2>5, <2>6
<1>4. PICK by \in {"panel", "page"}, kind \in {"enrol", "remove", "define", "erase", "capture", "drop"},
           about \in Mail \cup Template \cup {None} :
         /\ calls' = calls \cup {NewCall(by, kind, about)}
         /\ by = "panel" => kind \in {"enrol", "remove", "define", "erase"}
         /\ kind \in {"enrol", "remove"} => about \in Mail
         /\ kind \in {"define", "capture"} => about \in Template
         /\ kind = "remove" => view = "panel" /\ about \in users \ vms
  BY <1>1
<1> DEFINE new == NewCall(by, kind, about)
<1>5. new \in Call /\ new.by = by /\ new.kind = kind /\ new.about = about /\ new.state = "sent"
  BY NewCallTyped
<1> HIDE DEF new
<1>6. PanelKnows'
  BY <1>2 DEF PanelKnows, Owners
<1>7. TypeOK'
  BY <1>2, <1>3, <1>4, <1>5 DEF TypeOK, new
<1>8. kind = "remove" /\ about \in Owners => about \in unseen'
  BY <1>2, <1>4 DEF PanelKnows, TypeOK
<1>9. \A d \in calls' : (\E c \in calls : Same(d, c)) \/ d = new
  BY <1>4 DEF Same, new
<1>10. (jump' => row = "gone") /\ WellMade(new)
  BY <1>2, <1>4, <1>5 DEF JumpsFromDeleted, WellMade
<1>11. \A c \in calls : c \in calls'
  BY <1>4
<1> QED
  BY <1>2, <1>5, <1>6, <1>7, <1>8, <1>9, <1>10, <1>11, TabStep
(* Its page or its panel is left, or loaded again: the calls go on. *)
LEMMA Leavings ==
  ASSUME IInv, ClosePanel \/ LeavePage \/ ReloadPage \/ \E c \in calls : TemplateDefined(c)
  PROVE  IInv'
<1> USE DEF IInv, database, creator, lists, manager, history
<1>1. /\ UNCHANGED <<database, creator, history>>
      /\ NoPanel /\ view' \in {"elsewhere", "subject"}
      /\ jump' \in {FALSE, jump}
      /\ busy' \in {NotBusy, [NotBusy EXCEPT !.dropping = busy.dropping]}
  <2>1. CASE ClosePanel
    BY <2>1 DEF ClosePanel
  <2>2. CASE LeavePage
    BY <2>2 DEF LeavePage
  <2>3. CASE ReloadPage
    BY <2>3 DEF ReloadPage, PageLoaded, TypeOK
  <2>4. CASE \E c \in calls : TemplateDefined(c)
    BY <2>4 DEF TemplateDefined, PageLoaded, TypeOK
  <2> QED
    BY <2>1, <2>2, <2>3, <2>4
<1>2. /\ calls' \subseteq Call
      /\ \A d \in calls' : \E c \in calls : Same(d, c)
      /\ \A c \in calls : c.by = "sheet" => c \in calls'
  <2>0. calls \in SUBSET Call
    BY DEF TypeOK
  <2>1. CASE ClosePanel
    <3>1. calls' = Abandoned(calls, {"panel"})
      BY <2>1 DEF ClosePanel
    <3> QED
      BY <2>0, <3>1, AbandonedSame
  <2>2. CASE LeavePage
    <3> DEFINE cs == Abandoned(calls, {"panel"})
    <3>1. calls' = Left(cs)
      BY <2>2 DEF LeavePage
    <3>2. /\ cs \in SUBSET Call
          /\ \A d \in cs : \E c \in calls : Same(d, c)
          /\ \A c \in calls : c.by = "sheet" => c \in cs
      BY <2>0, AbandonedSame
    <3> HIDE DEF cs
    <3>3. /\ Left(cs) \subseteq Call
          /\ \A d \in Left(cs) : \E e \in cs : Same(d, e)
          /\ \A e \in cs : e.by # "page" => e \in Left(cs)
      BY <3>2, LeftSame
    <3>4. \A d \in Left(cs) : \E c \in calls : Same(d, c)
      BY <3>2, <3>3 DEF Same
    <3> QED
      BY <3>1, <3>2, <3>3, <3>4
  <2>3. CASE ReloadPage
    <3>1. calls' = Abandoned(calls, {"panel", "page", "left"})
      BY <2>3 DEF ReloadPage, PageLoaded
    <3> QED
      BY <2>0, <3>1, AbandonedSame
  <2>4. CASE \E c \in calls : TemplateDefined(c)
    <3>1. PICK c \in calls : TemplateDefined(c)
      BY <2>4
    <3>2. calls' = Abandoned(calls \ {c}, {"panel", "page", "left"}) /\ c.by # "sheet"
      BY <3>1 DEF TemplateDefined, PageLoaded
    <3>3. calls \ {c} \in SUBSET Call
      BY <2>0
    <3> QED
      BY <3>2, <3>3, AbandonedSame
  <2> QED
    BY <2>1, <2>2, <2>3, <2>4
<1>3. busy' \in Busy
  BY <1>1, BusyTyped DEF TypeOK
<1>4. TypeOK'
  BY <1>1, <1>2, <1>3 DEF TypeOK, NoPanel
<1>5. jump' => row = "gone"
  BY <1>1 DEF JumpsFromDeleted
<1>6. PanelKnows'
  BY <1>1 DEF PanelKnows
<1>7. \A m \in Owners \cap unseen : m \in unseen'
  BY <1>1
<1> QED
  BY <1>1, <1>2, <1>4, <1>5, <1>6, <1>7, TabStep

(* An answer is shown. *)
LEMMA Answers ==
  ASSUME IInv, NEW c \in calls, ShowList(c) \/ ReportFailure(c) \/ SubjectDeleted(c)
  PROVE  IInv'
<1> USE DEF IInv, database, creator, lists, manager, history
<1>1. c \in Call
  BY DEF TypeOK
<1>2. /\ UNCHANGED <<database, creator, view, loading, vms, history>>
      /\ users' \in {Others(enrolled), users} /\ tpls' \in {templates, tpls}
      /\ c.by # "sheet"
      /\ calls' \in {calls \ {c}, (calls \ {c}) \cup Then(c)}
  BY DEF ShowList, ReportFailure, SubjectDeleted
<1>3. users' \subseteq Mail \ {Manager} /\ tpls' \subseteq Template
  BY <1>2 DEF TypeOK, Others
<1>4. busy' \in {busy, Spinners(c), [busy EXCEPT !.dropping = FALSE]}
  BY DEF ShowList, ReportFailure, SubjectDeleted
<1>5. busy' \in Busy
  <2>1. c.by = "panel" => c.kind \in {"enrol", "remove", "define", "erase", "erased"}
    BY DEF CallsFit, CallFits, WellMade
  <2>2. c.kind \in {"enrol", "remove", "define", "erase", "erased"} => Spinners(c) \in Busy
    BY BusyTyped DEF Spinners, TypeOK
  <2>3. c.by # "panel" => busy' \in {busy, [busy EXCEPT !.dropping = FALSE]}
    BY DEF ShowList, ReportFailure, SubjectDeleted
  <2>4. busy \in Busy /\ [busy EXCEPT !.dropping = FALSE] \in Busy
    BY BusyTyped DEF TypeOK
  <2> QED
    BY <1>4, <2>1, <2>2, <2>3, <2>4
<1>6. \A d \in Then(c) : /\ d \in Call /\ d.by = c.by /\ d.kind = "erased"
  <2>1. [c EXCEPT !.kind = "erased"] =
            [by |-> c.by, kind |-> "erased", about |-> c.about, state |-> c.state]
    BY <1>1 DEF Call
  <2> QED
    BY <1>1, <2>1 DEF Then, Call
<1>7. calls' \subseteq Call
  BY <1>2, <1>6 DEF TypeOK
<1>8. jump' \in BOOLEAN /\ (jump' => row = "gone")
  <2>1. CASE ShowList(c) \/ ReportFailure(c)
    BY <2>1 DEF ShowList, ReportFailure, JumpsFromDeleted, TypeOK
  <2>2. CASE SubjectDeleted(c)
    BY <2>2 DEF SubjectDeleted, JumpsAfter, JumpsFromDeleted, TypeOK, CallsFit, CallFits, DropKnows
  <2> QED
    BY <2>1, <2>2
<1>9. TypeOK'
  BY <1>2, <1>3, <1>5, <1>7, <1>8 DEF TypeOK
<1>10. \A d \in calls' : \/ \E e \in calls : Same(d, e)
                         \/ d.by # "sheet" /\ d.kind = "erased" /\ WellMade(d)
  BY <1>2, <1>6 DEF Same, WellMade
<1>11. \A d \in calls : d.by = "sheet" => d \in calls'
  BY <1>2
<1>12. PanelKnows'
  BY <1>2 DEF PanelKnows, Owners
<1> QED
  BY <1>2, <1>8, <1>9, <1>10, <1>11, <1>12, TabStep

(***************************************************************************)
(* 4. The backend and the other users.                                     *)
(***************************************************************************)

(* The types of the database, of a call that goes on, and of the history. *)
LEMMA PerformTyped ==
  ASSUME IInv, UNCHANGED <<creator, manager>>,
         row' \in {"none", "there", "gone"}, enrolled' \subseteq Mail, templates' \subseteq Template,
         lab' \in [Mail -> Template \cup {Base, None}],
         removed' \subseteq Mail, unseen' \subseteq Mail, calls' \subseteq Call
  PROVE  TypeOK'
BY DEF IInv, TypeOK, creator, manager, lists

(* The call is answered, or a check of a deletion passes: nothing is written. *)
LEMMA Checks ==
  ASSUME IInv, NEW c \in calls, Refuse(c) \/ CheckInstances(c) \/ CheckTemplates(c)
  PROVE  IInv'
<1> USE DEF IInv, database, creator, lists, manager, history
<1>1. UNCHANGED <<database, creator, manager, history>>
  BY DEF Refuse, CheckInstances, CheckTemplates
<1>2. PICK s \in {"unused", "untemplated", "failed"} :
         Step(c, s) /\ (s # "failed" => c.kind = "drop" /\ row # "none" /\ Owners \subseteq unseen)
  <2>1. CASE Refuse(c)
    BY <2>1 DEF Refuse
  <2>2. CASE CheckInstances(c)
    BY <2>2 DEF CheckInstances
  <2>3. CASE CheckTemplates(c)
    BY <2>3 DEF CheckTemplates, CallsFit, CallFits, DropKnows, RemovalKnows
  <2> QED
    BY <2>1, <2>2, <2>3
<1>3. TypeOK'
  BY <1>1, <1>2, StepSame DEF TypeOK
<1>4. Owners' = Owners
  BY <1>1 DEF Owners
<1>5. NoOrphans'
  BY <1>1, <1>4 DEF NoOrphans
<1> QED
  BY <1>1, <1>2, <1>3, <1>4, <1>5, OthersStep
(* The calls that write, one statement each. *)
LEMMA Writes ==
  ASSUME IInv, NEW c \in calls,
         \/ PerformPost(c) \/ PerformEnrol(c) \/ PerformRemove(c)
         \/ PerformDefine(c) \/ PerformErase(c)
  PROVE  IInv'
<1> USE DEF IInv, database, creator, lists, manager, history
<1>1. c \in Call /\ CallFits(c)
  BY DEF TypeOK, CallsFit
<1>2. PICK s \in {"done", "failed"} : Step(c, s) /\ c.kind # "drop"
  BY DEF PerformPost, PerformEnrol, PerformRemove, PerformDefine, PerformErase, Outcome
<1>3. UNCHANGED <<lab, creator, manager, unseen>> /\ Owners' = Owners
  BY DEF PerformPost, PerformEnrol, PerformRemove, PerformDefine, PerformErase, Owners
<1>4. /\ TypeOK' /\ NoOrphans'
      /\ row # "none" => row' # "none"
      /\ row = "gone" => row' = "gone"
      /\ chain # Idle => enrolled \cup removed \subseteq enrolled' \cup removed'
      /\ c.kind = "enrol" /\ s = "done" => c.about \in enrolled'
  <2>0. calls' \subseteq Call
    BY <1>2, StepSame
  <2>1. CASE PerformPost(c)
    <3>1. c.kind = "post" /\ row = "none" /\ row' = "there" /\ UNCHANGED <<enrolled, templates, lab, history>>
      BY <2>1 DEF PerformPost
    <3>2. TypeOK'
      BY <1>3, <2>0, <3>1, PerformTyped DEF TypeOK
    <3> QED
      BY <1>3, <3>1, <3>2 DEF NoOrphans
  <2>2. CASE PerformEnrol(c)
    <3>1. /\ c.kind = "enrol" /\ row = "there" /\ c.about \in Registered
          /\ enrolled' = enrolled \cup {c.about} /\ removed' = removed \ {c.about}
          /\ UNCHANGED <<row, templates, lab, unseen>>
      BY <2>2 DEF PerformEnrol
    <3>2. enrolled' \subseteq Mail
      BY <3>1, SubjectsAssumption DEF TypeOK
    <3>3. TypeOK'
      BY <1>3, <2>0, <3>1, <3>2, PerformTyped DEF TypeOK
    <3> QED
      BY <1>3, <3>1, <3>3 DEF NoOrphans
  <2>3. CASE PerformRemove(c)
    <3>1. /\ c.kind = "remove" /\ c.state = "sent" /\ row = "there"
          /\ enrolled' = enrolled \ {c.about}
          /\ removed' = IF chain = Idle THEN {} ELSE removed \cup {c.about}
          /\ UNCHANGED <<row, templates, lab, unseen>>
      BY <2>3 DEF PerformRemove
    <3>2. c.about \in Mail
      BY <1>1, <3>1 DEF CallFits, WellMade
    <3>3. TypeOK'
      BY <1>3, <2>0, <3>1, <3>2, PerformTyped DEF TypeOK
    <3> QED
      BY <1>3, <3>1, <3>3 DEF NoOrphans
  <2>4. CASE PerformDefine(c)
    <3>1. /\ c.kind \in {"define", "capture"} /\ row = "there"
          /\ templates' = templates \cup {c.about}
          /\ UNCHANGED <<row, enrolled, lab, history>>
      BY <2>4 DEF PerformDefine
    <3>2. c.about \in Template
      BY <1>1, <3>1 DEF CallFits, WellMade
    <3>3. TypeOK'
      BY <1>3, <2>0, <3>1, <3>2, PerformTyped DEF TypeOK
    <3> QED
      BY <1>3, <3>1, <3>3 DEF NoOrphans
  <2>5. CASE PerformErase(c)
    <3>1. /\ c.kind = "erase" /\ TemplateRemovable(c.about)
          /\ templates' = templates \ {c.about}
          /\ UNCHANGED <<row, enrolled, lab, history>>
      BY <2>5 DEF PerformErase
    <3>2. \A m \in Owners : lab[m] # c.about
      BY <3>1 DEF TemplateRemovable, Owners
    <3>3. TypeOK'
      BY <1>3, <2>0, <3>1, PerformTyped DEF TypeOK
    <3> QED
      BY <1>3, <3>1, <3>2, <3>3 DEF NoOrphans
  <2> QED
    BY <2>1, <2>2, <2>3, <2>4, <2>5
<1> QED
  BY <1>2, <1>3, <1>4, OthersStep

(* The last two statements of a deletion. *)
LEMMA Deletions ==
  ASSUME IInv, NEW c \in calls, DeleteAllUsers(c) \/ DeleteRow(c)
  PROVE  IInv'
<1> USE DEF IInv, database, creator, lists, manager, history
<1>1. c \in Call /\ CallFits(c)
  BY DEF TypeOK, CallsFit
<1>2. c.kind = "drop" /\ row # "none" /\ UNCHANGED <<templates, lab, creator, manager>> /\ Owners' = Owners
  BY <1>1 DEF DeleteAllUsers, DeleteRow, CallFits, DropKnows, Owners
<1>3. CASE DeleteAllUsers(c)
  <2>1. /\ enrolled' = {} /\ unseen' = unseen /\ row' = row
        /\ removed' = IF chain = Idle THEN {} ELSE removed \cup enrolled
        /\ Step(c, "emptied")
    BY <1>3 DEF DeleteAllUsers
  <2>2. calls' \subseteq Call
    BY <2>1, StepSame
  <2>3. TypeOK'
    BY <1>2, <2>1, <2>2, PerformTyped DEF TypeOK
  <2>4. NoOrphans'
    BY <1>2, <2>1 DEF NoOrphans
  <2> QED
    BY <1>2, <2>1, <2>3, <2>4, OthersStep
<1>4. CASE DeleteRow(c)
  <2>1. /\ row' = "gone" /\ SubjectRemovable /\ UNCHANGED <<enrolled, history>>
        /\ \E s \in {"done", "failed"} : Step(c, s)
    BY <1>2, <1>4 DEF DeleteRow, Outcome
  <2>2. calls' \subseteq Call
    BY <2>1, StepSame
  <2>3. TypeOK'
    BY <1>2, <2>1, <2>2, PerformTyped DEF TypeOK
  <2>4. NoOrphans'
    BY <1>2, <2>1 DEF NoOrphans, SubjectRemovable
  <2> QED
    BY <1>2, <2>1, <2>3, <2>4, OthersStep
<1> QED
  BY <1>3, <1>4
(* An instance is made, which nobody has seen yet. *)
LEMMA Insertions ==
  ASSUME IInv,
         \/ \E c \in calls : PerformInstance(c)
         \/ \E m \in Mail : RequestInstance(m)
  PROVE  IInv'
<1> USE DEF IInv, database, creator, lists, manager, history
<1>1. PICK m \in Mail, source \in templates \cup {Base} :
         /\ Insert(m, source)
         /\ UNCHANGED calls
            \/ \E c \in calls : \E s \in {"done", "failed"} : c.kind = "instance" /\ Step(c, s)
  <2>1. CASE \E c \in calls : PerformInstance(c)
    <3>1. PICK c \in calls : PerformInstance(c)
      BY <2>1
    <3>2. c.about \in Mail /\ c.kind = "instance"
      BY <3>1 DEF PerformInstance, CallsFit, CallFits, WellMade
    <3> QED
      BY <3>1, <3>2 DEF PerformInstance, Outcome
  <2>2. CASE \E m \in Mail : RequestInstance(m)
    BY <2>2 DEF RequestInstance
  <2> QED
    BY <2>1, <2>2
<1>2. /\ row = "there" /\ lab' = [lab EXCEPT ![m] = source]
      /\ unseen' = unseen \cup {m}
      /\ UNCHANGED <<row, enrolled, templates, creator, manager, removed>>
  BY <1>1 DEF Insert
<1>3. lab' \in [Mail -> Template \cup {Base, None}] /\ unseen' \subseteq Mail
  BY <1>2 DEF TypeOK
<1>4. calls' \subseteq Call
  BY <1>1, StepSame DEF TypeOK
<1>5. TypeOK'
  BY <1>2, <1>3, <1>4, PerformTyped DEF TypeOK
<1>6. Owners' \subseteq Owners \cup {m} /\ \A n \in Owners' : lab'[n] = IF n = m THEN source ELSE lab[n]
  BY <1>2, <1>3 DEF Owners, TypeOK
<1>7. NoOrphans'
  BY <1>2, <1>6 DEF NoOrphans
<1>8. Owners' \subseteq unseen' \cup (Owners \ unseen)
  BY <1>2, <1>6
<1> QED
  BY <1>1, <1>2, <1>5, <1>7, <1>8, OthersStep

LEMMA OtherUsers ==
  ASSUME IInv, NEW m \in Mail, DeleteInstance(m) \/ OtherPanel(m)
  PROVE  IInv'
<1> USE DEF IInv, database, creator, lists, manager, history
<1>1. UNCHANGED <<row, templates, creator, manager, calls>>
  BY DEF DeleteInstance, OtherPanel
<1>2. CASE DeleteInstance(m)
  <2>1. lab' = [lab EXCEPT ![m] = None] /\ unseen' = unseen \ {m} /\ UNCHANGED <<enrolled, removed>>
    BY <1>2 DEF DeleteInstance
  <2>2. lab' \in [Mail -> Template \cup {Base, None}]
    BY <2>1 DEF TypeOK
  <2>3. TypeOK'
    BY <1>1, <2>1, <2>2, PerformTyped DEF TypeOK
  <2>4. Owners' \subseteq Owners \ {m} /\ \A n \in Owners' : lab'[n] = lab[n]
    BY <2>1, <2>2 DEF Owners, TypeOK
  <2>5. NoOrphans'
    BY <1>1, <2>1, <2>4 DEF NoOrphans
  <2> QED
    BY <1>1, <2>1, <2>3, <2>4, <2>5, OthersStep
<1>3. CASE OtherPanel(m)
  <2>1. /\ row = "there" /\ lab' = lab
        /\ enrolled' \subseteq Mail /\ removed' \subseteq Mail /\ unseen' = unseen
        /\ enrolled \cup removed \subseteq enrolled' \cup removed'
    BY <1>3, SubjectsAssumption DEF OtherPanel, TypeOK, Owners
  <2>2. TypeOK'
    BY <1>1, <2>1, PerformTyped DEF TypeOK
  <2>3. Owners' = Owners
    BY <2>1 DEF Owners
  <2>4. NoOrphans'
    BY <1>1, <1>3, <2>1, <2>3 DEF NoOrphans, OtherPanel
  <2> QED
    BY <1>1, <2>1, <2>2, <2>3, <2>4, OthersStep
<1> QED
  BY <1>2, <1>3

(***************************************************************************)
(* 5. The creator's tab: the chain.                                        *)
(***************************************************************************)

(* The tab is loaded again, and nobody awaits the sheet's calls.            *)
LEMMA TabReloaded ==
  ASSUME IInv, TabLoaded, UNCHANGED <<database, manager, unseen>>,
         calls' \subseteq Call,
         \A d \in calls' : d.by # "sheet" /\ \E c \in calls : Same(d, c)
  PROVE  IInv'
<1> USE DEF IInv, database, creator, lists, manager, history
<1>1. bases' = "loading" /\ sheet' = "closed" /\ chain' = Idle /\ removed' = {}
  BY DEF TabLoaded
<1>2. TypeOK'
  BY <1>1, IdleFits DEF TypeOK
<1>3. Owners' = Owners
  BY DEF Owners
<1>4. CallsFit'
  <2> SUFFICES ASSUME NEW d \in calls' PROVE CallFits(d)'
    BY DEF CallsFit
  <2>1. PICK c \in calls : Same(d, c)
    OBVIOUS
  <2>2. CallFits(c) /\ d.by # "sheet"
    BY DEF CallsFit
  <2> QED
    BY <1>3, <2>1, <2>2 DEF CallFits, DropKnows, RemovalKnows, SheetCallFits, WellMade, Same
<1>5. OneCall' /\ ChainFits'
  BY <1>1, IdleFits DEF OneCall, ChainFits
<1>6. NoOrphans' /\ PanelKnows' /\ JumpsFromDeleted'
  BY <1>3 DEF NoOrphans, PanelKnows, JumpsFromDeleted
<1> QED
  BY <1>1, <1>2, <1>4, <1>5, <1>6, IdleFits

LEMMA SheetReloads ==
  ASSUME IInv, ReloadSheet \/ \E c \in calls : CreationEnded(c)
  PROVE  IInv'
<1> USE DEF IInv, database, creator, lists, manager, history
<1>1. CASE ReloadSheet
  <2>1. calls \in SUBSET Call /\ calls' = Abandoned(calls, {"sheet"})
    BY <1>1 DEF TypeOK, ReloadSheet
  <2>2. /\ calls' \subseteq Call
        /\ \A d \in calls' : d.by # "sheet" /\ \E c \in calls : Same(d, c)
    BY <2>1, AbandonedSame
  <2> QED
    BY <1>1, <2>2, TabReloaded DEF ReloadSheet
<1>2. CASE \E c \in calls : CreationEnded(c)
  <2>1. PICK c \in calls : CreationEnded(c)
    BY <1>2
  <2>2. c.by = "sheet" /\ Ends(c) /\ calls' = calls \ {c}
    BY <2>1 DEF CreationEnded
  <2>3. chain.step \in {"subject", "last"}
    BY <2>2 DEF CallsFit, CallFits, SheetCallFits, Ends
  <2>4. \A d \in calls' : d.by # "sheet" /\ Same(d, d)
    BY <2>2, <2>3 DEF OneCall, Same
  <2>5. calls' \subseteq Call
    BY <2>2 DEF TypeOK
  <2> QED
    BY <2>1, <2>2, <2>4, <2>5, TabReloaded DEF CreationEnded
<1> QED
  BY <1>1, <1>2

(* A step of the chain: cs are the calls it leaves, to which it adds new ones *)
(* of its own.                                                              *)
LEMMA ChainStep ==
  ASSUME IInv, UNCHANGED <<database, bases, manager, history>>,
         NEW cs \in SUBSET calls, NEW new \in SUBSET Call, calls' = cs \cup new,
         \A d \in new : /\ d.by = "sheet" /\ d.state = "sent" /\ d.kind \in {"post", "enrol", "instance", "define"}
                        /\ WellMade(d),
         chain' \in Chain, sheet' = "waiting",
         \A d \in calls' : d.by = "sheet" => SheetCallFits(d)',
         OneCall',
         chain'.step \in {"idle", "subject"} => chain'.listed = {},
         \A m \in chain'.listed : Accounted(m)'
  PROVE  IInv'
<1> USE DEF IInv, database, creator, lists, manager, history
<1>1. TypeOK'
  BY DEF TypeOK
<1>2. Owners' = Owners
  BY DEF Owners
<1>3. CallsFit'
  <2> SUFFICES ASSUME NEW d \in calls' PROVE CallFits(d)'
    BY DEF CallsFit
  <2>1. SheetCallFits(d)'
    BY DEF SheetCallFits
  <2>2. CASE d \in cs
    <3>1. CallFits(d)
      BY <2>2 DEF CallsFit
    <3> QED
      BY <1>2, <2>1, <3>1 DEF CallFits, DropKnows, RemovalKnows, WellMade
  <2>3. CASE d \in new
    BY <2>1, <2>3 DEF CallFits, DropKnows, RemovalKnows, WellMade
  <2> QED
    BY <2>2, <2>3
<1>4. ChainFits'
  BY DEF ChainFits
<1>5. NoOrphans' /\ PanelKnows' /\ JumpsFromDeleted'
  BY <1>2 DEF NoOrphans, PanelKnows, JumpsFromDeleted
<1> QED
  BY <1>1, <1>3, <1>4, <1>5
LEMMA EnrolmentsTyped ==
  ASSUME NEW list \in SUBSET Mail
  PROVE  /\ Enrolments(list) \subseteq Call
         /\ \A d \in Enrolments(list) :
               /\ d.by = "sheet" /\ d.kind = "enrol" /\ d.state = "sent" /\ d.about \in list
               /\ WellMade(d)
         /\ \A m \in list : \E d \in Enrolments(list) :
               d.by = "sheet" /\ d.kind = "enrol" /\ d.about = m
<1>1. \A m \in list : /\ NewCall("sheet", "enrol", m) \in Call
                      /\ NewCall("sheet", "enrol", m).by = "sheet"
                      /\ NewCall("sheet", "enrol", m).kind = "enrol"
                      /\ NewCall("sheet", "enrol", m).about = m
                      /\ NewCall("sheet", "enrol", m).state = "sent"
  BY NewCallTyped
<1> QED
  BY <1>1 DEF Enrolments, WellMade

LEMMA Submissions == IInv /\ SubmitSheet => IInv'
<1> SUFFICES ASSUME IInv, SubmitSheet PROVE IInv'
  OBVIOUS
<1> USE DEF IInv, database, creator, lists, manager, history
<1> DEFINE new == NewCall("sheet", "post", Creator)
<1>1. /\ new \in Call /\ new.by = "sheet" /\ new.kind = "post" /\ new.state = "sent"
  BY NewCallTyped, SubjectsAssumption
<1>2. /\ sheet = "form" /\ calls' = calls \cup {new} /\ sheet' = "waiting"
      /\ chain' = [Idle EXCEPT !.step = "subject"]
      /\ UNCHANGED <<database, bases, manager, history>>
  BY DEF SubmitSheet
<1> HIDE DEF new
<1>3. chain' \in Chain /\ chain'.step = "subject" /\ chain'.listed = {}
  BY <1>2 DEF Idle, Chain
<1>4. \A d \in calls : d.by # "sheet"
  BY <1>2 DEF ChainFits, CallsFit, CallFits, SheetCallFits
<1>5. \A d \in calls' : d.by = "sheet" => d = new /\ SheetCallFits(d)'
  BY <1>1, <1>2, <1>3, <1>4 DEF SheetCallFits
<1>6. OneCall'
  BY <1>5 DEF OneCall
<1>7. WellMade(new) /\ {new} \in SUBSET Call /\ calls \in SUBSET calls
  BY <1>1 DEF WellMade
<1> QED
  BY <1>1, <1>2, <1>3, <1>5, <1>6, <1>7, ChainStep

LEMMA Creations ==
  ASSUME IInv, NEW c \in calls, SubjectCreated(c)
  PROVE  IInv'
<1> USE DEF IInv, database, creator, lists, manager, history
<1>1. /\ c.by = "sheet" /\ c.kind = "post"
      /\ UNCHANGED <<database, bases, sheet, manager, history>>
  BY DEF SubjectCreated
<1>2. PICK list \in ProfessorLists :
         /\ chain' = [step |-> "professors", listed |-> chain.listed \cup list, refused |-> {}]
         /\ calls' = (calls \ {c}) \cup Enrolments(list)
  BY DEF SubjectCreated, GoesOn
<1>3. list \in SUBSET Mail
  BY SubjectsAssumption DEF ProfessorLists
<1>4. chain.step = "subject" /\ chain.listed = {} /\ sheet = "waiting"
  BY <1>1 DEF CallsFit, CallFits, SheetCallFits, ChainFits
<1>5. chain' \in Chain /\ chain'.step = "professors" /\ chain'.listed = list
  BY <1>2, <1>3, <1>4 DEF Chain
<1>6. \A d \in calls \ {c} : d.by # "sheet"
  BY <1>1, <1>4 DEF OneCall
<1>7. \A d \in calls' : d.by = "sheet" => SheetCallFits(d)'
  BY <1>2, <1>3, <1>5, <1>6, EnrolmentsTyped DEF SheetCallFits
<1>8. OneCall'
  BY <1>5 DEF OneCall
<1>9. \A m \in chain'.listed : Accounted(m)'
  BY <1>2, <1>3, <1>5, EnrolmentsTyped DEF Accounted
<1>10. calls \ {c} \in SUBSET calls /\ Enrolments(list) \in SUBSET Call
  BY <1>3, EnrolmentsTyped
<1>11. \A d \in Enrolments(list) : d.by = "sheet" /\ d.state = "sent" /\ d.kind = "enrol" /\ WellMade(d)
  BY <1>3, EnrolmentsTyped
<1>12. sheet' = "waiting"
  BY <1>1, <1>4
<1> QED
  BY <1>1, <1>2, <1>5, <1>7, <1>8, <1>9, <1>10, <1>11, <1>12, ChainStep

(* Whoever is listed stays accounted for when his enrolment is answered. *)
LEMMA StillAccounted ==
  ASSUME IInv, NEW c \in calls, UserEnrolled(c)
  PROVE  \A m \in chain.listed :
            \/ m \in enrolled \cup removed \cup chain.refused \cup Refused(c)
            \/ \E d \in calls \ {c} : d.by = "sheet" /\ d.kind = "enrol" /\ d.about = m
<1> USE DEF IInv
<1> SUFFICES ASSUME NEW m \in chain.listed, c.about = m
             PROVE  m \in enrolled \cup removed \cup chain.refused \cup Refused(c)
  BY DEF Accounted
<1>1. c.by = "sheet" /\ c.kind = "enrol" /\ c.state \in {"done", "failed"}
  BY DEF UserEnrolled
<1>2. c.state = "done" => m \in enrolled \cup removed
  BY <1>1 DEF CallsFit, CallFits, SheetCallFits
<1> QED
  BY <1>1, <1>2 DEF Refused

LEMMA Enrolled ==
  ASSUME IInv, NEW c \in calls, UserEnrolled(c)
  PROVE  IInv'
<1> USE DEF IInv, database, creator, lists, manager, history
<1> DEFINE others  == calls \ {c}
           refused == chain.refused \cup Refused(c)
<1>1. /\ c.by = "sheet" /\ c.kind = "enrol"
      /\ UNCHANGED <<database, bases, sheet, manager, history>>
  BY DEF UserEnrolled
<1>2. c \in Call /\ c.about \in Mail
  BY <1>1 DEF TypeOK, CallsFit, CallFits, WellMade
<1>3. chain.step \in {"professors", "students"} /\ sheet = "waiting"
  BY <1>1 DEF CallsFit, CallFits, SheetCallFits, ChainFits
<1>4. refused \subseteq Mail /\ chain.listed \subseteq Mail
  BY <1>2 DEF Refused, TypeOK, Chain
<1>5. \A m \in chain.listed : \/ m \in enrolled \cup removed \cup refused
                              \/ \E d \in others : d.by = "sheet" /\ d.kind = "enrol" /\ d.about = m
  BY StillAccounted
<1> HIDE DEF refused
<1>6. ASSUME NEW step \in {"professors", "students", "last"},
             NEW list \in SUBSET Mail, NEW new \in SUBSET Call,
             chain' = [step |-> step, listed |-> chain.listed \cup list, refused |-> refused],
             calls' = others \cup new,
             \A d \in new : d.by = "sheet" /\ d.state = "sent" /\ WellMade(d),
             \A m \in list : \E d \in new : d.by = "sheet" /\ d.kind = "enrol" /\ d.about = m,
             \/ step = chain.step /\ new = {}
             \/ /\ AllAnswered(others) /\ step = "students"
                /\ \A d \in new : d.kind = "enrol" /\ d.about \notin Professor
             \/ /\ AllAnswered(others) /\ step = "last" /\ list = {}
                /\ \E d \in Call : new = {d} /\ d.kind \in {"instance", "define"}
      PROVE  IInv'
  <2>1. chain' \in Chain /\ chain'.step = step /\ chain'.listed = chain.listed \cup list
        /\ chain'.refused = refused
    BY <1>4, <1>6 DEF Chain
  <2>2. \A d \in new : /\ d.by = "sheet" /\ d.state = "sent" /\ WellMade(d)
                       /\ d.kind \in {"post", "enrol", "instance", "define"}
    BY <1>6
  <2>3. AllAnswered(others) => \A d \in others : d.by # "sheet"
    BY <1>3 DEF AllAnswered, CallsFit, CallFits, SheetCallFits
  <2>4. \A d \in calls' : d.by = "sheet" => SheetCallFits(d)'
    <3> SUFFICES ASSUME NEW d \in calls', d.by = "sheet" PROVE SheetCallFits(d)'
      OBVIOUS
    <3>1. CASE d \in others
      <4>1. SheetCallFits(d) /\ step = chain.step
        BY <1>6, <2>3, <3>1 DEF CallsFit, CallFits
      <4> QED
        BY <1>1, <2>1, <4>1 DEF SheetCallFits
    <3>2. CASE d \in new
      BY <1>6, <2>1, <3>2 DEF SheetCallFits
    <3> QED
      BY <1>6, <3>1, <3>2
  <2>5. OneCall'
    BY <1>3, <1>6, <2>1, <2>3 DEF OneCall
  <2>6. \A m \in chain'.listed : Accounted(m)'
    <3> SUFFICES ASSUME NEW m \in chain.listed \cup list PROVE Accounted(m)'
      BY <2>1
    <3>1. CASE m \in chain.listed
      BY <1>1, <1>5, <1>6, <2>1, <3>1 DEF Accounted
    <3>2. CASE m \in list
      BY <1>6, <3>2 DEF Accounted
    <3> QED
      BY <3>1, <3>2
  <2>7. others \in SUBSET calls /\ sheet' = "waiting" /\ chain'.step \notin {"idle", "subject"}
    BY <1>1, <1>3, <2>1
  <2> HIDE DEF others
  <2> QED
    BY <1>1, <1>6, <2>1, <2>2, <2>4, <2>5, <2>6, <2>7, ChainStep
<1>7. CASE ~AllAnswered(others)
  <2>1. GoesOn(chain.step, {}, refused, others)
    BY <1>7 DEF UserEnrolled, refused
  <2>2. Enrolments({}) = {}
    BY DEF Enrolments
  <2>3. /\ chain' = [step |-> chain.step, listed |-> chain.listed \cup {}, refused |-> refused]
        /\ calls' = others \cup {}
    BY <2>1, <2>2 DEF GoesOn
  <2>4. chain.step \in {"professors", "students", "last"} /\ {} \in SUBSET Mail /\ {} \in SUBSET Call
    BY <1>3
  <2> QED
    BY <1>6, <2>3, <2>4
<1>8. CASE AllAnswered(others) /\ \E list \in StudentLists : GoesOn("students", list, refused, others)
  <2>1. PICK list \in StudentLists : GoesOn("students", list, refused, others)
    BY <1>8
  <2>2. list \in SUBSET Mail /\ \A m \in list : m \notin Professor
    BY DEF StudentLists
  <2>3. Enrolments(list) \in SUBSET Call
    BY <2>2, EnrolmentsTyped
  <2>4. \A d \in Enrolments(list) :
            /\ d.by = "sheet" /\ d.kind = "enrol" /\ d.state = "sent" /\ d.about \in list
            /\ WellMade(d)
    BY <2>2, EnrolmentsTyped
  <2>5. \A m \in list : \E d \in Enrolments(list) :
            d.by = "sheet" /\ d.kind = "enrol" /\ d.about = m
    BY <2>2, EnrolmentsTyped
  <2>6. /\ chain' = [step |-> "students", listed |-> chain.listed \cup list, refused |-> refused]
        /\ calls' = others \cup Enrolments(list)
    BY <2>1 DEF GoesOn
  <2>7. \A d \in Enrolments(list) : d.by = "sheet" /\ d.state = "sent" /\ WellMade(d)
    BY <2>4
  <2>8. \A d \in Enrolments(list) : d.kind = "enrol" /\ d.about \notin Professor
    BY <2>2, <2>4
  <2>9. AllAnswered(others) /\ list \in SUBSET Mail
    BY <1>8, <2>2
  <2> HIDE DEF others
  <2> QED
    BY <1>6, <2>3, <2>5, <2>6, <2>7, <2>8, <2>9
<1>9. CASE AllAnswered(others) /\ \E last \in LastCalls : GoesOn("last", {}, refused, others \cup {last})
  <2>1. PICK last \in LastCalls : GoesOn("last", {}, refused, others \cup {last})
    BY <1>9
  <2>2. last \in Call /\ last.by = "sheet" /\ last.state = "sent"
        /\ last.kind \in {"instance", "define"} /\ WellMade(last)
    BY NewCallTyped, SubjectsAssumption DEF LastCalls, InstanceCall, WellMade
  <2>3. Enrolments({}) = {}
    BY DEF Enrolments
  <2>4. /\ chain' = [step |-> "last", listed |-> chain.listed \cup {}, refused |-> refused]
        /\ calls' = others \cup {last}
    BY <2>1, <2>3 DEF GoesOn
  <2>5. {last} \in SUBSET Call /\ {} \in SUBSET Mail
    BY <2>2
  <2> HIDE DEF others
  <2> QED
    BY <1>6, <1>9, <2>2, <2>4, <2>5
<1> QED
  BY <1>7, <1>8, <1>9 DEF UserEnrolled, refused
(***************************************************************************)
(* 6. The theorems.                                                        *)
(***************************************************************************)

LEMMA Initially == Init => IInv
<1> SUFFICES ASSUME Init PROVE IInv
  OBVIOUS
<1> USE DEF Init, IInv
<1>1. TypeOK
  BY IdleFits DEF TypeOK, NotBusy, Busy
<1>2. Owners = {}
  BY DEF Owners
<1> QED
  BY <1>1, <1>2, IdleFits DEF CallsFit, OneCall, ChainFits, NoOrphans, PanelKnows, JumpsFromDeleted

LEMMA Stuttering == IInv /\ UNCHANGED vars => IInv'
<1> SUFFICES ASSUME IInv, UNCHANGED vars PROVE IInv'
  OBVIOUS
<1> USE DEF IInv, vars, database, creator, lists, manager, history
<1>1. TypeOK'
  BY DEF TypeOK
<1>2. UNCHANGED <<database, chain, sheet, removed, unseen, jump, calls>>
  OBVIOUS
<1>3. (\A d \in calls' : \E c \in calls : Same(d, c)) /\ (jump' => row = "gone") /\ PanelKnows'
  BY <1>2 DEF Same, JumpsFromDeleted, PanelKnows, Owners
<1> QED
  BY <1>1, <1>2, <1>3, TabStep

LEMMA Invariance == IInv /\ [Next]_vars => IInv'
<1> SUFFICES ASSUME IInv, [Next]_vars PROVE IInv'
  OBVIOUS
<1>1. CASE LoadBases \/ ToggleSheet \/ OpenPage \/ OpenPanel \/ \E kind \in Loads : LoadList(kind)
  BY <1>1, QuietSteps
<1>2. CASE \/ DeleteSubject
           \/ \E m \in Mail : AddUser(m) \/ RemoveUser(m)
           \/ \E t \in Template : CreateTemplate(t) \/ DeleteTemplate(t) \/ DefineTemplate(t)
  BY <1>2, Clicks
<1>3. CASE ClosePanel \/ LeavePage \/ ReloadPage \/ \E c \in calls : TemplateDefined(c)
  BY <1>3, Leavings
<1>4. CASE \E c \in calls : ShowList(c) \/ ReportFailure(c) \/ SubjectDeleted(c)
  BY <1>4, Answers
<1>5. CASE \E m \in Mail : DeleteInstance(m) \/ OtherPanel(m)
  BY <1>5, OtherUsers
<1>6. CASE (\E c \in calls : PerformInstance(c)) \/ (\E m \in Mail : RequestInstance(m))
  BY <1>6, Insertions
<1>7. CASE \E c \in calls : Backend(c)
  <2>1. PICK c \in calls : Backend(c)
    BY <1>7
  <2>2. CASE Refuse(c) \/ CheckInstances(c) \/ CheckTemplates(c)
    BY <2>2, Checks
  <2>3. CASE \/ PerformPost(c) \/ PerformEnrol(c) \/ PerformRemove(c)
             \/ PerformDefine(c) \/ PerformErase(c)
    BY <2>3, Writes
  <2>4. CASE DeleteAllUsers(c) \/ DeleteRow(c)
    BY <2>4, Deletions
  <2> QED
    BY <1>6, <2>1, <2>2, <2>3, <2>4 DEF Backend
<1>8. CASE SubmitSheet
  BY <1>8, Submissions
<1>9. CASE ReloadSheet \/ \E c \in calls : CreationEnded(c)
  BY <1>9, SheetReloads
<1>10. CASE \E c \in calls : SubjectCreated(c) \/ UserEnrolled(c)
  BY <1>10, Creations, Enrolled
<1>11. CASE UNCHANGED vars
  BY <1>11, Stuttering
<1> QED
  BY <1>1, <1>2, <1>3, <1>4, <1>5, <1>6, <1>7, <1>8, <1>9, <1>10, <1>11 DEF Next, SheetStep

LEMMA AlwaysIInv == Spec => []IInv
<1>1. Init => IInv
  BY Initially
<1>2. IInv /\ [Next]_vars => IInv'
  BY Invariance
<1> QED
  BY <1>1, <1>2, PTL DEF Spec

(* The variables keep their types, whoever works on the subject. *)
THEOREM TypeCorrect == Spec => []TypeOK
<1>1. IInv => TypeOK
  BY DEF IInv
<1> QED
  BY <1>1, AlwaysIInv, PTL

(* DeleteSubject, whose checks come before its deletions, leaves nothing that *)
(* refers to a subject that is gone, whatever users do between its statements. *)
THEOREM NothingOrphaned == Spec => []NoOrphans
<1>1. IInv => NoOrphans
  BY DEF IInv
<1> QED
  BY <1>1, AlwaysIInv, PTL

(* What useCreateSubject goes on from, once the answers to its concurrent      *)
(* enrolments are all there, is the enrolment of each listed user or his error. *)
THEOREM NobodyForgotten == Spec => []ListedAccounted
<1>1. ASSUME IInv PROVE ListedAccounted
  <2> USE <1>1 DEF IInv
  <2> SUFFICES ASSUME NEW m \in chain.listed,
                      chain.step = "last" \/ (chain.step = "students" /\ m \in Professor)
               PROVE  m \in enrolled \cup chain.refused \cup removed
    BY DEF ListedAccounted
  <2>1. Accounted(m)
    OBVIOUS
  <2>2. \A c \in calls : ~(c.by = "sheet" /\ c.kind = "enrol" /\ c.about = m)
    BY DEF CallsFit, CallFits, SheetCallFits
  <2> QED
    BY <2>1, <2>2 DEF Accounted
<1> QED
  BY <1>1, AlwaysIInv, PTL

(* Users are removed by their panel's calls and, all at once, by DeleteSubject. *)
LEMMA Removals ==
  ASSUME [Next]_vars, NEW m \in enrolled \ enrolled'
  PROVE  \/ \E c \in calls : c.kind = "remove" /\ c.state = "sent" /\ c.about = m
         \/ \E c \in calls : c.kind = "drop" /\ c.state = "untemplated"
         \/ \E n \in Mail : OtherPanel(n) /\ n = m
<1> USE DEF database, creator, manager, lists, history
<1>1. CASE LoadBases \/ ToggleSheet \/ SubmitSheet \/ ReloadSheet
  BY <1>1 DEF LoadBases, ToggleSheet, SubmitSheet, ReloadSheet
<1>2. CASE OpenPage \/ OpenPanel \/ ClosePanel \/ LeavePage \/ ReloadPage \/ DeleteSubject
  BY <1>2 DEF OpenPage, OpenPanel, ClosePanel, LeavePage, ReloadPage, DeleteSubject
<1>3. CASE \E n \in Mail : AddUser(n) \/ RemoveUser(n) \/ RequestInstance(n) \/ DeleteInstance(n)
  BY <1>3 DEF AddUser, RemoveUser, RequestInstance, Insert, DeleteInstance
<1>4. CASE \E n \in Mail : OtherPanel(n)
  BY <1>4 DEF OtherPanel
<1>5. CASE \/ \E kind \in Loads : LoadList(kind)
           \/ \E t \in Template : CreateTemplate(t) \/ DeleteTemplate(t) \/ DefineTemplate(t)
  BY <1>5 DEF LoadList, CreateTemplate, DeleteTemplate, DefineTemplate
<1>6. CASE \E c \in calls : \/ SheetStep(c) \/ ShowList(c) \/ ReportFailure(c)
                            \/ SubjectDeleted(c) \/ TemplateDefined(c)
  BY <1>6 DEF SheetStep, SubjectCreated, UserEnrolled, CreationEnded, ShowList, ReportFailure,
              SubjectDeleted, TemplateDefined
<1>7. CASE \E c \in calls : Backend(c)
  <2>1. PICK c \in calls : Backend(c)
    BY <1>7
  <2>2. PerformRemove(c) \/ DeleteAllUsers(c)
    BY <2>1 DEF Backend, Refuse, PerformPost, PerformEnrol, PerformDefine, PerformErase,
                PerformInstance, Insert, CheckInstances, CheckTemplates, DeleteRow
  <2> QED
    BY <2>2 DEF PerformRemove, DeleteAllUsers
<1>8. CASE UNCHANGED vars
  BY <1>8 DEF vars
<1> QED
  BY <1>1, <1>2, <1>3, <1>4, <1>5, <1>6, <1>7, <1>8 DEF Next

(* RemoveUserFromSubject does not look for an instance, and DeleteSubject looks *)
(* two statements before it removes the users: who is removed in spite of one   *)
(* got it after the list was read, or after that look.                          *)
THEOREM OwnersKept == Spec => SeenOwnersStay
<1>1. ASSUME IInv, [Next]_vars
      PROVE  \A m \in (enrolled \ enrolled') \cap Owners : m \in unseen \/ OtherPanel(m)
  <2>1. \A c \in calls : RemovalKnows(c)
    BY <1>1 DEF IInv, CallsFit, CallFits
  <2> QED
    BY <1>1, <2>1, Removals DEF RemovalKnows
<1> QED
  BY <1>1, AlwaysIInv, PTL DEF Spec, SeenOwnersStay

(* DeleteSubjectButton's setTimeout runs only after a deletion. *)
THEOREM JumpsRightly == Spec => []JumpsFromDeleted
<1>1. IInv => JumpsFromDeleted
  BY DEF IInv
<1> QED
  BY <1>1, AlwaysIInv, PTL
=============================================================================
