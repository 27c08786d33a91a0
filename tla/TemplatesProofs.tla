-------------------------- MODULE TemplatesProofs --------------------------
(***************************************************************************)
(* Theorems about Templates for any number of agents, templates, instances *)
(* and requests in progress.                                               *)
(***************************************************************************)
EXTENDS Templates, TLAPS

(***************************************************************************)
(* 1. The inductive invariant, part by part.                               *)
(***************************************************************************)

Making == {"create", "define"}

(* The requests made about templates; the others are about instances. *)
OfTemplates == {"create", "delete template"}

(* A request that is past its checks. *)
Known(c) == c.pc \notin {"idle", "check"}

(* Program points belong to operations, and what was checked held then: a   *)
(* row may have gone since, but does not become another kind of thing.      *)
Fits(c) ==
    /\ c.pc = "dependents" => c.op = "delete template"
    /\ c.pc \in {"select", "row"} => c.op \in Making
    /\ c.pc = "forget" => c.op \in Deletion
    /\ c.new # None => Known(c) /\ c.op \in Making
    /\ Known(c) => kind[c.vm] \in
                    {"none", IF c.op \in OfTemplates THEN "template" ELSE "instance"}
    /\ Known(c) /\ c.op \in {"define", "delete instance"} => c.clear
    /\ c.pc \in {"mutex", "lock"} \cup Held /\ c.op = "delete template" => c.clear
    /\ c.pc \notin {"lock"} \cup Held => c.stale = 0
    /\ c.op \in Deletion /\ c.pc \notin {"agent", "forget"} =>
        c.at = 1 /\ c.called = 0 /\ ~c.passed

(* What is being made is not listed yet, and nothing lies over it. *)
NewFits(c) == c.new # None =>
    /\ kind[c.new] = "none" /\ c.vm # c.new
    /\ \A w \in Vm : source[w] # c.new

(* What waits for its row is complete; its source has its image, unless it  *)
(* was deleted across the creation.                                         *)
RowFits(c) == c.pc = "row" =>
    /\ c.new \in image /\ domain[c.new] # {}
    /\ c.op = "create" => source[c.new] = c.vm /\ c.vm \in image \cup crossed

(* The loop of a deletion: agents it is past have nothing left, unless they *)
(* were silent or failed once.                                              *)
Looping(c) == c.pc = "agent" /\ c.op \in Deletion

LoopFits(c) == Looping(c) =>
    /\ c.called + 1 <= c.at
    /\ c.passed => c.called + 1 < c.at
    /\ c.passed \/ c.vm \in halfway \/ \A a \in domain[c.vm] : a >= c.at

(* Who deletes a template has seen its instances, or it is crossed. *)
SettledFits(c) ==
    Looping(c) /\ c.op = "delete template" => c.vm \in crossed \/ Dependents(c.vm) = {}

(* An image has a domain somewhere, by which a deletion will find it. *)
Backed(v) == v \in halfway \/ v \notin image \/ domain[v] # {}

(* When vmsMutexMap forgets the mutex of an instance its image is gone. *)
GoneFits(c) == Known(c) =>
    /\ Backed(c.vm)
    /\ c.op \notin OfTemplates /\ (c.pc = "forget" \/ c.stale # 0)
        => c.vm \notin image \/ c.vm \in halfway

RestFits(c) ==
    c.pc = "agent" /\ c.op \in {"define", "delete instance"} /\ c.vm \in running
        => c.slipped \/ c.vm \in halfway

CallFits(c) ==
    /\ Fits(c) /\ NewFits(c) /\ RowFits(c) /\ LoopFits(c)
    /\ SettledFits(c) /\ GoneFits(c) /\ RestFits(c)

(* Two requests agree on what the thing is, know nothing of what the other  *)
(* makes, do not have the same mutex, and if one creates from what the      *)
(* other deletes, each with a mutex, it is crossed.                         *)
PairFits(c, d) ==
    /\ c.new # None => c.new # d.new /\ (d.vm = c.new => ~Known(d))
    /\ c.vm = d.vm /\ Known(c) /\ Known(d) => (c.op \in OfTemplates <=> d.op \in OfTemplates)
    /\ c.vm = d.vm /\ c.pc \in Held /\ d.pc \in Held =>
        /\ c.stale # d.stale
        /\ c.op = "create" /\ d.op = "delete template" => c.vm \in crossed

(* Only templates lie below anything, and no request takes one of them for  *)
(* an instance.                                                             *)
SourcesFit ==
    \A w \in Vm : source[w] # None =>
        /\ kind[source[w]] # "instance"
        /\ \A r \in Request :
            Known(call[r]) /\ call[r].vm = source[w] => call[r].op \in OfTemplates

(* A listed template without its image is being deleted, and an agent was   *)
(* called already.                                                          *)
ListedFit ==
    \A t \in Vm : kind[t] = "template" /\ t \notin halfway /\ t \notin image =>
        \E r \in Request : Looping(call[r]) /\ call[r].vm = t /\ call[r].called # 0

IInv ==
    /\ TypeOK
    /\ \A r \in Request : CallFits(call[r])
    /\ \A r, q \in Request : r # q => PairFits(call[r], call[q])
    /\ \A v \in Vm : kind[v] # "none" => Backed(v)
    /\ SourcesFit
    /\ ListedFit
    /\ InstancesKeepTheirImage

(***************************************************************************)
(* 2. Steps that change requests only.                                     *)
(***************************************************************************)

LEMMA IdleTyped ==
    /\ Idle \in CallType /\ Idle.pc = "idle" /\ Idle.op = "none" /\ Idle.new = None
    /\ Idle.stale = 0 /\ ~Known(Idle) /\ ~Looping(Idle)
BY AgentsAssumption DEF Idle, CallType, Points, Known, Looping

LEMMA IdleFits == CallFits(Idle)
BY IdleTyped DEF CallFits, Fits, NewFits, RowFits, LoopFits, SettledFits, GoneFits,
    RestFits, Held, Deletion, Looping

(* What a request may rely on while the images stay as they are. *)
DataSame ==
    /\ UNCHANGED <<kind, images, running>>
    /\ crossed \subseteq crossed' /\ halfway \subseteq halfway'

LEMMA FitsKept ==
  ASSUME DataSame, NEW r \in Request, call'[r] = call[r], CallFits(call[r])
  PROVE  CallFits(call[r])'
<1> DEFINE c == call[r]
<1>1. Fits(call[r])' /\ NewFits(call[r])'
  BY DEF DataSame, images, CallFits, Fits, NewFits, Known
<1>2. RowFits(call[r])' /\ LoopFits(call[r])'
  BY DEF DataSame, images, CallFits, RowFits, LoopFits, Looping
<1>3. SettledFits(call[r])' /\ RestFits(call[r])'
  BY DEF DataSame, images, CallFits, SettledFits, RestFits, Looping, Dependents
<1>4. GoneFits(call[r])'
  BY DEF DataSame, images, CallFits, GoneFits, Backed, Known
<1> QED
  BY <1>1, <1>2, <1>3, <1>4 DEF CallFits

LEMMA PairKept ==
  ASSUME crossed \subseteq crossed', NEW r \in Request, NEW q \in Request,
         call'[r] = call[r], call'[q] = call[q], PairFits(call[r], call[q])
  PROVE  PairFits(call[r], call[q])'
BY DEF PairFits, Known

(* One request goes on, and fits. *)
LEMMA OneMoves ==
  ASSUME IInv, TypeOK', DataSame, NEW r \in Request,
         \A q \in Request \ {r} : call'[q] = call[q],
         CallFits(call[r])',
         \A q \in Request \ {r} :
            PairFits(call[r], call[q])' /\ PairFits(call[q], call[r])',
         \A w \in Vm : source[w] # None /\ source[w] = call'[r].vm /\ Known(call'[r])
            => call'[r].op \in OfTemplates,
         Looping(call[r]) /\ call[r].called # 0 /\ kind[call[r].vm] = "template" =>
            \/ call[r].vm \in halfway' \cup image
            \/ Looping(call'[r]) /\ call'[r].vm = call[r].vm /\ call'[r].called # 0
  PROVE  IInv'
<1>1. \A q \in Request : CallFits(call[q])'
  BY FitsKept DEF IInv
<1>2. \A q, p \in Request : q # p => PairFits(call[q], call[p])'
  BY PairKept DEF IInv, DataSame
<1>3. \A v \in Vm : kind'[v] # "none" => Backed(v)'
  BY DEF IInv, DataSame, images, Backed
<1>4. SourcesFit'
  BY DEF IInv, DataSame, images, SourcesFit, Known
<1>5. ListedFit'
  <2> SUFFICES ASSUME NEW t \in Vm, kind[t] = "template", t \notin halfway', t \notin image
               PROVE  \E q \in Request :
                        Looping(call'[q]) /\ call'[q].vm = t /\ call'[q].called # 0
    BY DEF ListedFit, DataSame, images, Looping
  <2>1. PICK q \in Request : Looping(call[q]) /\ call[q].vm = t /\ call[q].called # 0
    BY DEF IInv, ListedFit, DataSame
  <2> QED
    BY <2>1
<1>6. InstancesKeepTheirImage'
  BY DEF IInv, DataSame, images, InstancesKeepTheirImage
<1> QED
  BY <1>1, <1>2, <1>3, <1>4, <1>5, <1>6 DEF IInv

(* A request that ends leaves nothing to fit. *)
LEMMA OneEnds ==
  ASSUME IInv, TypeOK', DataSame, NEW r \in Request, End(r),
         Looping(call[r]) /\ call[r].called # 0 /\ kind[call[r].vm] = "template" =>
            call[r].vm \in halfway' \cup image
  PROVE  IInv'
<1>1. call'[r] = Idle /\ \A q \in Request \ {r} : call'[q] = call[q]
  BY DEF End, IInv, TypeOK
<1>2. CallFits(call[r])'
  BY <1>1, IdleTyped DEF CallFits, Fits, NewFits, RowFits, LoopFits, SettledFits, GoneFits,
        RestFits, Held, Deletion, Looping, Known
<1>3. \A q \in Request \ {r} : PairFits(call[r], call[q])' /\ PairFits(call[q], call[r])'
  <2> SUFFICES ASSUME NEW q \in Request \ {r}
               PROVE  PairFits(call[r], call[q])' /\ PairFits(call[q], call[r])'
    OBVIOUS
  <2>1. call'[q] = call[q] /\ PairFits(call[q], call[r]) /\ call[q] \in CallType
    BY <1>1 DEF IInv, TypeOK
  <2>2. call[q].new # None => call[q].new # Idle.new
    BY IdleTyped
  <2> QED
    BY <1>1, <2>1, <2>2, IdleTyped DEF PairFits, Known, Held
<1>4. ~Known(call'[r])
  BY <1>1, IdleTyped
<1> QED
  BY <1>1, <1>2, <1>3, <1>4, OneMoves

(* A request that goes on about the same keeps its terms with the others. *)
LEMMA OneAdvances ==
  ASSUME IInv, TypeOK', DataSame, NEW r \in Request,
         \A q \in Request \ {r} : call'[q] = call[q],
         Known(call[r]), Known(call'[r]),
         call'[r].op = call[r].op, call'[r].vm = call[r].vm, call'[r].new = call[r].new,
         call'[r].stale = call[r].stale,
         call'[r].pc \in Held => call[r].pc \in Held,
         CallFits(call[r])',
         Looping(call[r]) /\ call[r].called # 0 /\ kind[call[r].vm] = "template" =>
            \/ call[r].vm \in halfway' \cup image
            \/ Looping(call'[r]) /\ call'[r].called # 0
  PROVE  IInv'
<1>1. \A q \in Request \ {r} : PairFits(call[r], call[q])' /\ PairFits(call[q], call[r])'
  <2> SUFFICES ASSUME NEW q \in Request \ {r}
               PROVE  PairFits(call[r], call[q])' /\ PairFits(call[q], call[r])'
    OBVIOUS
  <2>1. call'[q] = call[q] /\ PairFits(call[r], call[q]) /\ PairFits(call[q], call[r])
    BY DEF IInv
  <2> QED
    BY <2>1 DEF PairFits, Known, DataSame
<1>2. \A w \in Vm : source[w] # None /\ source[w] = call'[r].vm /\ Known(call'[r])
            => call'[r].op \in OfTemplates
  BY DEF IInv, SourcesFit
<1> QED
  BY <1>1, <1>2, OneMoves

(***************************************************************************)
(* 3. Types.                                                               *)
(***************************************************************************)

(* The second half of TypeOK for one request. *)
Given(c) ==
    /\ c.pc # "idle" => c.op # "none" /\ c.vm \in Vm
    /\ c.op \in Making /\ c.pc # "check" => c.new \in Vm

LEMMA TypeOfOne ==
  ASSUME TypeOK, NEW r \in Request, NEW d \in CallType, Given(d),
         call' = [call EXCEPT ![r] = d],
         kind' \in [Vm -> {"none", "template", "instance"}],
         source' \in [Vm -> Vm \cup {None}],
         image' \subseteq Vm, running' \subseteq Vm,
         domain' \in [Vm -> SUBSET Agent],
         up' \subseteq Agent, crossed' \subseteq Vm, halfway' \subseteq Vm
  PROVE  TypeOK'
<1>1. call' \in [Request -> CallType]
  BY DEF TypeOK
<1>2. ASSUME NEW q \in Request
      PROVE  Given(call'[q])
  BY DEF TypeOK, Given, At, Does, Making
<1> QED
  BY <1>1, <1>2 DEF TypeOK, Given, At, Making

LEMMA TypeOfEnd ==
  ASSUME TypeOK, NEW r \in Request, End(r),
         kind' \in [Vm -> {"none", "template", "instance"}],
         source' \in [Vm -> Vm \cup {None}],
         image' \subseteq Vm, running' \subseteq Vm,
         domain' \in [Vm -> SUBSET Agent],
         up' \subseteq Agent, crossed' \subseteq Vm, halfway' \subseteq Vm
  PROVE  TypeOK'
<1>1. Idle \in CallType /\ Given(Idle)
  BY IdleTyped DEF Given, Making
<1> QED
  BY <1>1, TypeOfOne DEF End

LEMMA PointTyped ==
  ASSUME NEW c \in CallType, NEW pc \in Points
  PROVE  /\ [c EXCEPT !.pc = pc] \in CallType
         /\ \A clear \in BOOLEAN : [c EXCEPT !.pc = pc, !.clear = clear] \in CallType
         /\ \A slipped \in BOOLEAN : [c EXCEPT !.pc = pc, !.slipped = slipped] \in CallType
         /\ \A a \in 1 .. Agents + 1 : [c EXCEPT !.pc = pc, !.at = a] \in CallType
         /\ \A new \in Vm \cup {None}, clear \in BOOLEAN :
                [c EXCEPT !.pc = pc, !.new = new, !.clear = clear] \in CallType
BY DEF CallType

LEMMA CountTyped ==
  ASSUME NEW c \in CallType, NEW a \in 1 .. Agents + 1
  PROVE  /\ \A passed \in BOOLEAN : [c EXCEPT !.at = a, !.passed = passed] \in CallType
         /\ \A n \in 0 .. Agents : [c EXCEPT !.at = a, !.called = n] \in CallType
BY DEF CallType

LEMMA BegunTyped ==
  ASSUME NEW v \in Vm, NEW op \in Op
  PROVE  /\ [Idle EXCEPT !.op = op, !.pc = "check", !.vm = v] \in CallType
         /\ Given([Idle EXCEPT !.op = op, !.pc = "check", !.vm = v])
<1>1. "check" \in Points
  BY DEF Points
<1>2. [Idle EXCEPT !.op = op, !.pc = "check", !.vm = v] \in CallType
  BY <1>1, IdleTyped DEF CallType
<1>3. op # "none"
  BY DEF Op
<1> QED
  BY <1>2, <1>3, IdleTyped DEF Given, Making, CallType

LEMMA TypeOfBefore ==
  ASSUME TypeOK, NEW r \in Request,
         \/ Begin(r) \/ Check(r) \/ CheckDependents(r) \/ SelectServerAgent(r)
         \/ GetVmMutex(r) \/ Lock(r)
  PROVE  TypeOK'
<1> DEFINE c == call[r]
<1>1. c \in CallType /\ (c.pc # "idle" => c.op # "none" /\ c.vm \in Vm)
      /\ (c.op \in Making /\ c.pc # "check" => c.new \in Vm)
  BY DEF TypeOK, At, Making
<1>2. CASE Begin(r)
  <2>1. PICK v \in Vm, op \in Op :
          call' = [call EXCEPT ![r] = [Idle EXCEPT !.op = op, !.pc = "check", !.vm = v]]
    BY <1>2 DEF Begin
  <2> QED
    BY <1>2, <2>1, BegunTyped, TypeOfOne DEF Begin, TypeOK, images, ghosts
<1>3. CASE Check(r)
  <2>1. CASE End(r)
    BY <1>3, <2>1, TypeOfEnd DEF Check, TypeOK, images, ghosts
  <2>2. CASE ~End(r)
    <3>1. PICK new \in IF c.op \in Making THEN {v \in Vm : Fresh(v)} ELSE {None} :
            call' = [call EXCEPT ![r].pc = After(c.op), ![r].new = new,
                                 ![r].clear = c.vm \notin running]
      BY <1>3, <2>2 DEF Check, Making
    <3> DEFINE d == [c EXCEPT !.pc = After(c.op), !.new = new, !.clear = c.vm \notin running]
    <3>2. After(c.op) \in Points /\ new \in Vm \cup {None}
      BY DEF After, Points
    <3>3. d \in CallType
      BY <1>1, <3>2, PointTyped
    <3>4. Given(d)
      <4>1. c.pc = "check" /\ c.op # "none" /\ c.vm \in Vm
        BY <1>1, <1>3 DEF Check, At
      <4>2. d.op = c.op /\ d.vm = c.vm /\ d.new = new
        BY <1>1 DEF CallType
      <4>3. c.op \in Making => new \in Vm
        OBVIOUS
      <4> QED
        BY <4>1, <4>2, <4>3 DEF Given
    <3>5. call' = [call EXCEPT ![r] = d]
      BY <3>1 DEF TypeOK
    <3> HIDE DEF d
    <3> QED
      BY <1>3, <3>3, <3>4, <3>5, TypeOfOne DEF Check, TypeOK, images, ghosts
  <2> QED
    BY <2>1, <2>2
<1>4. CASE CheckDependents(r)
  <2>1. CASE End(r)
    BY <1>4, <2>1, TypeOfEnd DEF CheckDependents, TypeOK, images, ghosts
  <2>2. CASE ~End(r)
    <3> DEFINE d == [c EXCEPT !.pc = "mutex", !.clear = (Dependents(c.vm) = {})]
    <3>1. d \in CallType
      BY <1>1, PointTyped DEF Points
    <3>2. Given(d)
      BY <1>1, <1>4 DEF CheckDependents, At, Given, CallType
    <3>3. call' = [call EXCEPT ![r] = d]
      BY <1>4, <2>2 DEF CheckDependents, TypeOK
    <3> HIDE DEF d
    <3> QED
      BY <1>4, <3>1, <3>2, <3>3, TypeOfOne DEF CheckDependents, TypeOK, images, ghosts
  <2> QED
    BY <2>1, <2>2
<1>5. CASE SelectServerAgent(r)
  <2>1. CASE End(r)
    BY <1>5, <2>1, TypeOfEnd DEF SelectServerAgent, TypeOK, images, ghosts
  <2>2. CASE ~End(r)
    <3>1. PICK a \in up : call' = [call EXCEPT ![r].pc = "mutex", ![r].at = a]
      BY <1>5, <2>2 DEF SelectServerAgent, Selected
    <3> DEFINE d == [c EXCEPT !.pc = "mutex", !.at = a]
    <3>2. a \in 1 .. Agents + 1
      BY AgentsAssumption DEF TypeOK, Agent
    <3>3. d \in CallType
      BY <1>1, <3>2, PointTyped DEF Points
    <3>4. Given(d)
      BY <1>1, <1>5 DEF SelectServerAgent, At, Given, CallType
    <3>5. call' = [call EXCEPT ![r] = d]
      BY <3>1 DEF TypeOK
    <3> HIDE DEF d
    <3> QED
      BY <1>5, <3>3, <3>4, <3>5, TypeOfOne DEF SelectServerAgent, TypeOK, images, ghosts
  <2> QED
    BY <2>1, <2>2
<1>6. CASE GetVmMutex(r)
  <2> DEFINE d == [c EXCEPT !.pc = "lock"]
  <2>1. d \in CallType
    BY <1>1, PointTyped DEF Points
  <2>2. Given(d)
    BY <1>1, <1>6 DEF GetVmMutex, At, Given, CallType
  <2>3. call' = [call EXCEPT ![r] = d]
    BY <1>6 DEF GetVmMutex, TypeOK
  <2> HIDE DEF d
  <2> QED
    BY <1>6, <2>1, <2>2, <2>3, TypeOfOne DEF GetVmMutex, TypeOK, images, ghosts
<1>7. CASE Lock(r)
  <2> DEFINE d == [c EXCEPT !.pc = "agent", !.slipped = (c.clear /\ c.vm \in running)]
  <2>1. d \in CallType
    BY <1>1, PointTyped DEF Points
  <2>2. Given(d)
    BY <1>1, <1>7 DEF Lock, At, Given, CallType
  <2>3. call' = [call EXCEPT ![r] = d]
    BY <1>7 DEF Lock, TypeOK
  <2>4. c.vm \in Vm
    BY <1>1, <1>7 DEF Lock, At
  <2> HIDE DEF d
  <2>5. crossed' \subseteq Vm
    BY <1>7, <2>4 DEF Lock, TypeOK
  <2> QED
    BY <1>7, <2>1, <2>2, <2>3, <2>5, TypeOfOne DEF Lock, TypeOK, images
<1> QED
  BY <1>2, <1>3, <1>4, <1>5, <1>6, <1>7

LEMMA UnderMutex ==
  ASSUME TypeOK, NEW r \in Request, call[r].pc \in Held
  PROVE  /\ call[r] \in CallType /\ Given(call[r]) /\ Known(call[r])
         /\ call[r].vm \in Vm /\ call[r].op \in Op
BY DEF TypeOK, At, Making, Given, Held, Known, CallType

LEMMA TypeOfMaking ==
  ASSUME TypeOK, IInv, NEW r \in Request, AgentCreate(r) \/ AddVm(r)
  PROVE  TypeOK'
<1> DEFINE c == call[r]
<1>1. c \in CallType /\ Given(c) /\ c.vm \in Vm /\ c.new \in Vm /\ c.pc # "check"
  <2>1. c.pc \in Held
    BY DEF AgentCreate, AddVm, At, Held
  <2>2. c.op \in Making
    BY DEF AgentCreate, AddVm, At, Making, IInv, CallFits, Fits
  <2> QED
    BY <2>1, <2>2, UnderMutex DEF Given, Held
<1>2. CASE AgentCreate(r)
  <2>1. source' \in [Vm -> Vm \cup {None}] /\ image' \subseteq Vm /\ domain' \in [Vm -> SUBSET Agent]
    BY <1>1, <1>2 DEF AgentCreate, TypeOK, images
  <2>2. CASE End(r)
    BY <1>2, <2>1, <2>2, TypeOfEnd DEF AgentCreate, TypeOK, ghosts
  <2>3. CASE ~End(r)
    <3> DEFINE d == [c EXCEPT !.pc = "row"]
    <3>1. d \in CallType
      BY <1>1, PointTyped DEF Points
    <3>2. Given(d)
      BY <1>1, <1>2 DEF AgentCreate, At, Given, CallType
    <3>3. call' = [call EXCEPT ![r] = d]
      BY <1>2, <2>3 DEF AgentCreate, TypeOK
    <3> HIDE DEF d
    <3> QED
      BY <1>2, <2>1, <3>1, <3>2, <3>3, TypeOfOne DEF AgentCreate, TypeOK, ghosts
  <2> QED
    BY <2>2, <2>3
<1>3. CASE AddVm(r)
  <2>1. kind' \in [Vm -> {"none", "template", "instance"}]
    BY <1>1, <1>3 DEF AddVm, TypeOK
  <2> QED
    BY <1>3, <2>1, TypeOfEnd DEF AddVm, TypeOK, images, ghosts
<1> QED
  BY <1>2, <1>3

LEMMA TypeOfDeleting ==
  ASSUME TypeOK, IInv, NEW r \in Request,
         Skip(r) \/ AgentDelete(r) \/ AgentDeleteFails(r) \/ FinishDelete(r)
  PROVE  TypeOK'
<1> DEFINE c == call[r]
<1>1. /\ Deletes(r) /\ c \in CallType /\ Given(c) /\ c.vm \in Vm
      /\ c.op # "none" /\ c.op \notin Making
  <2>1. Deletes(r) /\ c.pc \in Held
    BY DEF Skip, AgentDelete, AgentDeleteFails, FinishDelete, Deletes, At, Held
  <2> QED
    BY <2>1, UnderMutex DEF Deletes, Deletion, Making
<1>2. c.called + 1 <= c.at /\ c.called \in Nat
  BY <1>1 DEF IInv, CallFits, LoopFits, Looping, Deletes, At, CallType
<1>3. CASE Skip(r) \/ AgentDelete(r)
  <2>1. c.at \in Agent /\ c.at + 1 \in 1 .. Agents + 1 /\ c.called + 1 \in 0 .. Agents
    BY <1>1, <1>2, <1>3, AgentsAssumption DEF Skip, AgentDelete, Agent, TypeOK
  <2>2. PICK d \in CallType : Given(d) /\ call' = [call EXCEPT ![r] = d]
    <3>1. CASE Skip(r)
      <4> DEFINE p == c.passed \/ c.at \in domain[c.vm]
                 d == [c EXCEPT !.at = c.at + 1, !.passed = p]
      <4>1. p \in BOOLEAN
        BY <1>1 DEF CallType
      <4>2. d \in CallType
        BY <1>1, <2>1, <4>1, CountTyped
      <4>3. Given(d)
        BY <1>1 DEF Given, CallType, Making
      <4>4. call' = [call EXCEPT ![r] = d]
        BY <3>1 DEF Skip, TypeOK
      <4> QED
        BY <4>2, <4>3, <4>4
    <3>2. CASE AgentDelete(r)
      <4> DEFINE d == [c EXCEPT !.at = c.at + 1, !.called = c.called + 1]
      <4>1. d \in CallType
        BY <1>1, <2>1, CountTyped
      <4>2. Given(d)
        BY <1>1 DEF Given, CallType, Making
      <4>3. call' = [call EXCEPT ![r] = d]
        BY <3>2 DEF AgentDelete, TypeOK
      <4> QED
        BY <4>1, <4>2, <4>3
    <3> QED
      BY <1>3, <3>1, <3>2
  <2>3. image' \subseteq Vm /\ domain' \in [Vm -> SUBSET Agent]
    BY <1>1, <1>3 DEF Skip, AgentDelete, Removed, TypeOK, images
  <2>4. UNCHANGED <<kind, source, running, up, crossed, halfway>>
    BY <1>3 DEF Skip, AgentDelete, images, ghosts
  <2>5. /\ kind' \in [Vm -> {"none", "template", "instance"}]
        /\ source' \in [Vm -> Vm \cup {None}]
        /\ running' \subseteq Vm /\ up' \subseteq Agent
        /\ crossed' \subseteq Vm /\ halfway' \subseteq Vm
    BY <2>4 DEF TypeOK
  <2> HIDE DEF c
  <2> QED
    BY <2>2, <2>3, <2>5, TypeOfOne
<1>4. CASE AgentDeleteFails(r)
  <2>1. /\ image' \subseteq Vm /\ domain' \in [Vm -> SUBSET Agent] /\ halfway' \subseteq Vm
    BY <1>1, <1>4 DEF AgentDeleteFails, Removed, TypeOK
  <2> QED
    BY <1>4, <2>1, TypeOfEnd DEF AgentDeleteFails, TypeOK
<1>5. CASE FinishDelete(r)
  <2>1. CASE End(r) /\ UNCHANGED kind
    BY <1>5, <2>1, TypeOfEnd DEF FinishDelete, TypeOK, images, ghosts
  <2>2. CASE ~(End(r) /\ UNCHANGED kind)
    <3> DEFINE d == [c EXCEPT !.pc = "forget"]
    <3>1. d \in CallType
      BY <1>1, PointTyped DEF Points
    <3>2. Given(d)
      BY <1>1 DEF Given, CallType, Making
    <3>3. call' = [call EXCEPT ![r] = d] /\ kind' = [kind EXCEPT ![c.vm] = "none"]
      BY <1>5, <2>2 DEF FinishDelete, TypeOK
    <3>4. kind' \in [Vm -> {"none", "template", "instance"}]
      BY <1>1, <3>3 DEF TypeOK
    <3> HIDE DEF d
    <3> QED
      BY <1>5, <3>1, <3>2, <3>3, <3>4, TypeOfOne DEF FinishDelete, TypeOK, images, ghosts
  <2> QED
    BY <2>1, <2>2
<1> QED
  BY <1>3, <1>4, <1>5

LEMMA StaleTyped ==
  ASSUME NEW c \in CallType
  PROVE  /\ [c EXCEPT !.stale = @ + 1] \in CallType
         /\ \A d : d = [c EXCEPT !.stale = @ + 1] =>
                /\ d.op = c.op /\ d.pc = c.pc /\ d.vm = c.vm /\ d.new = c.new
                /\ d.at = c.at /\ d.called = c.called /\ d.stale = c.stale + 1
                /\ (d.passed <=> c.passed) /\ (d.clear <=> c.clear) /\ (d.slipped <=> c.slipped)
BY DEF CallType

LEMMA TypeOfOther ==
  ASSUME TypeOK, NEW r \in Request,
         DeleteVmMutex(r) \/ AgentStart(r)
  PROVE  TypeOK'
<1>1. CASE DeleteVmMutex(r)
  <2>1. ASSUME NEW q \in Request
        PROVE  call'[q] \in CallType /\ Given(call'[q])
    <3>1. call[q] \in CallType /\ Given(call[q])
      BY DEF TypeOK, Given, At, Making
    <3>2. call'[q] \in {Idle, call[q], [call[q] EXCEPT !.stale = @ + 1]}
      BY <1>1 DEF DeleteVmMutex
    <3> QED
      BY <3>1, <3>2, IdleTyped, StaleTyped DEF Given, Making
  <2>2. call' \in [Request -> CallType]
    BY <1>1, <2>1 DEF DeleteVmMutex
  <2> QED
    BY <1>1, <2>1, <2>2 DEF DeleteVmMutex, TypeOK, images, ghosts, Given, At, Making
<1>2. CASE AgentStart(r)
  <2>1. call[r].vm \in Vm
    BY <1>2, UnderMutex DEF AgentStart, At, Held
  <2>2. running' \subseteq Vm /\ domain' \in [Vm -> SUBSET Agent]
    BY <1>2, <2>1 DEF AgentStart, TypeOK
  <2> QED
    BY <1>2, <2>2, TypeOfEnd DEF AgentStart, TypeOK, ghosts
<1> QED
  BY <1>1, <1>2

LEMMA TypeKept ==
  ASSUME TypeOK, IInv, [Next]_vars
  PROVE  TypeOK'
<1>1. CASE UNCHANGED vars
  BY <1>1 DEF vars, images, ghosts, TypeOK, At
<1>2. ASSUME NEW v \in Vm, ShutOff(v) PROVE TypeOK'
  BY <1>2 DEF ShutOff, TypeOK, images, ghosts, At
<1>3. ASSUME NEW a \in Agent, AgentSilent(a) \/ AgentBack(a) PROVE TypeOK'
  BY <1>3 DEF AgentSilent, AgentBack, TypeOK, images, ghosts, At
<1> QED
  BY <1>1, <1>2, <1>3, TypeOfBefore, TypeOfMaking, TypeOfDeleting, TypeOfOther DEF Next

(***************************************************************************)
(* 4. Every step keeps the invariant: before the mutex.                    *)
(***************************************************************************)

LEMMA Initially ==
  ASSUME Init
  PROVE  IInv
<1>1. TypeOK
  <2>1. \A r \in Request : call[r] = Idle
    BY DEF Init
  <2>2. call \in [Request -> CallType]
    BY IdleTyped DEF Init
  <2>3. kind \in [Vm -> {"none", "template", "instance"}] /\ source \in [Vm -> Vm \cup {None}]
        /\ image \subseteq Vm /\ running \subseteq Vm /\ up \subseteq Agent
        /\ crossed \subseteq Vm /\ halfway \subseteq Vm
    BY DEF Init
  <2>4. domain \in [Vm -> SUBSET Agent]
    BY DEF Init
  <2> QED
    BY <2>1, <2>2, <2>3, <2>4, IdleTyped DEF TypeOK, At
<1>2. \A r \in Request : call[r] = Idle
  BY DEF Init
<1>3. \A r \in Request : CallFits(call[r])
  BY <1>2, IdleFits
<1>4. \A r, q \in Request : r # q => PairFits(call[r], call[q])
  BY <1>2, IdleTyped DEF PairFits, Held
<1>5. \A v \in Vm : kind[v] # "none" => Backed(v)
  <2> SUFFICES ASSUME NEW v \in Vm, kind[v] # "none" PROVE domain[v] # {}
    BY DEF Backed
  <2>1. PICK home \in [Vm -> Agent] :
          domain = [w \in Vm |-> IF w \in image THEN {home[w]} ELSE {}]
    BY DEF Init
  <2>2. v \in image
    BY DEF Init
  <2> QED
    BY <2>1, <2>2
<1>6. SourcesFit
  BY <1>2, IdleTyped DEF Init, SourcesFit
<1>7. ListedFit
  BY DEF Init, ListedFit
<1>8. InstancesKeepTheirImage
  BY DEF Init, InstancesKeepTheirImage
<1> QED
  BY <1>1, <1>3, <1>4, <1>5, <1>6, <1>7, <1>8 DEF IInv

LEMMA BeginKeeps ==
  ASSUME IInv, TypeOK', NEW r \in Request, Begin(r)
  PROVE  IInv'
<1>1. PICK v \in Vm, op \in Op :
        call' = [call EXCEPT ![r] = [Idle EXCEPT !.op = op, !.pc = "check", !.vm = v]]
  BY DEF Begin
<1>2. /\ call'[r].pc = "check" /\ call'[r].vm = v /\ call'[r].new = None
      /\ call'[r].stale = 0 /\ call'[r].at = 1 /\ call'[r].called = 0 /\ ~call'[r].passed
      /\ \A q \in Request \ {r} : call'[q] = call[q]
  BY <1>1 DEF IInv, TypeOK, Idle
<1>3. DataSame
  BY DEF Begin, DataSame, images, ghosts
<1>4. CallFits(call[r])'
  BY <1>2 DEF CallFits, Fits, NewFits, RowFits, LoopFits, SettledFits, GoneFits,
        RestFits, Held, Deletion, Looping, Known
<1>5. \A q \in Request \ {r} : PairFits(call[r], call[q])' /\ PairFits(call[q], call[r])'
  <2> SUFFICES ASSUME NEW q \in Request \ {r}
               PROVE  PairFits(call[r], call[q])' /\ PairFits(call[q], call[r])'
    OBVIOUS
  <2>1. call'[q] = call[q]
    BY <1>2
  <2> QED
    BY <1>2, <2>1 DEF PairFits, Known, Held
<1>6. ~Known(call'[r]) /\ ~Looping(call[r])
  BY <1>2 DEF Known, Looping, Begin, At
<1> QED
  BY <1>2, <1>3, <1>4, <1>5, <1>6, OneMoves

LEMMA CheckKeeps ==
  ASSUME IInv, TypeOK', NEW r \in Request, Check(r)
  PROVE  IInv'
<1> DEFINE c == call[r]
<1>1. DataSame
  BY DEF Check, DataSame, images, ghosts
<1>2. c \in CallType /\ c.vm \in Vm /\ c.op \in Op /\ c.pc = "check" /\ ~Looping(c)
  BY DEF Check, At, IInv, TypeOK, CallType, Looping
<1>3. CASE End(r)
  BY <1>1, <1>2, <1>3, OneEnds
<1>4. CASE ~End(r)
  <2>1. PICK new \in IF c.op \in Making THEN {v \in Vm : Fresh(v)} ELSE {None} :
          call' = [call EXCEPT ![r].pc = After(c.op), ![r].new = new,
                               ![r].clear = c.vm \notin running]
    BY <1>4 DEF Check, Making
  <2>2. Admissible(c.op, c.vm)
    BY <1>4 DEF Check
  <2>3. /\ call'[r].pc = After(c.op) /\ call'[r].op = c.op /\ call'[r].vm = c.vm /\ call'[r].new = new
        /\ call'[r].stale = c.stale /\ call'[r].at = c.at /\ call'[r].called = c.called
        /\ call'[r].passed <=> c.passed
        /\ call'[r].clear <=> c.vm \notin running
        /\ \A q \in Request \ {r} : call'[q] = call[q]
    BY <1>2, <2>1 DEF IInv, TypeOK, CallType
  <2>4. /\ c.stale = 0
        /\ c.op \in Deletion => c.at = 1 /\ c.called = 0 /\ ~c.passed
    BY <1>2 DEF IInv, CallFits, Fits, Held
  <2>5. /\ call'[r].pc \in {"dependents", "select", "mutex"}
        /\ call'[r].pc = "dependents" => c.op = "delete template"
        /\ call'[r].pc = "select" => c.op \in Making
        /\ call'[r].pc = "mutex" => c.op # "delete template"
    BY <2>3 DEF After, Making
  <2>6. /\ new # None => c.op \in Making /\ new \in Vm /\ Fresh(new)
    BY <2>1
  <2>7. kind[c.vm] = IF c.op \in OfTemplates THEN "template" ELSE "instance"
    BY <2>2 DEF Admissible, OfTemplates
  <2>8. c.op \in {"define", "delete instance"} => call'[r].clear
    BY <2>2, <2>3 DEF Admissible
  <2>9. Backed(c.vm) /\ \A w \in Vm : source[w] = c.vm => c.op \in OfTemplates
    BY <1>2, <2>7, NoneAssumption DEF IInv, SourcesFit, OfTemplates
  <2>10. CallFits(call[r])'
    <3>1. Fits(call[r])'
      BY <1>1, <2>3, <2>4, <2>5, <2>6, <2>7, <2>8 DEF Fits, DataSame, Held, Deletion, Making, Known
    <3>2. NewFits(call[r])'
      BY <1>1, <2>3, <2>6 DEF NewFits, Fresh, DataSame, images
    <3>3. GoneFits(call[r])'
      BY <1>1, <2>3, <2>4, <2>5, <2>9 DEF GoneFits, Backed, DataSame, images
    <3> QED
      BY <2>3, <2>5, <3>1, <3>2, <3>3 DEF CallFits, RowFits, LoopFits, SettledFits, RestFits, Looping
  <2>11. ASSUME NEW q \in Request \ {r}
         PROVE  PairFits(call[r], call[q])' /\ PairFits(call[q], call[r])'
    <3>1. call'[q] = call[q] /\ call[q] \in CallType /\ Fits(call[q]) /\ NewFits(call[q])
      BY <2>3 DEF IInv, TypeOK, CallFits
    <3>2. new # None => new # call[q].new /\ new # call[q].vm
      BY <2>6 DEF Fresh
    <3>3. call[q].new # None => new # call[q].new /\ c.vm # call[q].new
      BY <2>7, <3>1, <3>2 DEF NewFits
    <3>4. call[q].vm = c.vm /\ Known(call[q]) =>
            (c.op \in OfTemplates <=> call[q].op \in OfTemplates)
      BY <2>7, <3>1 DEF Fits
    <3>5. call'[r].pc \notin Held
      BY <2>3, <2>5 DEF Held
    <3> HIDE DEF c
    <3>6. call'[r].op = c.op /\ call'[r].vm = c.vm /\ call'[r].new = new /\ call'[q] = call[q]
      BY <2>3, <3>1
    <3> QED
      BY <3>2, <3>3, <3>4, <3>5, <3>6 DEF PairFits, Known
  <2> QED
    BY <1>1, <1>2, <2>3, <2>9, <2>10, <2>11, OneMoves
<1> QED
  BY <1>3, <1>4

LEMMA DependentsKeep ==
  ASSUME IInv, TypeOK', NEW r \in Request, CheckDependents(r)
  PROVE  IInv'
<1>1. DataSame
  BY DEF CheckDependents, DataSame, images, ghosts
<1>2. call[r] \in CallType /\ call[r].pc = "dependents" /\ ~Looping(call[r]) /\ Known(call[r])
  BY DEF CheckDependents, At, IInv, TypeOK, Looping, Known
<1>3. CASE End(r)
  BY <1>1, <1>2, <1>3, OneEnds
<1>4. CASE ~End(r)
  <2>1. /\ call'[r].pc = "mutex" /\ call'[r].clear
        /\ call'[r].op = call[r].op /\ call'[r].vm = call[r].vm /\ call'[r].new = call[r].new
        /\ call'[r].stale = call[r].stale /\ call'[r].at = call[r].at
        /\ call'[r].called = call[r].called /\ (call'[r].passed <=> call[r].passed)
        /\ \A q \in Request \ {r} : call'[q] = call[q]
    BY <1>2, <1>4 DEF CheckDependents, VmHasInstancesThatDependOnIt, IInv, TypeOK, CallType
  <2>2. CallFits(call[r])'
    <3>1. CallFits(call[r])
      BY DEF IInv
    <3> QED
      BY <1>1, <1>2, <2>1, <3>1 DEF CallFits, Fits, NewFits, RowFits, LoopFits, SettledFits,
            GoneFits, RestFits, Held, Looping, Known, Backed, DataSame, images
  <2> QED
    BY <1>1, <1>2, <2>1, <2>2, OneAdvances DEF Known, Held
<1> QED
  BY <1>3, <1>4

LEMMA SelectKeeps ==
  ASSUME IInv, TypeOK', NEW r \in Request, SelectServerAgent(r) \/ GetVmMutex(r)
  PROVE  IInv'
<1>1. DataSame
  BY DEF SelectServerAgent, GetVmMutex, DataSame, images, ghosts
<1>2. /\ call[r] \in CallType /\ call[r].pc \in {"select", "mutex"}
      /\ call[r].pc = "mutex" => ~SelectServerAgent(r)
      /\ ~Looping(call[r]) /\ Known(call[r])
  BY DEF SelectServerAgent, GetVmMutex, At, IInv, TypeOK, Looping, Known
<1>3. CASE End(r)
  BY <1>1, <1>2, <1>3, OneEnds
<1>4. CASE ~End(r)
  <2>1. /\ call'[r].pc \in {"mutex", "lock"}
        /\ call[r].pc = "mutex" => call'[r].at = call[r].at
        /\ call'[r].op = call[r].op /\ call'[r].vm = call[r].vm /\ call'[r].new = call[r].new
        /\ call'[r].stale = call[r].stale /\ (call'[r].clear <=> call[r].clear)
        /\ call'[r].called = call[r].called /\ (call'[r].passed <=> call[r].passed)
        /\ \A q \in Request \ {r} : call'[q] = call[q]
    BY <1>2, <1>4 DEF SelectServerAgent, GetVmMutex, At, IInv, TypeOK, CallType
  <2>2. CallFits(call[r])'
    <3>1. CallFits(call[r])
      BY DEF IInv
    <3> QED
      BY <1>1, <1>2, <2>1, <3>1 DEF CallFits, Fits, NewFits, RowFits, LoopFits, SettledFits,
            GoneFits, RestFits, Held, Looping, Known, Backed, DataSame, images, Making, Deletion
  <2> QED
    BY <1>1, <1>2, <2>1, <2>2, OneAdvances DEF Known, Held
<1> QED
  BY <1>3, <1>4

LEMMA LockKeeps ==
  ASSUME IInv, TypeOK', NEW r \in Request, Lock(r)
  PROVE  IInv'
<1>1. DataSame
  BY DEF Lock, DataSame, images
<1>2. /\ call[r] \in CallType /\ call[r].pc = "lock" /\ call[r].vm \in Vm
      /\ ~Looping(call[r]) /\ Known(call[r])
  BY DEF Lock, At, IInv, TypeOK, Looping, Known
<1>3. /\ call'[r].pc = "agent"
      /\ call'[r].op = call[r].op /\ call'[r].vm = call[r].vm /\ call'[r].new = call[r].new
      /\ call'[r].stale = call[r].stale /\ call'[r].at = call[r].at
      /\ call'[r].called = call[r].called /\ (call'[r].passed <=> call[r].passed)
      /\ call'[r].clear <=> call[r].clear
      /\ call'[r].slipped <=> (call[r].clear /\ call[r].vm \in running)
      /\ \A q \in Request \ {r} : call'[q] = call[q]
  BY <1>2 DEF Lock, IInv, TypeOK, CallType
<1>4. CallFits(call[r]) /\ Fits(call[r])
  BY DEF IInv, CallFits
<1>5. CallFits(call[r])'
  <2>1. Fits(call[r])' /\ NewFits(call[r])' /\ RowFits(call[r])'
    BY <1>1, <1>2, <1>3, <1>4 DEF CallFits, Fits, NewFits, RowFits, Held, Known, DataSame, images
  <2>2. LoopFits(call[r])'
    <3>1. call[r].op \in Deletion => call[r].at = 1 /\ call[r].called = 0 /\ ~call[r].passed
      BY <1>2, <1>4 DEF Fits
    <3>2. \A a \in domain'[call[r].vm] : a >= 1
      BY <1>2, AgentsAssumption DEF TypeOK, Agent
    <3> QED
      BY <1>3, <3>1, <3>2 DEF LoopFits, Looping
  <2>3. SettledFits(call[r])'
    <3> SUFFICES ASSUME call[r].op = "delete template", call[r].vm \notin crossed'
                 PROVE  Dependents(call[r].vm) = {}
      BY <1>1, <1>3 DEF SettledFits, Dependents, DataSame, images
    <3>1. call[r].clear
      BY <1>2, <1>4 DEF Fits
    <3> QED
      BY <1>2, <3>1 DEF Lock, Does, IInv, TypeOK
  <2>4. GoneFits(call[r])'
    BY <1>1, <1>2, <1>3, <1>4 DEF CallFits, GoneFits, Known, Backed, DataSame, images
  <2>5. RestFits(call[r])'
    BY <1>1, <1>2, <1>3, <1>4 DEF Fits, RestFits, DataSame, Known
  <2> QED
    BY <2>1, <2>2, <2>3, <2>4, <2>5 DEF CallFits
<1>6. ASSUME NEW q \in Request \ {r}
      PROVE  PairFits(call[r], call[q])' /\ PairFits(call[q], call[r])'
  <2>1. call'[q] = call[q] /\ PairFits(call[r], call[q]) /\ PairFits(call[q], call[r])
    BY <1>3 DEF IInv
  <2>2. call[q].vm = call[r].vm /\ call[q].pc \in Held => call[q].stale # call[r].stale
    BY DEF Lock, MutexFree
  <2>3. call[q].vm = call[r].vm /\ call[q].pc \in Held
        /\ {call[q].op, call[r].op} = {"create", "delete template"} => call[r].vm \in crossed'
    BY <2>2 DEF Lock, OtherMutex
  <2> QED
    BY <1>1, <1>2, <1>3, <2>1, <2>2, <2>3 DEF PairFits, Known, DataSame
<1>7. \A w \in Vm : source[w] # None /\ source[w] = call'[r].vm => call'[r].op \in OfTemplates
  BY <1>2, <1>3 DEF IInv, SourcesFit
<1> QED
  BY <1>1, <1>2, <1>3, <1>5, <1>6, <1>7, OneMoves

(***************************************************************************)
(* 5. Every step keeps the invariant: making.                              *)
(***************************************************************************)

(* What is being made is unknown to everyone else. *)
LEMMA Unknown ==
  ASSUME IInv, NEW r \in Request, call[r].new # None, Known(call[r])
  PROVE  /\ call[r].vm # call[r].new /\ kind[call[r].new] = "none"
         /\ \A w \in Vm : source[w] # call[r].new
         /\ \A q \in Request \ {r} :
              /\ (call[q].new # call[r].new /\ call[q].new # call[r].vm) \/ call[q].new = None
              /\ Known(call[q]) => call[q].vm # call[r].new
<1>1. NewFits(call[r]) /\ \A q \in Request \ {r} :
            PairFits(call[r], call[q]) /\ PairFits(call[q], call[r])
  BY DEF IInv, CallFits
<1> QED
  BY <1>1 DEF NewFits, PairFits

LEMMA CreateKeeps ==
  ASSUME IInv, TypeOK', NEW r \in Request, AgentCreate(r)
  PROVE  IInv'
<1> DEFINE c == call[r]  v == call[r].vm  n == call[r].new
<1>1. /\ c \in CallType /\ c.pc = "agent" /\ c.op \in Making /\ v \in Vm /\ n \in Vm
      /\ Known(c) /\ ~Looping(c) /\ n # None /\ v # None
  BY NoneAssumption DEF AgentCreate, At, IInv, TypeOK, Making, Known, Looping, Deletion
<1>2. UNCHANGED <<kind, running, crossed, halfway>> /\ \A q \in Request \ {r} : call'[q] = call[q]
  BY DEF AgentCreate, ghosts, IInv, TypeOK, End
<1>3. /\ image' \in {image, image \cup {n}}
      /\ \A w \in Vm \ {n} : source'[w] = source[w] /\ domain'[w] = domain[w]
      /\ source'[n] \in {source[n], None, v}
      /\ source'[n] = v /\ source[n] # v => c.op = "create"
  BY <1>1 DEF AgentCreate, images, Does, IInv, TypeOK
<1>4. /\ v # n /\ kind[n] = "none" /\ \A w \in Vm : source[w] # n
      /\ \A q \in Request \ {r} :
              /\ (call[q].new # n /\ call[q].new # v) \/ call[q].new = None
              /\ Known(call[q]) => call[q].vm # n
  BY <1>1, Unknown
<1>5. \A q \in Request : CallFits(call[q]) /\ (Known(call[q]) => call[q].vm \in Vm)
  BY DEF IInv, TypeOK, At, Known
<1>6. \A w \in Vm : Dependents(w)' = Dependents(w)
  BY <1>2, <1>3, <1>4 DEF Dependents
<1> HIDE DEF c, v, n
<1>7. ASSUME NEW q \in Request \ {r}
      PROVE  CallFits(call[q])'
  <2>1. Fits(call[q])' /\ RestFits(call[q])'
    BY <1>2, <1>5 DEF CallFits, Fits, RestFits, Known
  <2>2. NewFits(call[q])'
    <3>1. call[q].new # None => \A w \in Vm : source'[w] # call[q].new
      BY <1>3, <1>4, <1>5 DEF CallFits, NewFits
    <3> QED
      BY <1>2, <1>5, <3>1 DEF CallFits, NewFits
  <2>3. RowFits(call[q])'
    <3>1. call[q].pc = "row" => call[q].new \in Vm /\ call[q].new # n
      <4>1. call[q].pc = "row" => call[q].op \in Making
        BY <1>5 DEF CallFits, Fits
      <4>2. call[q].pc = "row" => call[q].new \in Vm
        BY <4>1 DEF IInv, TypeOK, At, Making
      <4> QED
        BY <1>4, <4>2, NoneAssumption
    <3> QED
      BY <1>2, <1>3, <1>5, <3>1 DEF CallFits, RowFits
  <2>4. LoopFits(call[q])'
    BY <1>2, <1>3, <1>4, <1>5 DEF CallFits, LoopFits, Looping, Known
  <2>5. SettledFits(call[q])'
    BY <1>2, <1>5, <1>6 DEF CallFits, SettledFits, Looping, Known
  <2>6. GoneFits(call[q])'
    BY <1>2, <1>3, <1>4, <1>5 DEF CallFits, GoneFits, Known, Backed
  <2> QED
    BY <2>1, <2>2, <2>3, <2>4, <2>5, <2>6 DEF CallFits
<1>8. \A w \in Vm : kind'[w] # "none" => Backed(w)'
  BY <1>2, <1>3, <1>4 DEF IInv, Backed
<1>9. InstancesKeepTheirImage'
  BY <1>2, <1>3, <1>4 DEF IInv, InstancesKeepTheirImage
<1>10. ListedFit'
  <2> SUFFICES ASSUME NEW t \in Vm, kind[t] = "template", t \notin halfway, t \notin image
               PROVE  \E q \in Request :
                        Looping(call'[q]) /\ call'[q].vm = t /\ call'[q].called # 0
    BY <1>2, <1>3 DEF ListedFit, Looping
  <2>1. PICK q \in Request : Looping(call[q]) /\ call[q].vm = t /\ call[q].called # 0
    BY DEF IInv, ListedFit
  <2> QED
    BY <1>1, <1>2, <2>1 DEF c
<1>11. \A w \in Vm : source'[w] # None =>
        /\ kind[source'[w]] # "instance"
        /\ \A q \in Request : Known(call[q]) /\ call[q].vm = source'[w] => call[q].op \in OfTemplates
  <2>1. \A w \in Vm \ {n} : source'[w] = source[w]
    BY <1>3
  <2>2. source'[n] = v /\ source[n] # v =>
            /\ kind[v] # "instance"
            /\ \A q \in Request : Known(call[q]) /\ call[q].vm = v => call[q].op \in OfTemplates
    <3> SUFFICES ASSUME c.op = "create"
                 PROVE  /\ kind[v] # "instance"
                        /\ \A q \in Request :
                            Known(call[q]) /\ call[q].vm = v => call[q].op \in OfTemplates
      BY <1>3
    <3>1. kind[v] # "instance"
      BY <1>1, <1>5 DEF c, v, CallFits, Fits, OfTemplates
    <3>2. ASSUME NEW q \in Request \ {r}, Known(call[q]), call[q].vm = v
          PROVE  call[q].op \in OfTemplates
      <4>1. PairFits(call[r], call[q])
        BY DEF IInv
      <4> QED
        BY <1>1, <3>2, <4>1 DEF PairFits, c, v, OfTemplates
    <3> QED
      BY <3>1, <3>2 DEF c, OfTemplates
  <2>3. SourcesFit
    BY DEF IInv
  <2> QED
    BY <1>1, <1>3, <2>1, <2>2, <2>3 DEF SourcesFit
<1>12. CASE End(r)
  <2>1. call'[r] = Idle
    BY <1>12 DEF End, IInv, TypeOK
  <2>2. CallFits(call[r])'
    BY <2>1, IdleTyped DEF CallFits, Fits, NewFits, RowFits, LoopFits, SettledFits, GoneFits,
        RestFits, Held, Deletion, Looping, Known
  <2>3. ASSUME NEW q \in Request, NEW p \in Request, q # p
        PROVE  PairFits(call[q], call[p])'
    <3>1. call'[q] \in {call[q], Idle} /\ call'[p] \in {call[p], Idle} /\ PairFits(call[q], call[p])
      BY <1>2, <2>1, <2>3 DEF IInv
    <3> QED
      BY <1>2, <3>1, IdleTyped DEF PairFits, Known, Held
  <2>4. SourcesFit'
    BY <1>2, <1>11, <2>1, IdleTyped DEF SourcesFit
  <2> QED
    BY <1>7, <1>8, <1>9, <1>10, <2>2, <2>3, <2>4 DEF IInv
<1>13. CASE ~End(r)
  <2>1. /\ call'[r].pc = "row"
        /\ call'[r].op = c.op /\ call'[r].vm = v /\ call'[r].new = n
        /\ call'[r].stale = c.stale /\ (call'[r].clear <=> c.clear)
        /\ n \in image' /\ v \in image' /\ domain'[n] # {}
        /\ c.op = "create" => source'[n] = v
    <3>1. /\ n \in image' /\ v \in image /\ domain'[n] # {}
          /\ source' = [source EXCEPT ![n] = IF c.op = "create" THEN v ELSE None]
          /\ call' = [call EXCEPT ![r].pc = "row"]
      <4>1. /\ image' = image \cup {n} /\ v \in image
            /\ source' = [source EXCEPT ![n] = IF c.op = "create" THEN v ELSE None]
            /\ domain' = [domain EXCEPT ![n] = {c.at}]
            /\ call' = [call EXCEPT ![r].pc = "row"]
        BY <1>13 DEF AgentCreate, Does, c, v, n
      <4>2. n \in DOMAIN domain
        BY <1>1 DEF IInv, TypeOK
      <4> QED
        BY <4>1, <4>2
    <3>2. v \in image' /\ (c.op = "create" => source'[n] = v)
      BY <1>1, <1>3, <3>1 DEF IInv, TypeOK
    <3> QED
      BY <1>1, <3>1, <3>2 DEF c, v, n, IInv, TypeOK, CallType
  <2>2. CallFits(call[r])'
    <3>1. Fits(call[r])'
      BY <1>1, <1>2, <1>5, <2>1 DEF c, v, n, CallFits, Fits, Known, Held, Making, Deletion
    <3>2. NewFits(call[r])'
      BY <1>2, <1>3, <1>4, <2>1 DEF NewFits
    <3>3. GoneFits(call[r])'
      <4>1. GoneFits(c)
        BY <1>5 DEF c, CallFits
      <4>2. domain'[v] = domain[v] /\ (v \in image' => v \in image)
        BY <1>1, <1>3, <1>4
      <4> QED
        BY <1>1, <1>2, <2>1, <4>1, <4>2 DEF GoneFits, Backed, Known, c, v
    <3> QED
      BY <2>1, <3>1, <3>2, <3>3 DEF CallFits, RowFits, LoopFits, SettledFits, RestFits, Looping
  <2>3. ASSUME NEW q \in Request, NEW p \in Request, q # p
        PROVE  PairFits(call[q], call[p])'
    <3>1. PairFits(call[q], call[p])
      BY <2>3 DEF IInv
    <3>2. ASSUME NEW x \in Request
          PROVE  /\ call'[x].op = call[x].op /\ call'[x].vm = call[x].vm
                 /\ call'[x].new = call[x].new /\ call'[x].stale = call[x].stale
                 /\ call'[x].pc \in Held => call[x].pc \in Held
                 /\ Known(call'[x]) => Known(call[x])
      BY <1>1, <1>2, <2>1 DEF c, v, n, Held, Known
    <3> QED
      BY <1>2, <3>1, <3>2 DEF PairFits
  <2>4. SourcesFit'
    BY <1>1, <1>2, <1>11, <2>1 DEF SourcesFit, Known, c, v
  <2> QED
    BY <1>7, <1>8, <1>9, <1>10, <2>2, <2>3, <2>4 DEF IInv
<1> QED
  BY <1>12, <1>13

LEMMA AddKeeps ==
  ASSUME IInv, TypeOK', NEW r \in Request, AddVm(r)
  PROVE  IInv'
<1> DEFINE n == call[r].new  v == call[r].vm
<1>1. call[r].pc = "row" /\ Known(call[r]) /\ call[r].op \in Making /\ CallFits(call[r])
  BY DEF AddVm, At, IInv, CallFits, Fits, Known
<1>2. n \in Vm /\ n # None /\ v \in Vm /\ v # None
  BY <1>1, NoneAssumption DEF IInv, TypeOK, At, Making
<1>3. /\ call'[r] = Idle /\ \A q \in Request \ {r} : call'[q] = call[q]
      /\ UNCHANGED <<source, image, domain, running, crossed, halfway>>
      /\ kind'[n] = IF call[r].op = "create" THEN "instance" ELSE "template"
      /\ \A w \in Vm \ {n} : kind'[w] = kind[w]
  BY <1>2 DEF AddVm, End, Does, images, ghosts, IInv, TypeOK
<1>4. /\ v # n /\ kind[n] = "none" /\ \A w \in Vm : source[w] # n
      /\ \A q \in Request \ {r} :
              /\ (call[q].new # n /\ call[q].new # v) \/ call[q].new = None
              /\ Known(call[q]) => call[q].vm # n
  BY <1>1, <1>2, Unknown
<1>5. n \in image /\ domain[n] # {}
      /\ (call[r].op = "create" => source[n] = v /\ v \in image \cup crossed)
  BY <1>1 DEF CallFits, RowFits
<1>6. ASSUME NEW q \in Request \ {r}
      PROVE  CallFits(call[q])'
  <2>1. call'[q] = call[q] /\ CallFits(call[q])
        /\ (Known(call[q]) => call[q].vm \in Vm /\ call[q].vm # n) /\ call[q].new \in Vm \cup {None}
    BY <1>3, <1>4 DEF IInv, TypeOK, At, Known, CallType
  <2>2. Fits(call[q])'
    BY <1>3, <2>1 DEF CallFits, Fits, Known
  <2>3. NewFits(call[q])'
    BY <1>2, <1>3, <1>4, <2>1 DEF CallFits, NewFits
  <2>4. SettledFits(call[q])'
    <3> SUFFICES ASSUME Looping(call[q]), call[q].op = "delete template", call[q].vm \notin crossed
                 PROVE  Dependents(call[q].vm)' = {}
      BY <1>3, <2>1 DEF SettledFits, Looping, Dependents
    <3>1. Dependents(call[q].vm) = {} /\ Known(call[q])
      BY <2>1 DEF CallFits, SettledFits, Looping, Known
    <3>2. call[r].op = "create" => v # call[q].vm
      <4>1. PairFits(call[r], call[q])
        BY DEF IInv
      <4> QED
        BY <1>1, <4>1 DEF PairFits, Held, Looping
    <3>3. ASSUME NEW w \in Vm, kind'[w] = "instance", source[w] = call[q].vm
          PROVE  FALSE
      BY <1>3, <1>5, <3>1, <3>2, <3>3 DEF Dependents
    <3> QED
      BY <1>3, <2>1, <3>3 DEF Dependents
  <2>5. RowFits(call[q])' /\ LoopFits(call[q])' /\ RestFits(call[q])'
    BY <1>3, <2>1 DEF CallFits, RowFits, LoopFits, RestFits, Looping
  <2>6. GoneFits(call[q])'
    BY <1>3, <2>1 DEF CallFits, GoneFits, Backed, Known
  <2> QED
    BY <2>2, <2>3, <2>4, <2>5, <2>6 DEF CallFits
<1>7. CallFits(call[r])'
  BY <1>3, IdleTyped DEF CallFits, Fits, NewFits, RowFits, LoopFits, SettledFits, GoneFits,
        RestFits, Held, Deletion, Looping, Known
<1>8. ASSUME NEW q \in Request, NEW p \in Request, q # p
      PROVE  PairFits(call[q], call[p])'
  <2>1. call'[q] \in {call[q], Idle} /\ call'[p] \in {call[p], Idle} /\ PairFits(call[q], call[p])
    BY <1>3, <1>8 DEF IInv
  <2> QED
    BY <1>3, <2>1, IdleTyped DEF PairFits, Known, Held
<1>9. \A w \in Vm : kind'[w] # "none" => Backed(w)'
  BY <1>3, <1>5 DEF IInv, Backed
<1>10. SourcesFit'
  BY <1>3, <1>4, IdleTyped DEF IInv, SourcesFit, TypeOK
<1>11. ListedFit'
  <2> SUFFICES ASSUME NEW t \in Vm, kind'[t] = "template", t \notin halfway, t \notin image
               PROVE  \E q \in Request :
                        Looping(call'[q]) /\ call'[q].vm = t /\ call'[q].called # 0
    BY <1>3 DEF ListedFit, Looping
  <2>1. t # n /\ kind[t] = "template"
    BY <1>3, <1>5
  <2>2. PICK q \in Request : Looping(call[q]) /\ call[q].vm = t /\ call[q].called # 0
    BY <2>1 DEF IInv, ListedFit
  <2> QED
    BY <1>1, <1>3, <2>2 DEF Looping
<1>12. InstancesKeepTheirImage'
  BY <1>3, <1>4, <1>5 DEF IInv, InstancesKeepTheirImage
<1> QED
  BY <1>6, <1>7, <1>8, <1>9, <1>10, <1>11, <1>12 DEF IInv

(***************************************************************************)
(* 6. Every step keeps the invariant: deleting and starting.               *)
(***************************************************************************)

LEMMA InDeletion ==
  ASSUME IInv, NEW r \in Request, Deletes(r)
  PROVE  /\ call[r] \in CallType /\ CallFits(call[r]) /\ Known(call[r]) /\ Looping(call[r])
         /\ call[r].pc = "agent" /\ call[r].op \in Deletion /\ call[r].new = None
         /\ call[r].vm \in Vm /\ call[r].at \in Nat /\ call[r].called \in Nat
<1>1. call[r] \in CallType /\ CallFits(call[r]) /\ call[r].pc = "agent" /\ call[r].op \in Deletion
  BY DEF IInv, TypeOK, Deletes, At
<1>2. call[r].op \notin Making
  BY <1>1 DEF Deletion, Making
<1>3. call[r].vm \in Vm
  BY <1>1 DEF IInv, TypeOK, At
<1>4. call[r].at \in Nat /\ call[r].called \in Nat
  BY <1>1, AgentsAssumption DEF CallType
<1>5. call[r].new = None
  BY <1>1, <1>2 DEF CallFits, Fits
<1> QED
  BY <1>1, <1>3, <1>4, <1>5 DEF Known, Looping

LEMMA SkipKeeps ==
  ASSUME IInv, TypeOK', NEW r \in Request, Skip(r)
  PROVE  IInv'
<1>1. /\ call[r] \in CallType /\ CallFits(call[r]) /\ Known(call[r]) /\ Looping(call[r])
      /\ call[r].pc = "agent" /\ call[r].op \in Deletion
      /\ call[r].vm \in Vm /\ call[r].at \in Nat /\ call[r].called \in Nat
  BY InDeletion DEF Skip
<1>2. DataSame
  BY DEF Skip, DataSame, images, ghosts
<1>3. /\ call'[r].pc = "agent" /\ call'[r].at = call[r].at + 1
      /\ call'[r].op = call[r].op /\ call'[r].vm = call[r].vm /\ call'[r].new = call[r].new
      /\ call'[r].stale = call[r].stale /\ call'[r].called = call[r].called
      /\ call'[r].passed <=> (call[r].passed \/ call[r].at \in domain[call[r].vm])
      /\ call'[r].clear <=> call[r].clear
      /\ call'[r].slipped <=> call[r].slipped
      /\ \A q \in Request \ {r} : call'[q] = call[q]
  BY <1>1 DEF Skip, IInv, TypeOK, CallType
<1>4. CallFits(call[r])'
  <2>1. Fits(call[r])' /\ NewFits(call[r])' /\ RowFits(call[r])' /\ RestFits(call[r])'
    BY <1>1, <1>2, <1>3 DEF CallFits, Fits, NewFits, RowFits, RestFits, Known, DataSame, images
  <2>2. LoopFits(call[r])'
    <3>1. call[r].called + 1 <= call[r].at
      BY <1>1 DEF CallFits, LoopFits
    <3>2. call'[r].passed \/ call[r].vm \in halfway
            \/ \A a \in domain[call[r].vm] : a >= call[r].at + 1
      <4> SUFFICES ASSUME ~call'[r].passed, call[r].vm \notin halfway,
                          NEW a \in domain[call[r].vm]
                   PROVE  a >= call[r].at + 1
        OBVIOUS
      <4>1. a \in Nat
        BY <1>1, AgentsAssumption DEF IInv, TypeOK, Agent
      <4>2. a >= call[r].at /\ a # call[r].at
        BY <1>1, <1>3 DEF CallFits, LoopFits
      <4> QED
        BY <1>1, <4>1, <4>2
    <3> QED
      BY <1>1, <1>2, <1>3, <3>1, <3>2 DEF LoopFits, Looping, DataSame, images
  <2>3. SettledFits(call[r])' /\ GoneFits(call[r])'
    BY <1>1, <1>2, <1>3 DEF CallFits, SettledFits, GoneFits, Looping, Known, Backed, Dependents,
        DataSame, images
  <2> QED
    BY <2>1, <2>2, <2>3 DEF CallFits
<1> QED
  BY <1>1, <1>2, <1>3, <1>4, OneAdvances DEF Known, Looping

(* What a deletion under way does to the data: the image may go, some       *)
(* domains may, and when one does and the image does not it is halfway.     *)
Shrinks(v) ==
    /\ UNCHANGED <<kind, source, running, crossed>>
    /\ halfway \subseteq halfway'
    /\ image' \in {image, image \ {v}}
    /\ \A w \in Vm \ {v} : domain'[w] = domain[w]
    /\ domain'[v] \subseteq domain[v]
    /\ v \notin image' \/ v \in halfway' \/ domain'[v] = domain[v]

LEMMA OthersFit ==
  ASSUME IInv, NEW r \in Request, Deletes(r), Shrinks(call[r].vm),
         NEW q \in Request \ {r}, call'[q] = call[q]
  PROVE  CallFits(call[q])'
<1> DEFINE v == call[r].vm
<1>1. Known(call[r]) /\ v \in Vm /\ call[r].pc \in Held /\ call[r].op \in Deletion
  BY InDeletion DEF Held
<1>2. PairFits(call[q], call[r]) /\ CallFits(call[q]) /\ (Known(call[q]) => call[q].vm \in Vm)
  BY DEF IInv, TypeOK, At, Known
<1> HIDE DEF v
<1>3. Shrinks(v)
  BY DEF v
<1>4. Fits(call[q])' /\ NewFits(call[q])' /\ RestFits(call[q])'
  BY <1>2, <1>3 DEF Shrinks, CallFits, Fits, NewFits, RestFits, Known
<1>5. RowFits(call[q])'
  <2> SUFFICES ASSUME call[q].pc = "row"
               PROVE  /\ call[q].new \in image' /\ domain'[call[q].new] # {}
                      /\ call[q].op = "create" =>
                            source[call[q].new] = call[q].vm /\ call[q].vm \in image' \cup crossed
    BY <1>3 DEF RowFits, Shrinks
  <2>1. RowFits(call[q]) /\ call[q].op \in Making /\ Known(call[q])
    BY <1>2 DEF CallFits, Fits, Known
  <2>2. call[q].new \in Vm /\ call[q].new # None
    BY <2>1, NoneAssumption DEF IInv, TypeOK, At, Making
  <2>3. call[q].new # v
    BY <1>1, <1>2, <2>2 DEF PairFits, v
  <2>4. call[q].op = "create" /\ call[q].vm = v => v \in crossed
    BY <1>1, <1>2, <2>1 DEF PairFits, Held, Deletion, OfTemplates, v
  <2> QED
    BY <1>3, <2>1, <2>2, <2>3, <2>4 DEF Shrinks, RowFits
<1>6. LoopFits(call[q])'
  BY <1>2, <1>3 DEF Shrinks, CallFits, LoopFits, Looping, Known
<1>7. SettledFits(call[q])'
  BY <1>2, <1>3 DEF Shrinks, CallFits, SettledFits, Looping, Dependents
<1>8. GoneFits(call[q])'
  BY <1>2, <1>3 DEF Shrinks, CallFits, GoneFits, Backed, Known
<1> QED
  BY <1>4, <1>5, <1>6, <1>7, <1>8 DEF CallFits

LEMMA DataFits ==
  ASSUME IInv, NEW r \in Request, Deletes(r), Shrinks(call[r].vm)
  PROVE  /\ \A v \in Vm : kind'[v] # "none" => Backed(v)'
         /\ InstancesKeepTheirImage'
<1>1. \A v \in Vm : kind'[v] # "none" => Backed(v)'
  BY DEF IInv, Backed, Shrinks
<1>2. ASSUME NEW w \in Vm, kind[w] = "instance", source[w] = call[r].vm
      PROVE  call[r].vm \in crossed
  <2>1. /\ call[r].op \in Deletion /\ Known(call[r]) /\ Looping(call[r])
        /\ call[r].vm # None /\ SettledFits(call[r])
    BY InDeletion, NoneAssumption DEF CallFits
  <2>2. call[r].op \in OfTemplates
    BY <1>2, <2>1 DEF IInv, SourcesFit
  <2> QED
    BY <1>2, <2>1, <2>2 DEF SettledFits, Dependents, Deletion, OfTemplates
<1>3. InstancesKeepTheirImage'
  BY <1>2 DEF IInv, InstancesKeepTheirImage, Shrinks
<1> QED
  BY <1>1, <1>3

LEMMA DeleteKeeps ==
  ASSUME IInv, TypeOK', NEW r \in Request, AgentDelete(r)
  PROVE  IInv'
<1> DEFINE v == call[r].vm
<1>1. /\ call[r] \in CallType /\ CallFits(call[r]) /\ Known(call[r]) /\ Looping(call[r])
      /\ call[r].pc = "agent" /\ call[r].op \in Deletion /\ call[r].new = None
      /\ v \in Vm /\ call[r].at \in Nat /\ call[r].called \in Nat /\ Deletes(r)
  BY InDeletion DEF AgentDelete
<1>2. /\ call'[r].pc = "agent" /\ call'[r].at = call[r].at + 1
      /\ call'[r].op = call[r].op /\ call'[r].vm = v /\ call'[r].new = call[r].new
      /\ call'[r].stale = call[r].stale /\ call'[r].called = call[r].called + 1
      /\ call'[r].passed <=> call[r].passed
      /\ call'[r].clear <=> call[r].clear
      /\ call'[r].slipped <=> call[r].slipped
      /\ \A q \in Request \ {r} : call'[q] = call[q]
  BY <1>1 DEF AgentDelete, IInv, TypeOK, CallType
<1>3. /\ UNCHANGED <<kind, source, running, crossed, halfway>>
      /\ image' = IF call[r].at \in domain[v] THEN image \ {v} ELSE image
      /\ domain' = [domain EXCEPT ![v] = @ \ {call[r].at}]
  BY DEF AgentDelete, Removed, ghosts
<1>4. domain'[v] = domain[v] \ {call[r].at} /\ \A w \in Vm \ {v} : domain'[w] = domain[w]
  BY <1>1, <1>3 DEF IInv, TypeOK
<1>5. Shrinks(v)
  BY <1>3, <1>4 DEF Shrinks
<1> HIDE DEF v
<1>6. \A q \in Request \ {r} : CallFits(call[q])'
  BY <1>1, <1>2, <1>5, OthersFit DEF v
<1>7. CallFits(call[r])'
  <2>1. Fits(call[r])' /\ NewFits(call[r])' /\ RowFits(call[r])' /\ RestFits(call[r])'
    BY <1>1, <1>2, <1>3 DEF CallFits, Fits, NewFits, RowFits, RestFits, Known, v
  <2>2. LoopFits(call[r])'
    <3>1. LoopFits(call[r])
      BY <1>1 DEF CallFits
    <3>2. domain[v] \subseteq Nat
      BY <1>1, AgentsAssumption DEF IInv, TypeOK, Agent
    <3>3. \A a \in Nat : a >= call[r].at /\ a # call[r].at => a >= call[r].at + 1
      BY <1>1
    <3>4. call[r].passed \/ v \in halfway \/ \A a \in domain'[v] : a >= call[r].at + 1
      BY <1>1, <1>4, <3>1, <3>2, <3>3 DEF LoopFits, v
    <3> QED
      BY <1>1, <1>2, <1>3, <3>1, <3>4 DEF LoopFits, Looping
  <2>3. SettledFits(call[r])'
    BY <1>1, <1>2, <1>3 DEF CallFits, SettledFits, Looping, Dependents, v
  <2>4. GoneFits(call[r])'
    BY <1>1, <1>2, <1>3, <1>4 DEF CallFits, GoneFits, Backed, Known, v
  <2> QED
    BY <2>1, <2>2, <2>3, <2>4 DEF CallFits
<1>8. ASSUME NEW q \in Request, NEW p \in Request, q # p
      PROVE  PairFits(call[q], call[p])'
  <2>1. PairFits(call[q], call[p])
    BY <1>8 DEF IInv
  <2>2. ASSUME NEW x \in Request
        PROVE  /\ call'[x].op = call[x].op /\ call'[x].vm = call[x].vm
               /\ call'[x].new = call[x].new /\ call'[x].stale = call[x].stale
               /\ call'[x].pc = call[x].pc
    BY <1>1, <1>2 DEF v
  <2> QED
    BY <1>3, <2>1, <2>2 DEF PairFits, Known
<1>9. SourcesFit'
  <2>1. \A x \in Request : call'[x].op = call[x].op /\ call'[x].vm = call[x].vm /\ call'[x].pc = call[x].pc
    BY <1>1, <1>2 DEF v
  <2> QED
    BY <1>3, <2>1 DEF IInv, SourcesFit, Known
<1>10. ListedFit'
  <2> SUFFICES ASSUME NEW t \in Vm, kind[t] = "template", t \notin halfway, t \notin image'
               PROVE  \E q \in Request :
                        Looping(call'[q]) /\ call'[q].vm = t /\ call'[q].called # 0
    BY <1>3 DEF ListedFit, Looping
  <2>1. CASE t = v
    BY <1>1, <1>2, <2>1 DEF Looping
  <2>2. CASE t # v
    <3>1. PICK q \in Request : Looping(call[q]) /\ call[q].vm = t /\ call[q].called # 0
      BY <1>3, <2>2 DEF IInv, ListedFit
    <3> QED
      BY <1>2, <2>2, <3>1 DEF v
  <2> QED
    BY <2>1, <2>2
<1> QED
  BY <1>1, <1>5, <1>6, <1>7, <1>8, <1>9, <1>10, DataFits DEF IInv, v

LEMMA DeleteFailureKeeps ==
  ASSUME IInv, TypeOK', NEW r \in Request, AgentDeleteFails(r)
  PROVE  IInv'
<1> DEFINE v == call[r].vm
<1>1. call[r] \in CallType /\ Known(call[r]) /\ v \in Vm /\ Deletes(r)
  BY InDeletion DEF AgentDeleteFails
<1>2. /\ call'[r] = Idle /\ \A q \in Request \ {r} : call'[q] = call[q]
      /\ UNCHANGED <<kind, source, running, crossed>>
  BY DEF AgentDeleteFails, End, IInv, TypeOK
<1>3. Shrinks(v) /\ (v \notin image' => v \in halfway')
  <2>1. CASE /\ domain' = [domain EXCEPT ![v] = @ \ {call[r].at}]
             /\ image' \in {image, image \ {v}} /\ halfway' = halfway \cup {v}
    <3>1. domain'[v] = domain[v] \ {call[r].at} /\ \A w \in Vm \ {v} : domain'[w] = domain[w]
      BY <1>1, <2>1 DEF IInv, TypeOK
    <3> QED
      BY <1>2, <2>1, <3>1 DEF Shrinks
  <2>2. CASE /\ UNCHANGED <<domain, image>>
             /\ halfway' = IF v \in image THEN halfway ELSE halfway \cup {v}
    BY <1>2, <2>2 DEF Shrinks
  <2> QED
    BY <2>1, <2>2 DEF AgentDeleteFails, Removed
<1>4. CallFits(call[r])'
  BY <1>2, IdleTyped DEF CallFits, Fits, NewFits, RowFits, LoopFits, SettledFits, GoneFits,
        RestFits, Held, Deletion, Looping, Known
<1>5. \A q \in Request \ {r} : CallFits(call[q])'
  BY <1>1, <1>2, <1>3, OthersFit
<1>6. ASSUME NEW q \in Request, NEW p \in Request, q # p
      PROVE  PairFits(call[q], call[p])'
  <2>1. call'[q] \in {call[q], Idle} /\ call'[p] \in {call[p], Idle} /\ PairFits(call[q], call[p])
    BY <1>2, <1>6 DEF IInv
  <2> QED
    BY <1>2, <2>1, IdleTyped DEF PairFits, Known, Held
<1>7. SourcesFit'
  BY <1>2, IdleTyped DEF IInv, SourcesFit
<1>8. ListedFit'
  <2> SUFFICES ASSUME NEW t \in Vm, kind[t] = "template", t \notin halfway', t \notin image'
               PROVE  \E q \in Request :
                        Looping(call'[q]) /\ call'[q].vm = t /\ call'[q].called # 0
    BY <1>2 DEF ListedFit, Looping
  <2>1. t # v /\ t \notin image /\ t \notin halfway
    BY <1>3 DEF Shrinks
  <2>2. PICK q \in Request : Looping(call[q]) /\ call[q].vm = t /\ call[q].called # 0
    BY <2>1 DEF IInv, ListedFit
  <2> QED
    BY <1>2, <2>1, <2>2
<1> QED
  BY <1>1, <1>3, <1>4, <1>5, <1>6, <1>7, <1>8, DataFits DEF IInv

(* When a deletion gets through to the row. *)
Through(r) ==
    /\ call[r].at = Agents + 1
    /\ EnoughCalled(call[r].op, call[r].called)

LEMMA NothingBehind ==
  ASSUME IInv, NEW r \in Request, Deletes(r), Through(r), ~call[r].passed,
         call[r].vm \notin halfway
  PROVE  call[r].vm \notin image /\ domain[call[r].vm] = {}
<1> DEFINE v == call[r].vm
<1>1. CallFits(call[r]) /\ Known(call[r]) /\ Looping(call[r]) /\ v \in Vm
  BY InDeletion
<1>2. \A a \in domain[v] : a >= Agents + 1 /\ a \in 1 .. Agents
  BY <1>1 DEF CallFits, LoopFits, Through, IInv, TypeOK, Agent
<1>3. domain[v] = {}
  BY <1>2, AgentsAssumption
<1> QED
  BY <1>1, <1>3 DEF CallFits, GoneFits, Backed

LEMMA FinishKeeps ==
  ASSUME IInv, TypeOK', NEW r \in Request, FinishDelete(r)
  PROVE  IInv'
<1> DEFINE v == call[r].vm
<1>1. /\ call[r] \in CallType /\ CallFits(call[r]) /\ Known(call[r]) /\ Looping(call[r])
      /\ call[r].pc = "agent" /\ call[r].op \in Deletion /\ call[r].new = None
      /\ v \in Vm /\ call[r].at \in Nat /\ call[r].called \in Nat /\ Deletes(r)
  BY InDeletion DEF FinishDelete
<1>2. CASE End(r) /\ UNCHANGED kind
  <2>1. DataSame
    BY <1>2 DEF FinishDelete, DataSame, ghosts, images
  <2>2. call[r].called # 0 => kind[v] # "template"
    <3>1. call[r].op = "delete template" => call[r].called = 0 \/ ~End(r)
      <4> SUFFICES ASSUME call[r].op = "delete template", call[r].called # 0, End(r)
                   PROVE  FALSE
        OBVIOUS
      <4>1. call' = [call EXCEPT ![r].pc = "forget"]
        BY <1>1 DEF FinishDelete, EnoughCalled, Does
      <4>2. call'[r].pc = "forget"
        BY <1>1, <4>1 DEF IInv, TypeOK, CallType
      <4>3. call'[r] = Idle
        BY DEF End, IInv, TypeOK
      <4> QED
        BY <4>2, <4>3, IdleTyped
    <3>2. call[r].op = "delete instance" => kind[v] # "template"
      BY <1>1 DEF CallFits, Fits, OfTemplates
    <3> QED
      BY <1>1, <1>2, <3>1, <3>2 DEF Deletion
  <2> QED
    BY <1>2, <2>1, <2>2, OneEnds
<1>3. CASE ~(End(r) /\ UNCHANGED kind)
  <2>1. /\ Through(r)
        /\ kind' = [kind EXCEPT ![v] = "none"]
        /\ call' = [call EXCEPT ![r].pc = "forget"]
    BY <1>3 DEF FinishDelete, Through
  <2>2. /\ call'[r].pc = "forget"
        /\ call'[r].op = call[r].op /\ call'[r].vm = v /\ call'[r].new = call[r].new
        /\ call'[r].stale = call[r].stale /\ (call'[r].clear <=> call[r].clear)
        /\ \A q \in Request \ {r} : call'[q] = call[q]
    BY <1>1, <2>1 DEF IInv, TypeOK, CallType
  <2>3. /\ UNCHANGED <<source, image, domain, running, crossed, halfway>>
        /\ kind'[v] = "none"
        /\ \A w \in Vm : kind'[w] \in {kind[w], "none"}
        /\ \A w \in Vm \ {v} : kind'[w] = kind[w]
    BY <1>1, <2>1 DEF FinishDelete, images, ghosts, IInv, TypeOK
  <2> HIDE DEF v
  <2>4. ASSUME NEW q \in Request \ {r}
        PROVE  CallFits(call[q])'
    <3>1. call'[q] = call[q] /\ CallFits(call[q]) /\ (Known(call[q]) => call[q].vm \in Vm)
          /\ call[q].new \in Vm \cup {None}
      BY <2>2 DEF IInv, TypeOK, At, Known, CallType
    <3>2. Fits(call[q])'
      BY <2>3, <3>1 DEF CallFits, Fits, Known
    <3>3. NewFits(call[q])'
      BY <2>3, <3>1 DEF CallFits, NewFits
    <3>4. SettledFits(call[q])'
      <4>1. Looping(call[q]) => Known(call[q])
        BY DEF Looping, Known
      <4>2. \A x \in Vm : Dependents(x)' \subseteq Dependents(x)
        BY <2>3 DEF Dependents
      <4> QED
        BY <2>3, <3>1, <4>1, <4>2 DEF CallFits, SettledFits, Looping
    <3>5. RowFits(call[q])' /\ LoopFits(call[q])' /\ RestFits(call[q])'
      BY <2>3, <3>1 DEF CallFits, RowFits, LoopFits, RestFits, Looping
    <3>6. GoneFits(call[q])'
      BY <2>3, <3>1 DEF CallFits, GoneFits, Backed, Known
    <3> QED
      BY <3>2, <3>3, <3>4, <3>5, <3>6 DEF CallFits
  <2>5. CallFits(call[r])'
    <3>1. Fits(call[r])' /\ NewFits(call[r])'
      BY <1>1, <2>2, <2>3 DEF CallFits, Fits, NewFits, Known, Held, v
    <3>2. call[r].op \notin OfTemplates => v \notin image \/ v \in halfway
      <4> SUFFICES ASSUME call[r].op \notin OfTemplates, v \notin halfway
                   PROVE  v \notin image
        OBVIOUS
      <4>1. call[r].called = Agents /\ call[r].at = Agents + 1
        BY <2>1 DEF Through, EnoughCalled, OfTemplates
      <4>2. ~call[r].passed
        BY <1>1, <4>1, AgentsAssumption DEF CallFits, LoopFits
      <4> QED
        BY <1>1, <2>1, <4>2, NothingBehind DEF v
    <3>3. GoneFits(call[r])'
      BY <1>1, <2>2, <2>3, <3>2 DEF CallFits, GoneFits, Backed, Known, v
    <3> QED
      BY <2>2, <3>1, <3>3 DEF CallFits, RowFits, LoopFits, SettledFits, RestFits, Looping
  <2>6. ASSUME NEW x \in Request
        PROVE  /\ call'[x].op = call[x].op /\ call'[x].vm = call[x].vm
               /\ call'[x].new = call[x].new /\ call'[x].stale = call[x].stale
               /\ call'[x].pc \in Held => call[x].pc \in Held
               /\ Known(call'[x]) => Known(call[x])
    BY <1>1, <2>2 DEF v, Held, Known
  <2>7. ASSUME NEW q \in Request, NEW p \in Request, q # p
        PROVE  PairFits(call[q], call[p])'
    <3>1. PairFits(call[q], call[p])
      BY <2>7 DEF IInv
    <3> QED
      BY <2>3, <2>6, <3>1 DEF PairFits
  <2>8. \A w \in Vm : kind'[w] # "none" => Backed(w)'
    BY <2>3 DEF IInv, Backed
  <2>9. SourcesFit'
    BY <2>3, <2>6 DEF IInv, SourcesFit, TypeOK
  <2>10. ListedFit'
    <3> SUFFICES ASSUME NEW t \in Vm, kind'[t] = "template", t \notin halfway, t \notin image
                 PROVE  \E q \in Request :
                          Looping(call'[q]) /\ call'[q].vm = t /\ call'[q].called # 0
      BY <2>3 DEF ListedFit, Looping
    <3>1. t # v /\ kind[t] = "template"
      BY <2>3
    <3>2. PICK q \in Request : Looping(call[q]) /\ call[q].vm = t /\ call[q].called # 0
      BY <3>1 DEF IInv, ListedFit
    <3> QED
      BY <2>2, <3>1, <3>2 DEF v
  <2>11. InstancesKeepTheirImage'
    BY <2>3 DEF IInv, InstancesKeepTheirImage
  <2> QED
    BY <2>4, <2>5, <2>7, <2>8, <2>9, <2>10, <2>11 DEF IInv
<1> QED
  BY <1>2, <1>3

LEMMA ForgetKeeps ==
  ASSUME IInv, TypeOK', NEW r \in Request, DeleteVmMutex(r)
  PROVE  IInv'
<1> DEFINE v == call[r].vm
           Told(q) == call[q].vm = v /\ call[q].pc \in Held \cup {"lock"}
<1>1. /\ call[r].pc = "forget" /\ Known(call[r]) /\ ~Looping(call[r])
      /\ CallFits(call[r]) /\ call[r].op \in Deletion
  BY DEF DeleteVmMutex, At, IInv, CallFits, Fits, Known, Looping
<1>2. UNCHANGED <<kind, source, image, domain, running, crossed, halfway>>
  BY DEF DeleteVmMutex, images, ghosts
<1>3. call'[r] = Idle
  BY DEF DeleteVmMutex
<1>4. ASSUME NEW q \in Request \ {r}
      PROVE  /\ call'[q].op = call[q].op /\ call'[q].pc = call[q].pc /\ call'[q].vm = call[q].vm
             /\ call'[q].new = call[q].new /\ call'[q].at = call[q].at
             /\ call'[q].called = call[q].called
             /\ call'[q].passed <=> call[q].passed
             /\ call'[q].clear <=> call[q].clear
             /\ call'[q].slipped <=> call[q].slipped
             /\ call'[q].stale = IF Told(q) THEN call[q].stale + 1 ELSE call[q].stale
  <2>1. call[q] \in CallType
    BY DEF IInv, TypeOK
  <2>2. call'[q] = IF Told(q) THEN [call[q] EXCEPT !.stale = @ + 1] ELSE call[q]
    BY DEF DeleteVmMutex
  <2> QED
    BY <2>1, <2>2, StaleTyped
<1>5. ASSUME NEW q \in Request \ {r}
      PROVE  CallFits(call[q])'
  <2>1. CallFits(call[q])
    BY DEF IInv
  <2>2. Fits(call[q])' /\ NewFits(call[q])' /\ RestFits(call[q])'
    BY <1>2, <1>4, <2>1 DEF CallFits, Fits, NewFits, RestFits, Known
  <2>3. RowFits(call[q])' /\ LoopFits(call[q])' /\ SettledFits(call[q])'
    BY <1>2, <1>4, <2>1 DEF CallFits, RowFits, LoopFits, SettledFits, Looping, Dependents
  <2>4. Told(q) /\ call[q].op \notin OfTemplates => v \notin image \/ v \in halfway
    <3>1. PairFits(call[q], call[r])
      BY DEF IInv
    <3>2. Told(q) /\ call[q].op \notin OfTemplates => call[r].op \notin OfTemplates
      BY <1>1, <3>1 DEF PairFits, Known, Held
    <3> QED
      BY <1>1, <3>2 DEF CallFits, GoneFits
  <2>5. GoneFits(call[q])'
    BY <1>2, <1>4, <2>1, <2>4 DEF CallFits, GoneFits, Backed, Known
  <2> QED
    BY <2>2, <2>3, <2>5 DEF CallFits
<1>6. CallFits(call[r])'
  BY <1>3, IdleTyped DEF CallFits, Fits, NewFits, RowFits, LoopFits, SettledFits, GoneFits,
        RestFits, Held, Deletion, Looping, Known
<1>7. ASSUME NEW q \in Request, NEW p \in Request, q # p
      PROVE  PairFits(call[q], call[p])'
  <2>1. PairFits(call[q], call[p])
    BY <1>7 DEF IInv
  <2>2. CASE q = r
    <3>1. call'[q].new = None /\ ~Known(call'[q]) /\ call'[q].pc \notin Held
      BY <1>3, <2>2, IdleTyped DEF Held
    <3> QED
      BY <3>1 DEF PairFits
  <2>3. CASE p = r
    <3>1. call'[p].new = None /\ ~Known(call'[p]) /\ call'[p].pc \notin Held
      BY <1>3, <2>3, IdleTyped DEF Held
    <3>2. call'[q].new = call[q].new
      BY <1>4, <1>7, <2>3
    <3> QED
      BY <3>1 DEF PairFits
  <2>4. CASE q # r /\ p # r
    <3>1. call[q].vm = call[p].vm /\ call[q].pc \in Held /\ call[p].pc \in Held
            /\ call[q].stale # call[p].stale => call'[q].stale # call'[p].stale
      <4>1. call[q].stale \in Nat /\ call[p].stale \in Nat
        BY DEF IInv, TypeOK, CallType
      <4> QED
        BY <1>4, <2>4, <4>1
    <3> QED
      BY <1>2, <1>4, <2>1, <2>4, <3>1 DEF PairFits, Known
  <2> QED
    BY <2>2, <2>3, <2>4
<1>8. \A w \in Vm : kind'[w] # "none" => Backed(w)'
  BY <1>2 DEF IInv, Backed
<1>9. SourcesFit'
  <2>1. \A q \in Request : Known(call'[q]) =>
            Known(call[q]) /\ call'[q].op = call[q].op /\ call'[q].vm = call[q].vm
    BY <1>3, <1>4, IdleTyped DEF Known
  <2> QED
    BY <1>2, <2>1 DEF IInv, SourcesFit
<1>10. ListedFit'
  <2> SUFFICES ASSUME NEW t \in Vm, kind[t] = "template", t \notin halfway, t \notin image
               PROVE  \E q \in Request :
                        Looping(call'[q]) /\ call'[q].vm = t /\ call'[q].called # 0
    BY <1>2 DEF ListedFit, Looping
  <2>1. PICK q \in Request : Looping(call[q]) /\ call[q].vm = t /\ call[q].called # 0
    BY DEF IInv, ListedFit
  <2>2. q # r
    BY <1>1, <2>1
  <2> QED
    BY <1>4, <2>1, <2>2 DEF Looping
<1>11. InstancesKeepTheirImage'
  BY <1>2 DEF IInv, InstancesKeepTheirImage
<1> QED
  BY <1>5, <1>6, <1>7, <1>8, <1>9, <1>10, <1>11 DEF IInv

LEMMA StartKeeps ==
  ASSUME IInv, TypeOK', NEW r \in Request, AgentStart(r)
  PROVE  IInv'
<1> DEFINE v == call[r].vm
<1>1. /\ call[r].pc = "agent" /\ call[r].op = "start" /\ Known(call[r]) /\ ~Looping(call[r])
      /\ v \in Vm /\ CallFits(call[r])
  BY DEF AgentStart, At, Does, IInv, TypeOK, Known, Looping, Deletion
<1>2. CASE UNCHANGED <<running, domain>>
  <2>1. DataSame /\ End(r)
    BY <1>2 DEF AgentStart, DataSame, images, ghosts
  <2> QED
    BY <1>1, <2>1, OneEnds
<1>3. CASE ~UNCHANGED <<running, domain>>
  <2>1. PICK a \in Agent :
            /\ v \in image
            /\ running' = running \cup {v}
            /\ domain' = [domain EXCEPT ![v] = @ \cup {a}]
    BY <1>3 DEF AgentStart, IInv, TypeOK
  <2>2. /\ call'[r] = Idle /\ \A q \in Request \ {r} : call'[q] = call[q]
        /\ UNCHANGED <<kind, source, image, crossed, halfway>>
    BY DEF AgentStart, End, ghosts, IInv, TypeOK
  <2>3. domain'[v] = domain[v] \cup {a} /\ \A w \in Vm \ {v} : domain'[w] = domain[w]
    BY <1>1, <2>1 DEF IInv, TypeOK
  <2>4. ASSUME NEW q \in Request \ {r}, call[q].vm = v, call[q].pc = "agent"
        PROVE  call[q].op \in OfTemplates \/ v \in halfway
    <3>1. CallFits(call[q]) /\ PairFits(call[r], call[q]) /\ call[q].pc \in Held /\ Known(call[q])
      BY <2>4 DEF IInv, Held, Known
    <3>2. call[q].op \notin OfTemplates => call[q].stale # 0 \/ call[r].stale # 0
      BY <1>1, <2>4, <3>1 DEF PairFits, Held
    <3>3. GoneFits(call[q]) /\ GoneFits(call[r]) /\ call[r].op \notin OfTemplates
      BY <1>1, <3>1 DEF CallFits, OfTemplates
    <3> QED
      BY <1>1, <2>1, <2>4, <3>1, <3>2, <3>3 DEF GoneFits
  <2> HIDE DEF v
  <2>5. ASSUME NEW q \in Request \ {r}
        PROVE  CallFits(call[q])'
    <3>1. call'[q] = call[q] /\ CallFits(call[q]) /\ PairFits(call[r], call[q])
          /\ (Known(call[q]) => call[q].vm \in Vm)
      BY <2>2 DEF IInv, TypeOK, At, Known
    <3>2. Fits(call[q])' /\ NewFits(call[q])' /\ SettledFits(call[q])'
      BY <2>2, <3>1 DEF CallFits, Fits, NewFits, SettledFits, Known, Looping, Dependents
    <3>3. RowFits(call[q])'
      <4>1. call[q].pc = "row" => call[q].op \in Making
        BY <3>1 DEF CallFits, Fits
      <4>2. call[q].pc = "row" => call[q].new \in Vm
        BY <4>1 DEF IInv, TypeOK, At, Making
      <4>3. call[q].pc = "row" => domain[call[q].new] \subseteq domain'[call[q].new]
        BY <2>3, <4>2
      <4> QED
        BY <2>2, <3>1, <4>3 DEF CallFits, RowFits
    <3>4. LoopFits(call[q])'
      <4>1. LoopFits(call[q])
        BY <3>1 DEF CallFits
      <4>2. Looping(call[q]) /\ call[q].vm = v => v \in halfway
        <5>1. Looping(call[q]) => call[q].pc = "agent" /\ call[q].op \in Deletion /\ Known(call[q])
          BY DEF Looping, Known
        <5>2. Looping(call[q]) /\ call[q].vm = v => call[q].op \notin OfTemplates
          BY <1>1, <3>1, <5>1 DEF PairFits, OfTemplates, v
        <5> QED
          BY <2>4, <5>1, <5>2
      <4>3. Looping(call[q]) => call[q].vm \in Vm
        BY <3>1 DEF Looping, Known
      <4> QED
        BY <2>2, <2>3, <3>1, <4>1, <4>2, <4>3 DEF LoopFits, Looping
    <3>5. RestFits(call[q])'
      <4>1. RestFits(call[q])
        BY <3>1 DEF CallFits
      <4>2. call[q].pc = "agent" /\ call[q].op \in {"define", "delete instance"} /\ call[q].vm = v
                => v \in halfway
        BY <2>4 DEF OfTemplates
      <4> QED
        BY <2>1, <2>2, <3>1, <4>1, <4>2 DEF RestFits
    <3>6. GoneFits(call[q])'
      BY <2>2, <2>3, <3>1 DEF CallFits, GoneFits, Backed, Known
    <3> QED
      BY <3>2, <3>3, <3>4, <3>5, <3>6 DEF CallFits
  <2>6. CallFits(call[r])'
    BY <2>2, IdleTyped DEF CallFits, Fits, NewFits, RowFits, LoopFits, SettledFits, GoneFits,
        RestFits, Held, Deletion, Looping, Known
  <2>7. ASSUME NEW q \in Request, NEW p \in Request, q # p
        PROVE  PairFits(call[q], call[p])'
    <3>1. call'[q] \in {call[q], Idle} /\ call'[p] \in {call[p], Idle} /\ PairFits(call[q], call[p])
      BY <2>2, <2>7 DEF IInv
    <3> QED
      BY <2>2, <3>1, IdleTyped DEF PairFits, Known, Held
  <2>8. \A w \in Vm : kind'[w] # "none" => Backed(w)'
    BY <2>2, <2>3 DEF IInv, Backed
  <2>9. SourcesFit'
    BY <2>2, IdleTyped DEF IInv, SourcesFit
  <2>10. ListedFit'
    <3> SUFFICES ASSUME NEW t \in Vm, kind[t] = "template", t \notin halfway, t \notin image
                 PROVE  \E q \in Request :
                          Looping(call'[q]) /\ call'[q].vm = t /\ call'[q].called # 0
      BY <2>2 DEF ListedFit, Looping
    <3>1. PICK q \in Request : Looping(call[q]) /\ call[q].vm = t /\ call[q].called # 0
      BY DEF IInv, ListedFit
    <3> QED
      BY <1>1, <2>2, <3>1
  <2>11. InstancesKeepTheirImage'
    BY <2>2 DEF IInv, InstancesKeepTheirImage
  <2> QED
    BY <2>5, <2>6, <2>7, <2>8, <2>9, <2>10, <2>11 DEF IInv
<1> QED
  BY <1>2, <1>3

(* Around the requests, and when nothing happens. *)
LEMMA AroundKeeps ==
  ASSUME IInv, TypeOK', UNCHANGED <<kind, images, call, ghosts>>, running' \subseteq running
  PROVE  IInv'
<1>1. ASSUME NEW q \in Request
      PROVE  CallFits(call[q])'
  <2>1. CallFits(call[q])
    BY DEF IInv
  <2>2. UNCHANGED <<kind, source, image, domain, call, crossed, halfway>>
    BY DEF images, ghosts
  <2>3. Fits(call[q])' /\ NewFits(call[q])'
    BY <2>1, <2>2 DEF CallFits, Fits, NewFits, Known
  <2>4. RowFits(call[q])' /\ LoopFits(call[q])'
    BY <2>1, <2>2 DEF CallFits, RowFits, LoopFits, Looping
  <2>5. SettledFits(call[q])' /\ GoneFits(call[q])' /\ RestFits(call[q])'
    BY <2>1, <2>2 DEF CallFits, SettledFits, GoneFits, RestFits, Known, Looping, Backed, Dependents
  <2> QED
    BY <2>3, <2>4, <2>5 DEF CallFits
<1>2. \A q, p \in Request : q # p => PairFits(call[q], call[p])'
  BY DEF IInv, PairFits, Known, ghosts
<1>3. \A w \in Vm : kind'[w] # "none" => Backed(w)'
  BY DEF IInv, Backed, images, ghosts
<1>4. SourcesFit' /\ ListedFit' /\ InstancesKeepTheirImage'
  BY DEF IInv, SourcesFit, ListedFit, InstancesKeepTheirImage, Known, Looping, images, ghosts
<1> QED
  BY <1>1, <1>2, <1>3, <1>4 DEF IInv

LEMMA StepKeeps ==
  ASSUME IInv, [Next]_vars
  PROVE  IInv'
<1>1. TypeOK'
  BY TypeKept DEF IInv
<1>2. ASSUME NEW r \in Request,
             \/ Begin(r) \/ Check(r) \/ CheckDependents(r) \/ SelectServerAgent(r)
             \/ GetVmMutex(r) \/ Lock(r)
      PROVE  IInv'
  BY <1>1, <1>2, BeginKeeps, CheckKeeps, DependentsKeep, SelectKeeps, LockKeeps
<1>3. ASSUME NEW r \in Request,
             \/ AgentCreate(r) \/ AddVm(r) \/ Skip(r) \/ AgentDelete(r)
             \/ AgentDeleteFails(r) \/ FinishDelete(r) \/ DeleteVmMutex(r) \/ AgentStart(r)
      PROVE  IInv'
  BY <1>1, <1>3, CreateKeeps, AddKeeps, SkipKeeps, DeleteKeeps, DeleteFailureKeeps,
     FinishKeeps, ForgetKeeps, StartKeeps
<1>4. ASSUME NEW v \in Vm, ShutOff(v)
      PROVE  IInv'
  BY <1>1, <1>4, AroundKeeps DEF ShutOff
<1>5. ASSUME NEW a \in Agent, AgentSilent(a) \/ AgentBack(a)
      PROVE  IInv'
  BY <1>1, <1>5, AroundKeeps DEF AgentSilent, AgentBack
<1>6. CASE UNCHANGED vars
  BY <1>1, <1>6, AroundKeeps DEF vars
<1> QED
  BY <1>2, <1>3, <1>4, <1>5, <1>6 DEF Next

(***************************************************************************)
(* 7. The theorems.                                                        *)
(***************************************************************************)

(* The invariant holds of every behaviour. *)
THEOREM Invariance == Spec => []IInv
<1>1. Init => IInv
  BY Initially
<1>2. IInv /\ [Next]_vars => IInv'
  BY StepKeeps
<1> QED
  BY <1>1, <1>2, PTL DEF Spec

(* Every variable keeps its type, and a request that makes something has an *)
(* identifier for it.                                                       *)
THEOREM TypeCorrect == Spec => []TypeOK
<1>1. IInv => TypeOK
  BY DEF IInv
<1> QED
  BY <1>1, Invariance, PTL

(* DeleteTemplate takes no image from under an instance, unless the         *)
(* template was deleted across a creation.                                  *)
THEOREM ImagesKept == Spec => []InstancesKeepTheirImage
<1>1. IInv => InstancesKeepTheirImage
  BY DEF IInv
<1> QED
  BY <1>1, Invariance, PTL

(* A template that is listed has its image, unless a deletion of it is      *)
(* under way or failed halfway.                                             *)
THEOREM ListedUsable == Spec => []TemplatesHaveTheirImage
<1>1. IInv => TemplatesHaveTheirImage
  BY DEF IInv, ListedFit, TemplatesHaveTheirImage, Looping, Deletes, At
<1> QED
  BY <1>1, Invariance, PTL

(* DefineTemplate and DeleteInstance, with the mutex, meet no guest that    *)
(* was started after they got it, unless a failed deletion left the image   *)
(* behind.                                                                  *)
THEOREM RestingCopied == Spec => []CopiesRest
<1>1. IInv => CopiesRest
  BY DEF IInv, CallFits, RestFits, CopiesRest, At
<1> QED
  BY <1>1, Invariance, PTL

(* Only the end of its loop brings a deletion there. *)
LEMMA OnlyFinish ==
  ASSUME IInv, [Next]_vars, NEW r \in Request, Deletes(r), call'[r].pc = "forget"
  PROVE  FinishDelete(r)
<1>1. call[r] \in CallType /\ call[r].pc = "agent" /\ call[r].op \in Deletion
  BY InDeletion
<1>2. ASSUME call'[r] = call[r] PROVE FALSE
  BY <1>1, <1>2
<1>3. ASSUME NEW q \in Request,
             \/ Begin(q) \/ Check(q) \/ CheckDependents(q) \/ SelectServerAgent(q)
             \/ GetVmMutex(q) \/ Lock(q)
      PROVE  FALSE
  <2>1. q # r
    BY <1>1, <1>3 DEF Begin, Check, CheckDependents, SelectServerAgent, GetVmMutex, Lock, At
  <2>2. call'[r] = call[r]
    BY <1>3, <2>1 DEF Begin, Check, CheckDependents, SelectServerAgent, GetVmMutex, Lock, End,
        IInv, TypeOK
  <2> QED
    BY <1>2, <2>2
<1>4. ASSUME NEW q \in Request,
             \/ AgentCreate(q) \/ AddVm(q) \/ AgentStart(q) \/ AgentDeleteFails(q)
             \/ FinishDelete(q) \/ Skip(q) \/ AgentDelete(q)
      PROVE  q = r
  <2> SUFFICES ASSUME q # r PROVE FALSE
    OBVIOUS
  <2>1. call'[r] = call[r]
    BY <1>4 DEF AgentCreate, AddVm, AgentStart, AgentDeleteFails, FinishDelete, Skip, AgentDelete,
        End, IInv, TypeOK
  <2> QED
    BY <1>2, <2>1
<1>5. ASSUME AgentCreate(r) \/ AddVm(r) \/ AgentStart(r) PROVE FALSE
  BY <1>1, <1>5 DEF AgentCreate, AddVm, AgentStart, At, Does, Deletion
<1>6. ASSUME AgentDeleteFails(r) PROVE FALSE
  <2>1. call'[r] = Idle
    BY <1>6 DEF AgentDeleteFails, End, IInv, TypeOK
  <2> QED
    BY <2>1, IdleTyped
<1>7. ASSUME Skip(r) \/ AgentDelete(r) PROVE FALSE
  <2>1. call'[r].pc = call[r].pc
    BY <1>1, <1>7 DEF Skip, AgentDelete, IInv, TypeOK, CallType
  <2> QED
    BY <1>1, <2>1
<1>8. ASSUME NEW q \in Request, DeleteVmMutex(q) PROVE FALSE
  <2>1. call'[r] \in {Idle, call[r], [call[r] EXCEPT !.stale = @ + 1]}
    BY <1>8 DEF DeleteVmMutex
  <2> QED
    BY <1>1, <2>1, IdleTyped, StaleTyped
<1>9. ASSUME UNCHANGED call PROVE FALSE
  BY <1>2, <1>9
<1> QED
  BY <1>3, <1>4, <1>5, <1>6, <1>7, <1>8, <1>9
     DEF Next, vars, ShutOff, AgentSilent, AgentBack

(* A deletion that removes the row leaves no image and no domain, unless an *)
(* agent that has one was silent or failed.                                 *)
THEOREM AllRemoved == Spec => NothingLeft
<1>1. ASSUME IInv, [Next]_vars, NEW r \in Request, Deletes(r), call'[r].pc = "forget"
      PROVE  \/ call[r].passed \/ call[r].vm \in halfway
             \/ call[r].vm \notin image /\ domain[call[r].vm] = {}
  <2>1. FinishDelete(r)
    BY <1>1, OnlyFinish
  <2>2. ~End(r)
    <3>1. End(r) => call'[r] = Idle
      BY <1>1 DEF End, IInv, TypeOK
    <3> QED
      BY <1>1, <3>1, IdleTyped
  <2>3. Through(r)
    BY <2>1, <2>2 DEF FinishDelete, Through
  <2> QED
    BY <1>1, <2>3, NothingBehind
<1>2. IInv /\ [Next]_vars =>
        [\A r \in Request, v \in Vm :
            call[r].vm = v /\ Deletes(r) /\ call'[r].pc = "forget" =>
                \/ call[r].passed \/ v \in halfway
                \/ v \notin image /\ domain[v] = {}]_vars
  BY <1>1
<1> QED
  BY <1>2, Invariance, PTL DEF Spec, NothingLeft
=============================================================================
