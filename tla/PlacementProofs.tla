--------------------------- MODULE PlacementProofs ---------------------------
(***************************************************************************)
(* Theorems about Placement for any number of agents, instances and        *)
(* requests in progress.                                                   *)
(***************************************************************************)
EXTENDS Placement, TLAPS

(***************************************************************************)
(* 1. The inductive invariant, part by part.                               *)
(***************************************************************************)

(* Program points belong to operations. *)
PointFits(c) ==
    /\ c.pc = "idle" <=> c.op = "none"
    /\ c.pc \in {"wait", "orphan"} => c.op = "stop"
    /\ c.pc = "select" => c.op = "start"

(* What a start knows: while it asks, agents it is past that have the       *)
(* instance alive said so or misled it; then it was misled if there are     *)
(* any; with the mutex there are none.                                      *)
StartFits(c) == c.op = "start" /\ c.vm \notin excused =>
    /\ c.pc = "ask" => \A a \in Alive(c.vm) : a < c.at => c.running \/ c.misled
    /\ c.pc \in {"select", "lock"} => Alive(c.vm) = {} \/ c.misled
    /\ c.pc = "agent" => Alive(c.vm) = {}

(* Loops begin with the first agent, and know of the agents they are past.  *)
LoopFits(c) ==
    /\ c.pc = "lock" /\ c.op # "start" => c.at = 1
    /\ c.pc = "agent" /\ c.op = "stop" => \A a \in Alive(c.vm) : a < c.at => c.misled
    /\ c.pc = "agent" /\ c.op = "restart" => \A a \in Running(c.vm) : a < c.at => c.misled

(* Where a stop waits is where the instance is alive, if anywhere, and no   *)
(* other guest has come there.                                              *)
WaitFits(c) ==
    /\ c.pc # "orphan" => c.same
    /\ c.pc = "wait" /\ c.vm \notin excused => Alive(c.vm) \subseteq {c.at}

CallFits(c) == PointFits(c) /\ StartFits(c) /\ LoopFits(c) /\ WaitFits(c)

(* The mutex of an instance, and its starts unless they overlapped. *)
Exclusive ==
    \A r, q \in Request :
        call[r].vm = call[q].vm /\ call[r].pc \in Held /\ call[q].pc \in Held => r = q

OneStart ==
    \A r, q \in Request :
        /\ call[r].op = "start" /\ call[q].op = "start"
        /\ call[r].vm = call[q].vm /\ call[r].vm \notin excused
        => r = q

IInv ==
    /\ TypeOK /\ Exclusive /\ OneStart
    /\ \A r \in Request : CallFits(call[r])
    /\ RunsOnce

(***************************************************************************)
(* 2. Steps after which no instance is alive where it was not.             *)
(***************************************************************************)

Answer == {"none", "ok", "error", "refused", "not running"}

LEMMA IdleItself == Idle \in CallType /\ Idle.pc = "idle" /\ Idle.op = "none" /\ Idle.at = 1 /\ Idle.same
BY AgentsAssumption DEF Idle, CallType, Points

LEMMA AnsweredTyped ==
  ASSUME NEW c \in CallType, NEW answer \in Answer
  PROVE  /\ [c EXCEPT !.answer = answer] \in CallType
         /\ [c EXCEPT !.answer = answer].pc = c.pc
         /\ [c EXCEPT !.answer = answer].op = c.op
         /\ [c EXCEPT !.answer = answer].same <=> c.same
BY DEF CallType, Answer

LEMMA MadeTyped ==
  ASSUME NEW c \in CallType, NEW op \in {"none", "start", "stop", "restart"},
         NEW pc \in Points, NEW v \in Vm \cup {None}
  PROVE  [c EXCEPT !.op = op, !.pc = pc, !.vm = v] \in CallType
BY DEF CallType

LEMMA HomeTyped ==
  ASSUME TypeOK, NEW v \in Vm, NEW a \in Agent
  PROVE  domain[v][a] \in DomainState
BY DEF TypeOK

(* A request that goes on is about the same, and gets no mutex; one that    *)
(* ends has nothing.                                                        *)
Follows(c, d) ==
    \/ d.op = "none" /\ d.pc = "idle"
    \/ d.op = c.op /\ d.vm = c.vm /\ (d.pc \in Held => c.pc \in Held)

NoneAdded ==
    /\ \A v \in Vm : Alive(v)' \subseteq Alive(v) /\ Running(v)' \subseteq Running(v)
    /\ excused \subseteq excused'

LEMMA SameFits ==
  ASSUME IInv, TypeOK', NoneAdded, NEW r \in Request, call'[r] = call[r]
  PROVE  CallFits(call[r])'
<1> DEFINE c == call[r]
<1>1. c \in CallType /\ CallFits(c) /\ (c.pc # "idle" => c.vm \in Vm)
  BY DEF IInv, TypeOK
<1>2. PointFits(call[r])'
  BY <1>1 DEF CallFits, PointFits
<1>3. StartFits(call[r])'
  BY <1>1 DEF CallFits, StartFits, PointFits, NoneAdded
<1>4. LoopFits(call[r])'
  BY <1>1 DEF CallFits, LoopFits, NoneAdded
<1>5. WaitFits(call[r])'
  BY <1>1 DEF CallFits, WaitFits, NoneAdded
<1> QED
  BY <1>2, <1>3, <1>4, <1>5 DEF CallFits

LEMMA MutexKept ==
  ASSUME Exclusive, \A q \in Request : Follows(call[q], call'[q])
  PROVE  Exclusive'
<1> SUFFICES ASSUME NEW r \in Request, NEW q \in Request,
                    call'[r].vm = call'[q].vm,
                    call'[r].pc \in Held, call'[q].pc \in Held
             PROVE  r = q
  BY DEF Exclusive
<1>1. Follows(call[r], call'[r]) /\ Follows(call[q], call'[q])
  OBVIOUS
<1> QED
  BY <1>1 DEF Follows, Exclusive, Held

LEMMA StartsKept ==
  ASSUME OneStart, excused \subseteq excused',
         \A q \in Request :
            call'[q].op = "start" => call[q].op = "start" /\ call'[q].vm = call[q].vm
  PROVE  OneStart'
BY DEF OneStart

LEMMA OnceKept ==
  ASSUME RunsOnce, NoneAdded
  PROVE  RunsOnce'
BY DEF RunsOnce, NoneAdded

LEMMA Quiet ==
  ASSUME IInv, TypeOK', NoneAdded,
         \A q \in Request : Follows(call[q], call'[q]),
         \A q \in Request : call'[q] = call[q] \/ CallFits(call[q])'
  PROVE  IInv'
<1>1. \A q \in Request : CallFits(call[q])'
  BY SameFits
<1>2. Exclusive'
  BY MutexKept DEF IInv
<1>3. OneStart'
  BY StartsKept DEF IInv, Follows, NoneAdded
<1>4. RunsOnce'
  BY OnceKept DEF IInv
<1> QED
  BY <1>1, <1>2, <1>3, <1>4 DEF IInv

(* The domains as they are. *)
LEMMA SameDomains ==
  ASSUME domain' = domain, excused \subseteq excused'
  PROVE  NoneAdded
BY DEF NoneAdded, Alive, Running

(* A guest goes, wholly or on its way. *)
LEMMA GuestGoes ==
  ASSUME TypeOK, NEW v \in Vm, NEW a \in Agent, NEW state \in {"closing", "off"},
         a \in Alive(v) \/ state = "off",
         domain' = [domain EXCEPT ![v][a] = state], excused' = excused
  PROVE  NoneAdded /\ domain' \in [Vm -> [Agent -> DomainState]]
<1>1. domain' \in [Vm -> [Agent -> DomainState]]
  BY DEF TypeOK, DomainState
<1>2. \A w \in Vm, b \in Agent :
        domain'[w][b] = IF w = v /\ b = a THEN state ELSE domain[w][b]
  BY DEF TypeOK
<1>3. ASSUME NEW w \in Vm
      PROVE  Alive(w)' \subseteq Alive(w) /\ Running(w)' \subseteq Running(w)
  BY <1>2 DEF Alive, Running
<1> QED
  BY <1>1, <1>3 DEF NoneAdded

(* A request that ends leaves nothing to keep. *)
LEMMA Ends ==
  ASSUME IInv, NEW r \in Request, NEW answer \in Answer, End(r, answer),
         NoneAdded, domain' \in [Vm -> [Agent -> DomainState]],
         up' \subseteq Agent, excused' = excused
  PROVE  IInv'
<1> DEFINE d == [Idle EXCEPT !.answer = answer]
<1>1. d \in CallType /\ d.pc = "idle" /\ d.op = "none" /\ d.same
  BY IdleItself, AnsweredTyped
<1> HIDE DEF d
<1>2. call' = [call EXCEPT ![r] = d]
  BY DEF End, d
<1>3. \A q \in Request : call'[q] = IF q = r THEN d ELSE call[q]
  BY <1>2 DEF IInv, TypeOK
<1>4. TypeOK'
  BY <1>1, <1>2, <1>3 DEF IInv, TypeOK
<1>5. \A q \in Request : Follows(call[q], call'[q])
  BY <1>1, <1>3 DEF Follows, Held
<1>6. CallFits(call[r])'
  BY <1>1, <1>3 DEF CallFits, PointFits, StartFits, LoopFits, WaitFits
<1> QED
  BY <1>3, <1>4, <1>5, <1>6, Quiet

(* A request goes on, the domains being as they were. *)
LEMMA Moves ==
  ASSUME IInv, NEW r \in Request, NEW d \in CallType, call' = [call EXCEPT ![r] = d],
         domain' = domain, up' = up, excused' = excused,
         Follows(call[r], d), d.pc # "idle" => d.vm \in Vm,
         d.pc \in {"wait", "orphan"} \/ (d.pc \in {"lock", "agent"} /\ d.op = "start")
            => d.at \in Agent,
         CallFits(d)
  PROVE  IInv'
<1>1. \A q \in Request : call'[q] = IF q = r THEN d ELSE call[q]
  BY DEF IInv, TypeOK
<1>2. TypeOK'
  BY <1>1 DEF IInv, TypeOK
<1>3. NoneAdded
  BY SameDomains
<1>4. CallFits(call[r])'
  BY <1>1 DEF CallFits, PointFits, StartFits, LoopFits, WaitFits, Alive, Running
<1>5. \A q \in Request : Follows(call[q], call'[q])
  BY <1>1 DEF Follows
<1> QED
  BY <1>1, <1>2, <1>3, <1>4, <1>5, Quiet

(***************************************************************************)
(* 3. The actions.                                                         *)
(***************************************************************************)

LEMMA CallTyped ==
  ASSUME IInv, NEW r \in Request
  PROVE  /\ call[r] \in CallType /\ CallFits(call[r])
         /\ call[r].pc # "idle" => call[r].vm \in Vm
BY DEF IInv, TypeOK

LEMMA PassedTyped ==
  ASSUME NEW c \in CallType, NEW at \in 1 .. Agents + 1, NEW misled \in BOOLEAN
  PROVE  [c EXCEPT !.at = at, !.misled = misled] \in CallType
BY DEF CallType

LEMMA ToldTyped ==
  ASSUME NEW c \in CallType, NEW at \in 1 .. Agents + 1,
         NEW running \in BOOLEAN, NEW misled \in BOOLEAN
  PROVE  [c EXCEPT !.at = at, !.running = running, !.misled = misled] \in CallType
BY DEF CallType

LEMMA SentTyped ==
  ASSUME NEW c \in CallType, NEW pc \in Points, NEW at \in 1 .. Agents + 1
  PROVE  [c EXCEPT !.pc = pc, !.at = at] \in CallType /\ [c EXCEPT !.at = at, !.pc = pc] \in CallType
BY DEF CallType

LEMMA LockedTyped ==
  ASSUME NEW c \in CallType, NEW pc \in Points, NEW misled \in BOOLEAN
  PROVE  [c EXCEPT !.pc = pc, !.misled = misled] \in CallType
BY DEF CallType

LEMMA NextAgent ==
  ASSUME NEW a \in Agent
  PROVE  a + 1 \in 1 .. Agents + 1
BY AgentsAssumption DEF Agent

LEMMA SkipStep ==
  ASSUME IInv, NEW r \in Request, Skip(r)
  PROVE  IInv'
<1> DEFINE c == call[r]
           d == [c EXCEPT !.at = @ + 1, !.misled = @ \/ Home(r) \in {"on", "closing"}]
<1>1. c \in CallType /\ CallFits(c) /\ c.vm \in Vm /\ c.at \in Agent
  BY CallTyped DEF Skip, Asked, At
<1>2. /\ d.op = c.op /\ d.pc = c.pc /\ d.vm = c.vm /\ d.at = c.at + 1
      /\ d.running <=> c.running
      /\ d.same <=> c.same
      /\ d.misled <=> c.misled \/ c.at \in Alive(c.vm)
  BY <1>1 DEF CallType, Home, Alive
<1>3. d \in CallType
  <2>1. c.at + 1 \in 1 .. Agents + 1 /\ (c.misled \/ Home(r) \in {"on", "closing"}) \in BOOLEAN
    BY <1>1, NextAgent
  <2> QED
    BY <1>1, <2>1, PassedTyped
<1>4. call' = [call EXCEPT ![r] = d]
  BY DEF Skip
<1>5. CallFits(d)
  <2> HIDE DEF d
  <2>1. Running(c.vm) \subseteq Alive(c.vm) /\ Alive(c.vm) \subseteq Nat
    BY DEF Running, Alive, Agent
  <2>2. \A a \in Alive(c.vm) : a < d.at => a < c.at \/ a = c.at
    BY <1>1, <1>2, <2>1 DEF Agent
  <2>3. PointFits(d) /\ StartFits(d)
    BY <1>1, <1>2, <2>2 DEF CallFits, PointFits, StartFits, Skip, Asked, At
  <2>4. LoopFits(d) /\ WaitFits(d)
    BY <1>1, <1>2, <2>1, <2>2 DEF CallFits, LoopFits, WaitFits, Skip, Asked, At
  <2> QED
    BY <2>3, <2>4 DEF CallFits
<1>6. d.pc \in {"ask", "agent"} /\ (d.pc = "agent" => d.op # "start")
  BY <1>2 DEF Skip, Asked, At
<1>7. Follows(c, d)
  BY <1>2 DEF Follows
<1> HIDE DEF d
<1> QED
  BY <1>1, <1>2, <1>3, <1>4, <1>5, <1>6, <1>7, Moves DEF Skip

LEMMA AskStep ==
  ASSUME IInv, NEW r \in Request, AskStatus(r)
  PROVE  IInv'
<1> DEFINE c == call[r]
           d == [c EXCEPT !.at = @ + 1, !.running = SeenRunning(@, Home(r)),
                          !.misled = @ \/ Home(r) = "closing"]
<1>1. c \in CallType /\ CallFits(c) /\ c.vm \in Vm /\ c.at \in Agent /\ c.pc = "ask"
  BY CallTyped DEF AskStatus, At, IInv, TypeOK
<1>2. /\ d.op = c.op /\ d.pc = "ask" /\ d.vm = c.vm /\ d.at = c.at + 1
      /\ d.same <=> c.same
      /\ c.running \/ c.misled \/ c.at \in Alive(c.vm) => d.running \/ d.misled
  BY <1>1 DEF CallType, Home, Alive, SeenRunning
<1>3. d \in CallType
  <2>1. /\ c.at + 1 \in 1 .. Agents + 1
        /\ SeenRunning(c.running, Home(r)) \in BOOLEAN
        /\ (c.misled \/ Home(r) = "closing") \in BOOLEAN
    BY <1>1, NextAgent DEF SeenRunning
  <2> QED
    BY <1>1, <2>1, ToldTyped
<1>4. call' = [call EXCEPT ![r] = d]
  BY DEF AskStatus
<1>5. CallFits(d)
  <2> HIDE DEF d
  <2>1. \A a \in Alive(c.vm) : a < d.at => a < c.at \/ a = c.at
    BY <1>1, <1>2 DEF Agent, Alive
  <2>2. PointFits(d) /\ StartFits(d)
    BY <1>1, <1>2, <2>1 DEF CallFits, PointFits, StartFits
  <2>3. LoopFits(d) /\ WaitFits(d)
    BY <1>1, <1>2 DEF CallFits, LoopFits, WaitFits
  <2> QED
    BY <2>2, <2>3 DEF CallFits
<1>6. Follows(c, d)
  BY <1>2 DEF Follows, Held
<1> HIDE DEF d
<1> QED
  BY <1>1, <1>2, <1>3, <1>4, <1>5, <1>6, Moves DEF AskStatus

LEMMA CheckStep ==
  ASSUME IInv, NEW r \in Request, CheckIfVmIsRunning(r)
  PROVE  IInv'
<1> DEFINE c == call[r]
           d == [c EXCEPT !.at = 1, !.pc = IF c.op = "start" THEN "select" ELSE "lock"]
<1>1. c \in CallType /\ CallFits(c) /\ c.vm \in Vm /\ c.pc = "ask" /\ c.at = Agents + 1
  BY CallTyped DEF CheckIfVmIsRunning, At
<1>2. CASE c.running = (c.op = "start")
  BY <1>2, Ends, SameDomains DEF CheckIfVmIsRunning, IInv, TypeOK, Answer
<1>3. CASE c.running # (c.op = "start")
  <2>1. /\ d.op = c.op /\ d.vm = c.vm /\ d.at = 1
        /\ d.misled <=> c.misled
        /\ d.same <=> c.same
        /\ d.pc = IF c.op = "start" THEN "select" ELSE "lock"
    BY <1>1 DEF CallType
  <2>2. d \in CallType
    <3>1. 1 \in 1 .. Agents + 1 /\ (IF c.op = "start" THEN "select" ELSE "lock") \in Points
      BY AgentsAssumption DEF Points
    <3> QED
      BY <1>1, <3>1, SentTyped
  <2>3. call' = [call EXCEPT ![r] = d]
    BY <1>3 DEF CheckIfVmIsRunning
  <2>4. \A a \in Alive(c.vm) : a < c.at
    BY <1>1, AgentsAssumption DEF Alive, Agent
  <2> HIDE DEF d
  <2>5. PointFits(d) /\ LoopFits(d) /\ WaitFits(d)
    BY <1>1, <2>1 DEF CallFits, PointFits, LoopFits, WaitFits
  <2>6. StartFits(d)
    BY <1>1, <1>3, <2>1, <2>4 DEF CallFits, StartFits, CallType
  <2>7. Follows(c, d)
    BY <2>1 DEF Follows, Held
  <2> QED
    BY <1>1, <1>3, <2>1, <2>2, <2>3, <2>5, <2>6, <2>7, Moves
       DEF CheckIfVmIsRunning, CallFits, PointFits
<1> QED
  BY <1>2, <1>3

LEMMA SelectStep ==
  ASSUME IInv, NEW r \in Request, SelectServerAgent(r)
  PROVE  IInv'
<1> DEFINE c == call[r]
<1>1. c \in CallType /\ CallFits(c) /\ c.vm \in Vm /\ c.pc = "select" /\ c.op = "start"
  BY CallTyped DEF SelectServerAgent, At, CallFits, PointFits
<1>2. CASE End(r, "error")
  BY <1>2, Ends, SameDomains DEF SelectServerAgent, IInv, TypeOK, Answer
<1>3. ASSUME NEW a \in Selected, call' = [call EXCEPT ![r].pc = "lock", ![r].at = a]
      PROVE  IInv'
  <2> DEFINE d == [c EXCEPT !.pc = "lock", !.at = a]
  <2>1. a \in Agent
    BY DEF IInv, TypeOK, Selected
  <2>2. /\ d.op = "start" /\ d.vm = c.vm /\ d.at = a /\ d.pc = "lock"
        /\ d.misled <=> c.misled
        /\ d.same <=> c.same
    BY <1>1 DEF CallType
  <2>3. d \in CallType
    <3>1. a \in 1 .. Agents + 1 /\ "lock" \in Points
      BY <2>1, AgentsAssumption DEF Agent, Points
    <3> QED
      BY <1>1, <3>1, SentTyped
  <2>4. call' = [call EXCEPT ![r] = d]
    BY <1>3
  <2> HIDE DEF d
  <2>5. CallFits(d)
    BY <1>1, <2>2 DEF CallFits, PointFits, LoopFits, WaitFits, StartFits
  <2>6. Follows(c, d)
    BY <1>1, <2>2 DEF Follows, Held
  <2> QED
    BY <1>1, <2>1, <2>2, <2>3, <2>4, <2>5, <2>6, Moves DEF SelectServerAgent
<1> QED
  BY <1>2, <1>3 DEF SelectServerAgent

LEMMA BeginStep ==
  ASSUME IInv, NEW r \in Request, Begin(r)
  PROVE  IInv'
<1> PICK v \in Vm, op \in {"start", "stop", "restart"} :
        /\ call' = [call EXCEPT ![r] = [Idle EXCEPT !.op = op, !.pc = "ask", !.vm = v]]
        /\ excused' = IF op = "start" /\ Overlaps(r, v) THEN excused \cup {v} ELSE excused
  BY DEF Begin
<1> DEFINE d == [Idle EXCEPT !.op = op, !.pc = "ask", !.vm = v]
<1>1. d.op = op /\ d.pc = "ask" /\ d.vm = v /\ d.at = 1 /\ d.same
  BY DEF Idle
<1>2. d \in CallType
  <2>1. "ask" \in Points /\ op \in {"none", "start", "stop", "restart"}
    BY DEF Points
  <2> QED
    BY <2>1, IdleItself, MadeTyped
<1>3. call' = [call EXCEPT ![r] = d]
  OBVIOUS
<1> HIDE DEF d
<1>4. \A q \in Request : call'[q] = IF q = r THEN d ELSE call[q]
  BY <1>3 DEF IInv, TypeOK
<1>5. domain' = domain /\ up' = up /\ excused \subseteq excused' /\ excused' \subseteq Vm
  BY DEF Begin, IInv, TypeOK
<1>6. TypeOK'
  <2>1. call' \in [Request -> CallType]
    BY <1>2, <1>3 DEF IInv, TypeOK
  <2> QED
    BY <1>1, <1>4, <1>5, <2>1 DEF IInv, TypeOK
<1>7. NoneAdded
  BY <1>5, SameDomains
<1>8. CallFits(call[r])'
  <2>1. \A a \in Alive(v)' : ~(a < 1)
    BY DEF Alive, Agent
  <2> QED
    BY <1>1, <1>4, <2>1 DEF CallFits, PointFits, StartFits, LoopFits, WaitFits
<1>9. \A q \in Request : CallFits(call[q])'
  BY <1>4, <1>6, <1>7, <1>8, SameFits
<1>10. Exclusive'
  BY <1>1, <1>4 DEF IInv, Exclusive, Held
<1>11. OneStart'
  BY <1>1, <1>4, <1>5 DEF IInv, OneStart, Overlaps
<1>12. RunsOnce'
  BY <1>7, OnceKept DEF IInv
<1> QED
  BY <1>6, <1>9, <1>10, <1>11, <1>12 DEF IInv

LEMMA LockStep ==
  ASSUME IInv, NEW r \in Request, Lock(r)
  PROVE  IInv'
<1> DEFINE c == call[r]
           d == [c EXCEPT !.pc = "agent", !.misled = FALSE]
<1>1. /\ c \in CallType /\ CallFits(c) /\ c.vm \in Vm /\ c.pc = "lock" /\ c.op # "none"
      /\ c.op = "start" => c.at \in Agent
  BY CallTyped DEF Lock, At, CallFits, PointFits, IInv, TypeOK
<1>2. /\ d.op = c.op /\ d.pc = "agent" /\ d.vm = c.vm /\ d.at = c.at
      /\ ~d.misled
      /\ d.same <=> c.same
  BY <1>1 DEF CallType
<1>3. d \in CallType
  BY <1>1, LockedTyped DEF Points
<1>4. call' = [call EXCEPT ![r] = d]
  BY DEF Lock
<1> HIDE DEF d
<1>5. \A q \in Request : call'[q] = IF q = r THEN d ELSE call[q]
  BY <1>4 DEF IInv, TypeOK
<1>6. domain' = domain /\ up' = up /\ excused \subseteq excused' /\ excused' \subseteq Vm
  BY <1>1 DEF Lock, IInv, TypeOK
<1>7. TypeOK'
  <2>1. call' \in [Request -> CallType]
    BY <1>3, <1>4 DEF IInv, TypeOK
  <2> QED
    BY <1>1, <1>2, <1>5, <1>6, <2>1 DEF IInv, TypeOK
<1>8. NoneAdded
  BY <1>6, SameDomains
<1>9. \A v \in Vm : Alive(v)' = Alive(v)
  BY <1>6 DEF Alive
<1>10. CallFits(call[r])'
  <2>1. c.op = "start" /\ c.vm \notin excused' => Alive(c.vm) = {}
    BY <1>1 DEF Lock, CallFits, StartFits
  <2>2. c.op # "start" => c.op \in {"stop", "restart"}
    BY <1>1 DEF CallType
  <2>3. c.op # "start" => c.at = 1 /\ \A a \in Alive(c.vm) \cup Running(c.vm) : ~(a < 1)
    BY <1>1 DEF CallFits, LoopFits, Alive, Running, Agent
  <2> QED
    BY <1>1, <1>2, <1>5, <1>6, <1>9, <2>1, <2>2, <2>3
       DEF CallFits, PointFits, StartFits, LoopFits, WaitFits, Running
<1>11. \A q \in Request : CallFits(call[q])'
  BY <1>5, <1>7, <1>8, <1>10, SameFits
<1>12. Exclusive'
  BY <1>2, <1>5 DEF IInv, Exclusive, Lock, MutexFree
<1>13. OneStart'
  BY <1>1, <1>2, <1>5, <1>6 DEF IInv, OneStart
<1>14. RunsOnce'
  BY <1>8, OnceKept DEF IInv
<1> QED
  BY <1>7, <1>11, <1>12, <1>13, <1>14 DEF IInv

(* The guest comes up where the instance is not alive, under the mutex: no  *)
(* stop waits for it and no loop is running.                                *)
LEMMA StartStep ==
  ASSUME IInv, NEW r \in Request, AgentStart(r)
  PROVE  IInv'
<1> DEFINE c == call[r]
<1>1. /\ c \in CallType /\ CallFits(c) /\ c.vm \in Vm /\ c.at \in Agent
      /\ c.pc = "agent" /\ c.op = "start"
  BY CallTyped DEF AgentStart, At, IInv, TypeOK
<1>2. up' = up /\ excused' = excused /\ up \subseteq Agent
  BY DEF AgentStart, IInv, TypeOK
<1>3. CASE domain' = domain /\ End(r, "error")
  BY <1>2, <1>3, Ends, SameDomains DEF IInv, TypeOK, Answer
<1>4. CASE /\ domain[c.vm][c.at] = "absent"
           /\ domain' = [domain EXCEPT ![c.vm][c.at] = "off"]
           /\ End(r, "error")
  <2>1. PICK v \in Vm, a \in Agent : domain' = [domain EXCEPT ![v][a] = "off"]
    BY <1>1, <1>4
  <2>2. NoneAdded /\ domain' \in [Vm -> [Agent -> DomainState]]
    BY <1>2, <2>1, GuestGoes DEF IInv
  <2> QED
    BY <1>2, <1>4, <2>2, Ends DEF Answer
<1>5. ASSUME c.at \notin Alive(c.vm),
             domain' = [domain EXCEPT ![c.vm][c.at] = "on"],
             NEW answer \in {"ok", "error"},
             call' = [q \in Request |->
                IF q = r THEN [Idle EXCEPT !.answer = answer]
                ELSE [call[q] EXCEPT !.same =
                        @ /\ ~(call[q].vm = c.vm /\ call[q].at = c.at
                               /\ call[q].pc \in {"wait", "orphan"})]]
      PROVE  IInv'
  <2>1. PICK v \in Vm, a \in Agent : v = c.vm /\ a = c.at
    BY <1>1
  <2>2. \A w \in Vm, b \in Agent :
          domain'[w][b] = IF w = v /\ b = a THEN "on" ELSE domain[w][b]
    BY <1>5, <2>1 DEF IInv, TypeOK
  <2>3. domain' \in [Vm -> [Agent -> DomainState]]
    BY <1>5, <2>1 DEF IInv, TypeOK, DomainState
  <2>4. \A w \in Vm \ {v} : Alive(w)' = Alive(w) /\ Running(w)' = Running(w)
    BY <2>2 DEF Alive, Running
  <2>5. Alive(v)' \subseteq Alive(v) \cup {a}
    BY <2>2 DEF Alive
  <2>6. /\ call'[r] \in CallType /\ call'[r].pc = "idle" /\ call'[r].op = "none"
        /\ call'[r].same
    <3> DEFINE d == [Idle EXCEPT !.answer = answer]
    <3>1. call'[r] = d
      BY <1>5
    <3>2. d \in CallType /\ d.pc = "idle" /\ d.op = "none" /\ d.same
      <4>1. answer \in Answer
        BY DEF Answer
      <4> QED
        BY <4>1, IdleItself, AnsweredTyped
    <3> HIDE DEF d
    <3> QED
      BY <3>1, <3>2
  <2>7. ASSUME NEW q \in Request, q # r
        PROVE  /\ call'[q] \in CallType
               /\ call'[q].op = call[q].op /\ call'[q].pc = call[q].pc
               /\ call'[q].vm = call[q].vm /\ call'[q].at = call[q].at
               /\ call'[q].running <=> call[q].running
               /\ call'[q].misled <=> call[q].misled
               /\ call[q].vm # v \/ call[q].pc \notin {"wait", "orphan"}
                    => (call'[q].same <=> call[q].same)
    <3> DEFINE k == call[q]
               same == k.same /\ ~(k.vm = c.vm /\ k.at = c.at /\ k.pc \in {"wait", "orphan"})
    <3>1. call'[q] = [k EXCEPT !.same = same]
      BY <1>5, <2>7
    <3>2. k \in CallType
      BY CallTyped
    <3>3. /\ same \in BOOLEAN
          /\ k.vm # v \/ k.pc \notin {"wait", "orphan"} => (same <=> k.same)
      BY <2>1, <3>2 DEF CallType
    <3> HIDE DEF same
    <3> QED
      BY <3>1, <3>2, <3>3 DEF CallType
  <2>8. TypeOK'
    <3>1. call' \in [Request -> CallType]
      BY <1>5, <2>6, <2>7
    <3> QED
      BY <1>2, <2>3, <2>6, <2>7, <3>1 DEF IInv, TypeOK
  <2>9. \A q \in Request : call[q].vm = v /\ call[q].pc \in Held => q = r
    BY <1>1, <2>1 DEF IInv, Exclusive, Held
  <2>10. v \notin excused =>
            \A q \in Request : call[q].op = "start" /\ call[q].vm = v => q = r
    BY <1>1, <2>1 DEF IInv, OneStart
  <2>11. ASSUME NEW q \in Request PROVE CallFits(call[q])'
    <3>1. CASE q = r
      BY <2>6, <3>1 DEF CallFits, PointFits, StartFits, LoopFits, WaitFits
    <3>2. CASE q # r
      <4>1. CallFits(call[q]) /\ (call[q].pc # "idle" => call[q].vm \in Vm)
        BY CallTyped
      <4>2. PointFits(call[q])'
        BY <2>7, <3>2, <4>1 DEF CallFits, PointFits
      <4>3. StartFits(call[q])'
        BY <1>2, <2>4, <2>7, <2>10, <3>2, <4>1 DEF CallFits, PointFits, StartFits
      <4>4. LoopFits(call[q])'
        BY <2>4, <2>7, <2>9, <3>2, <4>1 DEF CallFits, LoopFits, Held
      <4>5. WaitFits(call[q])'
        BY <1>2, <2>4, <2>7, <2>9, <3>2, <4>1 DEF CallFits, WaitFits, Held
      <4> QED
        BY <4>2, <4>3, <4>4, <4>5 DEF CallFits
    <3> QED
      BY <3>1, <3>2
  <2>12. Exclusive'
    BY <2>6, <2>7 DEF IInv, Exclusive, Held
  <2>13. OneStart'
    BY <1>2, <2>6, <2>7 DEF IInv, OneStart
  <2>14. RunsOnce'
    <3>1. v \notin excused => Alive(v) = {}
      BY <1>1, <2>1 DEF CallFits, StartFits
    <3>2. v \notin excused => Alive(v)' \subseteq {a}
      BY <2>5, <3>1
    <3> QED
      BY <1>2, <2>4, <3>2 DEF IInv, RunsOnce
  <2> QED
    BY <2>8, <2>11, <2>12, <2>13, <2>14 DEF IInv
<1> QED
  BY <1>3, <1>4, <1>5 DEF AgentStart

LEMMA RefuseStep ==
  ASSUME IInv, NEW r \in Request, AgentRefuses(r)
  PROVE  IInv'
<1> DEFINE c == call[r]
           d == [c EXCEPT !.at = @ + 1]
<1>1. /\ c \in CallType /\ CallFits(c) /\ c.vm \in Vm /\ c.at \in Agent
      /\ c.pc = "agent" /\ c.op # "start"
  BY CallTyped DEF AgentRefuses, At, IInv, TypeOK
<1>2. /\ c.at \notin Running(c.vm)
      /\ c.op = "stop" => c.at \notin Alive(c.vm)
  BY <1>1 DEF AgentRefuses, Home, Running, Alive
<1>3. d \in CallType
  BY <1>1, NextAgent DEF CallType
<1>4. /\ d.op = c.op /\ d.pc = "agent" /\ d.vm = c.vm /\ d.at = c.at + 1
      /\ d.misled <=> c.misled
      /\ d.same <=> c.same
  BY <1>1 DEF CallType
<1>5. call' = [call EXCEPT ![r] = d]
  BY DEF AgentRefuses
<1> HIDE DEF d
<1>6. \A a \in Alive(c.vm) \cup Running(c.vm) : a < d.at => a < c.at \/ a = c.at
  BY <1>1, <1>4 DEF Agent, Alive, Running
<1>7. PointFits(d) /\ StartFits(d) /\ WaitFits(d)
  BY <1>1, <1>4 DEF CallFits, PointFits, StartFits, WaitFits
<1>8. LoopFits(d)
  BY <1>1, <1>2, <1>4, <1>6 DEF CallFits, LoopFits
<1>9. Follows(c, d)
  BY <1>1, <1>4 DEF Follows
<1> QED
  BY <1>1, <1>3, <1>4, <1>5, <1>7, <1>8, <1>9, Moves DEF AgentRefuses, CallFits

LEMMA StopStep ==
  ASSUME IInv, NEW r \in Request, AgentStop(r)
  PROVE  IInv'
<1> DEFINE c == call[r]
           d == [c EXCEPT !.pc = "wait"]
<1>1. /\ c \in CallType /\ CallFits(c) /\ c.vm \in Vm /\ c.at \in Agent
      /\ c.pc = "agent" /\ c.op = "stop"
  BY CallTyped DEF AgentStop, At, IInv, TypeOK
<1>2. c.at \in Alive(c.vm)
  BY <1>1 DEF AgentStop, Home, Alive
<1>3. d \in CallType
  BY <1>1 DEF CallType, Points
<1>4. /\ d.op = "stop" /\ d.pc = "wait" /\ d.vm = c.vm /\ d.at = c.at
      /\ d.same <=> c.same
  BY <1>1 DEF CallType
<1>5. call' = [call EXCEPT ![r] = d]
  BY DEF AgentStop
<1> HIDE DEF d
<1>6. c.vm \notin excused => Alive(c.vm) \subseteq {c.at}
  BY <1>1, <1>2 DEF IInv, RunsOnce
<1>7. CallFits(d)
  BY <1>1, <1>4, <1>6 DEF CallFits, PointFits, StartFits, LoopFits, WaitFits
<1>8. Follows(c, d)
  BY <1>1, <1>4 DEF Follows, Held
<1> QED
  BY <1>1, <1>3, <1>4, <1>5, <1>7, <1>8, Moves DEF AgentStop

LEMMA RestartStep ==
  ASSUME IInv, NEW r \in Request, AgentRestart(r)
  PROVE  IInv'
BY Ends, SameDomains DEF AgentRestart, IInv, TypeOK, Answer

LEMMA ExhaustedStep ==
  ASSUME IInv, NEW r \in Request, Exhausted(r)
  PROVE  IInv'
<1>1. PICK answer \in Answer : End(r, answer)
  BY DEF Exhausted, Answer
<1> QED
  BY <1>1, Ends, SameDomains DEF Exhausted, IInv, TypeOK

LEMMA SeesOffStep ==
  ASSUME IInv, NEW r \in Request, AgentSeesOff(r)
  PROVE  IInv'
<1>1. PICK answer \in Answer : End(r, answer)
  BY DEF AgentSeesOff, Answer
<1> QED
  BY <1>1, Ends, SameDomains DEF AgentSeesOff, IInv, TypeOK

LEMMA ForcesStep ==
  ASSUME IInv, NEW r \in Request, AgentForces(r)
  PROVE  IInv'
<1>1. PICK answer \in Answer : End(r, answer)
  BY DEF AgentForces, Answer
<1>2. call[r].vm \in Vm /\ call[r].at \in Agent
  BY DEF AgentForces, Stopping, At, IInv, TypeOK
<1>3. PICK v \in Vm, a \in Agent : domain' = [domain EXCEPT ![v][a] = "off"]
  BY <1>2 DEF AgentForces
<1>4. NoneAdded /\ domain' \in [Vm -> [Agent -> DomainState]]
  BY <1>3, GuestGoes DEF IInv, AgentForces
<1> QED
  BY <1>1, <1>4, Ends DEF AgentForces, IInv, TypeOK

LEMMA AbandonStep ==
  ASSUME IInv, NEW r \in Request, Abandon(r)
  PROVE  IInv'
<1> DEFINE c == call[r]
           d == [c EXCEPT !.pc = "orphan"]
<1>1. /\ c \in CallType /\ CallFits(c) /\ c.vm \in Vm /\ c.at \in Agent
      /\ c.pc = "wait" /\ c.op = "stop"
  BY CallTyped DEF Abandon, At, IInv, TypeOK, CallFits, PointFits
<1>2. d \in CallType
  BY <1>1 DEF CallType, Points
<1>3. d.op = "stop" /\ d.pc = "orphan" /\ d.vm = c.vm /\ d.at = c.at
  BY <1>1 DEF CallType
<1>4. call' = [call EXCEPT ![r] = d]
  BY DEF Abandon
<1> HIDE DEF d
<1>5. CallFits(d)
  BY <1>3 DEF CallFits, PointFits, StartFits, LoopFits, WaitFits
<1>6. Follows(c, d)
  BY <1>1, <1>3 DEF Follows, Held
<1> QED
  BY <1>1, <1>2, <1>3, <1>4, <1>5, <1>6, Moves DEF Abandon

LEMMA BrokenStep ==
  ASSUME IInv, NEW r \in Request, Broken(r)
  PROVE  IInv'
BY Ends, SameDomains DEF Broken, IInv, TypeOK, Answer

LEMMA GuestStep ==
  ASSUME IInv, NEW v \in Vm, NEW a \in Agent, GuestShutsDown(v, a)
  PROVE  IInv'
<1>1. PICK state \in {"closing", "off"} :
        /\ a \in Alive(v) \/ state = "off"
        /\ domain' = [domain EXCEPT ![v][a] = state]
  BY DEF GuestShutsDown, Alive
<1>2. NoneAdded /\ domain' \in [Vm -> [Agent -> DomainState]]
  <2>1. CASE state = "closing"
    BY <1>1, <2>1, GuestGoes DEF IInv, GuestShutsDown
  <2>2. CASE state = "off"
    BY <1>1, <2>2, GuestGoes DEF IInv, GuestShutsDown
  <2> QED
    BY <2>1, <2>2
<1>3. TypeOK'
  BY <1>2 DEF IInv, TypeOK, GuestShutsDown
<1>4. \A q \in Request : call'[q] = call[q] /\ Follows(call[q], call'[q])
  BY DEF GuestShutsDown, Follows
<1> QED
  BY <1>2, <1>3, <1>4, Quiet

LEMMA UpStep ==
  ASSUME IInv, NEW a \in Agent, AgentSilent(a) \/ AgentBack(a)
  PROVE  IInv'
<1>1. NoneAdded
  BY SameDomains DEF AgentSilent, AgentBack
<1>2. TypeOK'
  BY DEF IInv, TypeOK, AgentSilent, AgentBack
<1>3. \A q \in Request : call'[q] = call[q] /\ Follows(call[q], call'[q])
  BY DEF AgentSilent, AgentBack, Follows
<1> QED
  BY <1>1, <1>2, <1>3, Quiet

LEMMA DiesStep ==
  ASSUME IInv, NEW a \in Agent, AgentDies(a)
  PROVE  IInv'
<1> DEFINE d == [Idle EXCEPT !.answer = "error"]
<1>1. d \in CallType /\ d.pc = "idle" /\ d.op = "none" /\ d.same
  <2>1. "error" \in Answer
    BY DEF Answer
  <2> QED
    BY <2>1, IdleItself, AnsweredTyped
<1>2. \A q \in Request : call'[q] = call[q] \/ call'[q] = d
  BY DEF AgentDies
<1>3. call' \in [Request -> CallType]
  BY <1>1 DEF AgentDies, IInv, TypeOK
<1> HIDE DEF d
<1>4. NoneAdded /\ domain' \in [Vm -> [Agent -> DomainState]]
  <2>1. CASE domain' = domain
    BY <2>1, SameDomains DEF AgentDies, IInv, TypeOK
  <2>2. CASE domain' = [v \in Vm |-> [domain[v] EXCEPT ![a] =
                          IF a \in Alive(v) THEN "off" ELSE @]]
    <3>1. \A w \in Vm, b \in Agent :
            domain'[w][b] = IF b = a /\ a \in Alive(w) THEN "off" ELSE domain[w][b]
      BY <2>2 DEF IInv, TypeOK
    <3>2. domain' \in [Vm -> [Agent -> DomainState]]
      BY <2>2 DEF IInv, TypeOK, DomainState
    <3>3. ASSUME NEW w \in Vm
          PROVE  Alive(w)' \subseteq Alive(w) /\ Running(w)' \subseteq Running(w)
      BY <3>1 DEF Alive, Running
    <3> QED
      BY <3>2, <3>3 DEF NoneAdded, AgentDies
  <2> QED
    BY <2>1, <2>2 DEF AgentDies
<1>5. TypeOK'
  BY <1>1, <1>2, <1>3, <1>4 DEF IInv, TypeOK, AgentDies
<1>6. \A q \in Request : Follows(call[q], call'[q])
  BY <1>1, <1>2 DEF Follows
<1>7. \A q \in Request : call'[q] = call[q] \/ CallFits(call[q])'
  BY <1>1, <1>2 DEF CallFits, PointFits, StartFits, LoopFits, WaitFits
<1> QED
  BY <1>4, <1>5, <1>6, <1>7, Quiet

(***************************************************************************)
(* 4. The invariant and what follows from it.                              *)
(***************************************************************************)

LEMMA Start == Init => IInv
<1> SUFFICES ASSUME Init PROVE IInv
  OBVIOUS
<1>1. PICK home \in [Vm -> Agent] :
        domain = [v \in Vm |-> [a \in Agent |-> IF a = home[v] THEN "off" ELSE "absent"]]
  BY DEF Init
<1>2. \A v \in Vm : Alive(v) = {}
  BY <1>1 DEF Alive
<1>3. \A r \in Request : call[r] = Idle
  BY DEF Init
<1>4. TypeOK
  BY <1>1, <1>3, IdleItself DEF Init, TypeOK, DomainState
<1>5. \A r \in Request : CallFits(call[r])
  BY <1>3, IdleItself DEF CallFits, PointFits, StartFits, LoopFits, WaitFits
<1> QED
  BY <1>2, <1>3, <1>4, <1>5, IdleItself DEF IInv, Exclusive, OneStart, RunsOnce, Held

LEMMA EachStep == IInv /\ [Next]_vars => IInv'
<1> SUFFICES ASSUME IInv, [Next]_vars PROVE IInv'
  OBVIOUS
<1>1. CASE UNCHANGED vars
  BY <1>1 DEF vars, IInv, TypeOK, Exclusive, OneStart, RunsOnce, Alive, Running, Home,
              CallFits, PointFits, StartFits, LoopFits, WaitFits
<1>2. ASSUME NEW r \in Request, Begin(r) \/ Lock(r) \/ Step(r) \/ Abandon(r) \/ Broken(r)
      PROVE  IInv'
  BY <1>2, BeginStep, LockStep, AbandonStep, BrokenStep, SkipStep, AskStep, CheckStep,
     SelectStep, StartStep, RefuseStep, RestartStep, StopStep, ExhaustedStep,
     SeesOffStep, ForcesStep DEF Step
<1>3. ASSUME NEW a \in Agent,
             (\E v \in Vm : GuestShutsDown(v, a))
                \/ AgentSilent(a) \/ AgentBack(a) \/ AgentDies(a)
      PROVE  IInv'
  BY <1>3, GuestStep, UpStep, DiesStep
<1> QED
  BY <1>1, <1>2, <1>3 DEF Next

THEOREM Invariance == Spec => []IInv
<1> QED
  BY Start, EachStep, PTL DEF Spec

(* Every request keeps to the agents there are, and every variable to its   *)
(* type.                                                                    *)
THEOREM TypeCorrect == Spec => []TypeOK
<1>1. IInv => TypeOK
  BY DEF IInv
<1> QED
  BY <1>1, Invariance, PTL

(* An instance no start was wrong about is alive on one agent at most,      *)
(* however many agents and requests there are.                              *)
THEOREM RunsOnAtMostOne == Spec => []RunsOnce
<1>1. IInv => RunsOnce
  BY DEF IInv
<1> QED
  BY <1>1, Invariance, PTL

(* The mutex keeps starts away from the guest a stop is waiting for.        *)
THEOREM NoOtherGuestStopped == Spec => []StopsTheSameGuest
<1>1. IInv => StopsTheSameGuest
  BY DEF IInv, StopsTheSameGuest, At, CallFits, WaitFits
<1> QED
  BY <1>1, Invariance, PTL

(* A step of one request leaves the program point of another. *)
LEMMA OthersStay ==
  ASSUME IInv, NEW r \in Request, NEW q \in Request, q # r,
         Begin(q) \/ Lock(q) \/ Step(q) \/ Abandon(q) \/ Broken(q)
  PROVE  call'[r].pc = call[r].pc
<1>1. CASE AgentStart(q)
  <2> DEFINE same == /\ call[r].same
                     /\ ~(call[r].vm = call[q].vm /\ call[r].at = call[q].at
                           /\ call[r].pc \in {"wait", "orphan"})
  <2>1. CASE End(q, "error")
    BY <2>1 DEF End, IInv, TypeOK
  <2>2. CASE ~End(q, "error")
    <3>1. call'[r] = [call[r] EXCEPT !.same = same]
      BY <1>1, <2>2 DEF AgentStart
    <3>2. call[r] \in CallType
      BY CallTyped
    <3> HIDE DEF same
    <3> QED
      BY <3>1, <3>2 DEF CallType
  <2> QED
    BY <2>1, <2>2
<1>2. CASE ~AgentStart(q)
  <2>1. \E d : call' = [call EXCEPT ![q] = d]
    BY <1>2 DEF Begin, Lock, Step, Abandon, Broken, Skip, AskStatus, CheckIfVmIsRunning,
       SelectServerAgent, AgentRefuses, AgentRestart, AgentStop, Exhausted,
       AgentSeesOff, AgentForces, End
  <2> QED
    BY <2>1 DEF IInv, TypeOK
<1> QED
  BY <1>1, <1>2

(* What a loop reports follows from the agents it is past. *)
LEMMA ReportsTrue ==
  ASSUME IInv, NEW r \in Request, NEW v \in Vm, call[r].vm = v, call[r].pc \in Held,
         Begin(r) \/ Lock(r) \/ Step(r) \/ Abandon(r) \/ Broken(r),
         call'[r].pc = "idle", ~call[r].misled
  PROVE  /\ call[r].op = "stop" /\ call'[r].answer = "ok" /\ v \notin excused => Alive(v)' = {}
         /\ call'[r].answer = "not running" => Running(v)' = {}
<1> DEFINE c == call[r]
<1>1. c \in CallType /\ CallFits(c)
  BY CallTyped
<1>2. ASSUME NEW answer, End(r, answer) PROVE call'[r].answer = answer
  BY <1>2 DEF End, Idle, IInv, TypeOK
<1>3. CASE Exhausted(r)
  <2>1. domain' = domain /\ c.pc = "agent" /\ c.at = Agents + 1 /\ c.op \in {"stop", "restart"}
    BY <1>1, <1>3 DEF Exhausted, At, CallFits, PointFits, CallType
  <2>2. \A a \in Agent : a < c.at
    BY <2>1, AgentsAssumption DEF Agent
  <2>3. Alive(v)' = Alive(v) /\ Running(v)' = Running(v)
    BY <2>1 DEF Alive, Running
  <2>4. c.op = "stop" => Alive(v) = {}
    BY <1>1, <2>1, <2>2 DEF CallFits, LoopFits, Alive
  <2>5. c.op = "restart" => Running(v) = {}
    BY <1>1, <2>1, <2>2 DEF CallFits, LoopFits, Running
  <2>6. Running(v) \subseteq Alive(v)
    BY DEF Running, Alive
  <2> QED
    BY <2>1, <2>3, <2>4, <2>5, <2>6
<1>4. CASE AgentSeesOff(r)
  <2>1. c.pc = "wait" /\ domain' = domain /\ domain[v][c.at] = "off"
    BY <1>4 DEF AgentSeesOff, Stopping, At, Held, Home
  <2>2. v \notin excused => Alive(v) \subseteq {c.at}
    BY <1>1, <2>1 DEF CallFits, WaitFits
  <2>3. v \notin excused => Alive(v)' = {}
    BY <2>1, <2>2 DEF Alive
  <2>4. call'[r].answer # "not running"
    BY <1>2, <1>4 DEF AgentSeesOff
  <2> QED
    BY <2>3, <2>4
<1>5. CASE AgentForces(r)
  <2>1. c.pc = "wait" /\ c.at \in Agent
    BY <1>5 DEF AgentForces, Stopping, At, Held, IInv, TypeOK
  <2>2. \A b \in Agent : domain'[v][b] = IF b = c.at THEN "off" ELSE domain[v][b]
    BY <1>5, <2>1 DEF AgentForces, IInv, TypeOK
  <2>3. v \notin excused => Alive(v) \subseteq {c.at}
    BY <1>1, <2>1 DEF CallFits, WaitFits
  <2>4. v \notin excused => Alive(v)' = {}
    BY <2>2, <2>3 DEF Alive
  <2>5. call'[r].answer # "not running"
    BY <1>2, <1>5 DEF AgentForces
  <2> QED
    BY <2>4, <2>5
<1>6. CASE AgentStart(r)
  <2>1. c.op = "start" /\ call'[r].answer \in {"ok", "error"}
    BY <1>2, <1>6 DEF AgentStart, Idle, IInv, TypeOK
  <2> QED
    BY <2>1
<1>7. CASE AgentRestart(r)
  <2>1. c.op = "restart" /\ call'[r].answer = "ok"
    BY <1>2, <1>7 DEF AgentRestart
  <2> QED
    BY <2>1
<1>8. CASE Broken(r)
  <2>1. call'[r].answer = "error"
    BY <1>2, <1>8 DEF Broken
  <2> QED
    BY <2>1
<1>9. CASE Skip(r) \/ AgentRefuses(r) \/ AgentStop(r) \/ Abandon(r)
  <2>1. call'[r].pc # "idle"
    BY <1>1, <1>9 DEF Skip, AgentRefuses, AgentStop, Abandon, Held, IInv, TypeOK, CallType
  <2> QED
    BY <2>1
<1>10. CASE Begin(r) \/ Lock(r) \/ AskStatus(r) \/ CheckIfVmIsRunning(r) \/ SelectServerAgent(r)
  BY <1>10 DEF Begin, Lock, AskStatus, CheckIfVmIsRunning, SelectServerAgent, At, Held
<1> QED
  BY <1>3, <1>4, <1>5, <1>6, <1>7, <1>8, <1>9, <1>10 DEF Step

(* After a stop that succeeds the instance is alive nowhere, and a restart  *)
(* that found nobody was right, save where an agent was passed over or an   *)
(* instance may be alive twice.                                             *)
THEOREM LoopsReportTruly == Spec => AnswersTrue
<1> DEFINE True(r, v) ==
        call[r].vm = v /\ call[r].pc \in Held /\ call'[r].pc = "idle" =>
            /\ call[r].op = "stop" /\ call'[r].answer = "ok"
               /\ ~call[r].misled /\ v \notin excused => Alive(v)' = {}
            /\ call'[r].answer = "not running" /\ ~call[r].misled
               => Running(v)' = {}
<1>1. ASSUME IInv, [Next]_vars, NEW r \in Request, NEW v \in Vm
      PROVE  True(r, v)
  <2>1. CASE call'[r].pc = call[r].pc
    BY <2>1 DEF Held
  <2>2. CASE UNCHANGED vars
    BY <2>1, <2>2 DEF vars
  <2>3. ASSUME NEW q \in Request, Begin(q) \/ Lock(q) \/ Step(q) \/ Abandon(q) \/ Broken(q)
        PROVE  True(r, v)
    <3>1. CASE q # r
      BY <1>1, <2>1, <2>3, <3>1, OthersStay
    <3>2. CASE q = r
      BY <1>1, <2>3, <3>2, ReportsTrue
    <3> QED
      BY <3>1, <3>2
  <2>4. ASSUME NEW a \in Agent, (\E w \in Vm : GuestShutsDown(w, a))
                                    \/ AgentSilent(a) \/ AgentBack(a)
        PROVE  True(r, v)
    BY <2>1, <2>4 DEF GuestShutsDown, AgentSilent, AgentBack
  <2>5. ASSUME NEW a \in Agent, AgentDies(a) PROVE True(r, v)
    <3>1. call'[r] = call[r] \/ call'[r].answer = "error"
      BY <2>5 DEF AgentDies, Idle
    <3> QED
      BY <2>1, <3>1
  <2> QED
    BY <1>1, <2>2, <2>3, <2>4, <2>5 DEF Next
<1>2. IInv /\ [Next]_vars => \A r \in Request, v \in Vm : True(r, v)
  BY <1>1
<1> QED
  BY <1>2, Invariance, PTL DEF Spec, AnswersTrue
=============================================================================
