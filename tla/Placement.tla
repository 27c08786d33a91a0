----------------------------- MODULE Placement -----------------------------
(***************************************************************************)
(* Where an instance runs: StartInstance, StopInstance and RestartInstance *)
(* of the VMS Manager (vms-manager/service.go) over the server agents      *)
(* (server-agent/server_agent.go), each with its own libvirt domains over  *)
(* one shared storage.  A request asks agent after agent whether the       *)
(* instance runs, and only then takes the instance's mutex.  Agents fall   *)
(* silent and come back, machines die, guests shut down by themselves.     *)
(* The rows of the instances stay: deleting them is in InstanceLifecycle.  *)
(***************************************************************************)
EXTENDS Naturals, FiniteSets

CONSTANTS
    Request,    \* the requests that may be in progress at once
    Vm,         \* the instances, all with a row
    Agents,     \* the number of serverAgentsURLs
    None        \* no instance

ASSUME AgentsAssumption == Agents \in Nat \ {0}
ASSUME NoneAssumption == None \notin Vm

Agent == 1 .. Agents

VARIABLES
    domain,     \* the state of the instance's domain on each agent
    up,         \* the agents that answer
    call,       \* the requests in progress
    excused     \* instances a start was wrong about (see Overlaps and Lock)

vars == <<domain, up, call, excused>>

DomainState == {"absent", "off", "on", "closing"}

(* virsh calls them "running" and "in shutdown". *)
Running(v) == {a \in Agent : domain[v][a] = "on"}
Alive(v)   == {a \in Agent : domain[v][a] \in {"on", "closing"}}
-----------------------------------------------------------------------------
(* "ask" is ListInstancesStatus, "agent" the calls made under the mutex and *)
(* "wait" the time the agent's StopInstance takes.  At "orphan" the agent   *)
(* goes on stopping though the caller has given up.                         *)
Points == {"idle", "ask", "select", "lock", "agent", "wait", "orphan"}
Held   == {"agent", "wait"}

Idle == [op |-> "none", pc |-> "idle", vm |-> None,
         at |-> 1,              \* the agent to call next, or the chosen one
         running |-> FALSE,     \* an agent said that the instance runs
         misled |-> FALSE,      \* an agent with a live guest did not say so
         same |-> TRUE,         \* the guest is the one that was to be stopped
         answer |-> "none"]

At(r, point) == call[r].pc = point
Home(r)  == domain[call[r].vm][call[r].at]
Asked(r) == At(r, "ask") \/ (At(r, "agent") /\ call[r].op # "start")

(* The handler returns, and releases the mutex if it has it. *)
End(r, answer) == call' = [call EXCEPT ![r] = [Idle EXCEPT !.answer = answer]]

(* Two starts of an instance in progress at once: neither sees the other's. *)
Overlaps(r, v) == \E q \in Request \ {r} : call[q].op = "start" /\ call[q].vm = v

Begin(r) ==
    /\ At(r, "idle")
    /\ \E v \in Vm, op \in {"start", "stop", "restart"} :
        /\ call' = [call EXCEPT ![r] = [Idle EXCEPT !.op = op, !.pc = "ask", !.vm = v]]
        /\ excused' = IF op = "start" /\ Overlaps(r, v)
                      THEN excused \cup {v} ELSE excused
    /\ UNCHANGED <<domain, up>>

(* checkIfServerAgentIsAlive fails: the loops go on to the next agent. *)
Skip(r) ==
    /\ Asked(r)
    /\ call[r].at \in Agent \ up
    /\ call' = [call EXCEPT
           ![r].at = @ + 1,
           ![r].misled = @ \/ Home(r) \in {"on", "closing"}]
    /\ UNCHANGED <<domain, up, excused>>

(* Wrong: the last agent that knows the instance decides. *)
LastAnswer(before, state) == state = "on"

(* "running" stays whatever the agents asked later say of the instance. *)
SeenRunning(before, state) == before \/ state = "on"

AskStatus(r) ==
    /\ At(r, "ask")
    /\ call[r].at \in up
    /\ call' = [call EXCEPT
           ![r].at = @ + 1,
           ![r].running = SeenRunning(@, Home(r)),
           ![r].misled = @ \/ Home(r) = "closing"]
    /\ UNCHANGED <<domain, up, excused>>

(* checkIfVmIsRunning: an instance nobody lists counts as shut off. *)
CheckIfVmIsRunning(r) ==
    /\ At(r, "ask")
    /\ call[r].at = Agents + 1
    /\ IF call[r].running = (call[r].op = "start")
       THEN End(r, "refused")
       ELSE call' = [call EXCEPT ![r].at = 1,
                ![r].pc = IF call[r].op = "start" THEN "select" ELSE "lock"]
    /\ UNCHANGED <<domain, up, excused>>

(* The best agent by free memory and load, which come and go: any of them. *)
Selected == up

(* If no agent answers, or all are busy, the request fails. *)
SelectServerAgent(r) ==
    /\ At(r, "select")
    /\ \/ \E a \in Selected : call' = [call EXCEPT ![r].pc = "lock", ![r].at = a]
       \/ End(r, "error")
    /\ UNCHANGED <<domain, up, excused>>

(* Wrong: the mutex is released before the agent has stopped the guest. *)
MutexReleasedEarly(v) == \A q \in Request : call[q].vm = v => ~At(q, "agent")

MutexFree(v) == \A q \in Request : call[q].vm = v => call[q].pc \notin Held

(* Nothing is asked again under the mutex: a start that was misled goes on. *)
Lock(r) ==
    /\ At(r, "lock")
    /\ MutexFree(call[r].vm)
    /\ call' = [call EXCEPT ![r].pc = "agent", ![r].misled = FALSE]
    /\ excused' = IF call[r].op = "start" /\ call[r].misled /\ Alive(call[r].vm) # {}
                  THEN excused \cup {call[r].vm} ELSE excused
    /\ UNCHANGED <<domain, up>>
-----------------------------------------------------------------------------
(* StartInstance on the chosen agent: the domain is imported if need be and  *)
(* started, which libvirt refuses if it is alive there.  It may fail before, *)
(* or after, when the network is set up.  The guest it brings up is not the  *)
(* one an agent was told to stop.                                            *)
AgentStart(r) ==
    LET v == call[r].vm  a == call[r].at IN
    /\ At(r, "agent") /\ call[r].op = "start"
    /\ \/ /\ a \in up \ Alive(v)
          /\ domain' = [domain EXCEPT ![v][a] = "on"]
          /\ \E answer \in {"ok", "error"} :
                call' = [q \in Request |->
                    IF q = r THEN [Idle EXCEPT !.answer = answer]
                    ELSE [call[q] EXCEPT !.same =
                            @ /\ ~(call[q].vm = v /\ call[q].at = a
                                   /\ call[q].pc \in {"wait", "orphan"})]]
       \/ /\ a \in up /\ domain[v][a] = "absent"
          /\ domain' = [domain EXCEPT ![v][a] = "off"]
          /\ End(r, "error")
       \/ domain' = domain /\ End(r, "error")
    /\ UNCHANGED <<up, excused>>

(* The loops of StopInstance and RestartInstance.  An agent without a        *)
(* running domain answers 400; one that is shutting down may be rebooted,    *)
(* refuse it or not count as running.                                        *)
AgentRefuses(r) ==
    /\ At(r, "agent") /\ call[r].op # "start"
    /\ call[r].at \in up
    /\ Home(r) \in {"absent", "off"} \/ (Home(r) = "closing" /\ call[r].op = "restart")
    /\ call' = [call EXCEPT ![r].at = @ + 1]
    /\ UNCHANGED <<domain, up, excused>>

AgentRestart(r) ==
    /\ At(r, "agent") /\ call[r].op = "restart"
    /\ call[r].at \in up
    /\ Home(r) \in {"on", "closing"}
    /\ End(r, "ok")
    /\ UNCHANGED <<domain, up, excused>>

(* Wrong: the agent answers as soon as the guest is asked to shut down. *)
AgentStopAtOnce(r) ==
    /\ At(r, "agent") /\ call[r].op = "stop"
    /\ call[r].at \in up
    /\ Home(r) \in {"on", "closing"}
    /\ End(r, "ok")
    /\ UNCHANGED <<domain, up, excused>>

AgentStop(r) ==
    /\ At(r, "agent") /\ call[r].op = "stop"
    /\ call[r].at \in up
    /\ Home(r) \in {"on", "closing"}
    /\ call' = [call EXCEPT ![r].pc = "wait"]
    /\ UNCHANGED <<domain, up, excused>>

(* No agent said 200: StopInstance is content, RestartInstance is not. *)
Exhausted(r) ==
    /\ At(r, "agent") /\ call[r].op # "start"
    /\ call[r].at = Agents + 1
    /\ End(r, IF call[r].op = "stop" THEN "ok" ELSE "not running")
    /\ UNCHANGED <<domain, up, excused>>

(* The agent's StopInstance sees the guest shut off.  If it tried to shut it *)
(* down again at that moment, it answers an error.  Its answer arrives if    *)
(* the agent is not silent.                                                  *)
Stopping(r) == At(r, "orphan") \/ (At(r, "wait") /\ call[r].at \in up)

AgentSeesOff(r) ==
    /\ Stopping(r)
    /\ Home(r) = "off"
    /\ \E answer \in IF At(r, "wait") THEN {"ok", "error"} ELSE {"error"} :
            End(r, answer)
    /\ UNCHANGED <<domain, up, excused>>

(* Wrong: the agent waits for the guest as long as it takes. *)
AgentNeverForces(r) == FALSE

(* After FORCE_SHUTDOWN_WAIT_TIME the guest is destroyed, whoever it is. *)
AgentForces(r) ==
    /\ Stopping(r)
    /\ Home(r) \in {"on", "closing"}
    /\ domain' = [domain EXCEPT ![call[r].vm][call[r].at] = "off"]
    /\ End(r, IF At(r, "wait") THEN "ok" ELSE "error")
    /\ UNCHANGED <<up, excused>>

(* The caller loses the connection to an agent that is stopping a guest, or  *)
(* the VMS Manager is started again: the agent does not notice.              *)
Abandon(r) ==
    /\ At(r, "wait")
    /\ call' = [call EXCEPT ![r].pc = "orphan"]
    /\ UNCHANGED <<domain, up, excused>>

(* Any other call to an agent that fails ends the request. *)
Broken(r) ==
    /\ Asked(r) \/ Stopping(r)
    /\ call[r].at \in Agent
    /\ End(r, "error")
    /\ UNCHANGED <<domain, up, excused>>
-----------------------------------------------------------------------------
(* Around the requests. *)

GuestShutsDown(v, a) ==
    /\ \/ domain[v][a] = "on" /\ domain' = [domain EXCEPT ![v][a] = "closing"]
       \/ domain[v][a] = "closing" /\ domain' = [domain EXCEPT ![v][a] = "off"]
    /\ UNCHANGED <<up, call, excused>>

AgentSilent(a) ==
    /\ a \in up
    /\ up' = up \ {a}
    /\ UNCHANGED <<domain, call, excused>>

AgentBack(a) ==
    /\ a \notin up
    /\ up' = up \cup {a}
    /\ UNCHANGED <<domain, call, excused>>

(* The agent's process ends, with the machine and its guests or without. *)
AgentDies(a) ==
    /\ up' = up \ {a}
    /\ \/ domain' = domain
       \/ domain' = [v \in Vm |-> [domain[v] EXCEPT ![a] =
                        IF a \in Alive(v) THEN "off" ELSE @]]
    /\ call' = [r \in Request |->
           IF call[r].pc \in {"wait", "orphan"} /\ call[r].at = a
           THEN [Idle EXCEPT !.answer = "error"] ELSE call[r]]
    /\ UNCHANGED excused
-----------------------------------------------------------------------------
Init ==
    /\ \E home \in [Vm -> Agent] :
        domain = [v \in Vm |-> [a \in Agent |-> IF a = home[v] THEN "off" ELSE "absent"]]
    /\ up = Agent
    /\ call = [r \in Request |-> Idle]
    /\ excused = {}

(* What a request does by itself, the agents doing their part. *)
Step(r) ==
    \/ Skip(r) \/ AskStatus(r) \/ CheckIfVmIsRunning(r) \/ SelectServerAgent(r)
    \/ AgentStart(r) \/ AgentRefuses(r) \/ AgentRestart(r) \/ AgentStop(r)
    \/ Exhausted(r) \/ AgentSeesOff(r) \/ AgentForces(r)

Next ==
    \/ \E r \in Request :
        Begin(r) \/ Lock(r) \/ Step(r) \/ Abandon(r) \/ Broken(r)
    \/ \E a \in Agent :
        \/ \E v \in Vm : GuestShutsDown(v, a)
        \/ AgentSilent(a) \/ AgentBack(a) \/ AgentDies(a)

Spec == Init /\ [][Next]_vars

(* Go's mutex hands itself to whoever waits too long, and the keep-alive of *)
(* a connection gives up on an agent that stays silent.                     *)
FairSpec ==
    /\ Spec
    /\ \A r \in Request :
        /\ WF_vars(Step(r) \/ (Abandon(r) /\ call[r].at \notin up))
        /\ SF_vars(Lock(r))
-----------------------------------------------------------------------------
CallType ==
    [op : {"none", "start", "stop", "restart"}, pc : Points, vm : Vm \cup {None},
     at : 1 .. Agents + 1, running : BOOLEAN, misled : BOOLEAN, same : BOOLEAN,
     answer : {"none", "ok", "error", "refused", "not running"}]

(* Every variable keeps its type: in particular a request is never sent to  *)
(* an agent that is not one of serverAgentsURLs, nor past their end.        *)
TypeOK ==
    /\ domain \in [Vm -> [Agent -> DomainState]]
    /\ up \subseteq Agent
    /\ call \in [Request -> CallType]
    /\ excused \subseteq Vm
    /\ \A r \in Request : call[r].pc \notin {"idle"} => call[r].vm \in Vm
    /\ \A r \in Request :
        call[r].pc \in {"wait", "orphan"} \/ (call[r].pc \in {"lock", "agent"} /\ call[r].op = "start")
            => call[r].at \in Agent

(* An instance is alive on one agent at most: two would write to its disk   *)
(* on the shared storage.  The check and the choice of the agent come       *)
(* before the mutex and rest on the agents that answer, so instances are    *)
(* excused of which two starts were in progress at once, and those that got *)
(* started though a silent agent, or one shutting the guest down, had it    *)
(* alive until then.  Stops, restarts, dying machines and guests that shut  *)
(* down never make a second one, for all their overlapping with a start.    *)
RunsOnce ==
    \A v \in Vm \ excused : \A a, b \in Alive(v) : a = b

(* While StopInstance waits for an agent, the guest there is the one it was *)
(* asked to stop: no start brings up another that the agent would destroy   *)
(* in its place after FORCE_SHUTDOWN_WAIT_TIME.  Stops whose caller is gone *)
(* give no such promise.                                                    *)
StopsTheSameGuest ==
    \A r \in Request : At(r, "wait") => call[r].same

(* What the loops report is true when they report it: after StopInstance    *)
(* succeeds the instance is alive nowhere, even if no agent took the        *)
(* request, and when RestartInstance asks to start the instance again it    *)
(* runs nowhere.  Excused are loops that passed over an agent that had it   *)
(* alive and, for a stop, which ends at the first agent that has it,        *)
(* instances that may be alive twice.                                       *)
AnswersTrue ==
    [][\A r \in Request, v \in Vm :
        call[r].vm = v /\ call[r].pc \in Held /\ call'[r].pc = "idle" =>
            /\ call[r].op = "stop" /\ call'[r].answer = "ok"
               /\ ~call[r].misled /\ v \notin excused => Alive(v)' = {}
            /\ call'[r].answer = "not running" /\ ~call[r].misled
               => Running(v)' = {}]_vars

(* Every request ends, and so does every stop an agent goes on with after   *)
(* its caller is gone: guests that ignore the shutdown are destroyed, agents *)
(* that vanish are given up, and the mutex is passed on.                    *)
CallsEnd ==
    \A r \in Request : call[r].pc # "idle" ~> call[r].pc = "idle"
=============================================================================
