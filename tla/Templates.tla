----------------------------- MODULE Templates -----------------------------
(***************************************************************************)
(* Templates of the VMS Manager and their images: DefineTemplate and       *)
(* DeleteTemplate (vms-manager/service.go), with what CreateInstance,      *)
(* DeleteInstance and StartInstance do to the same rows, images and        *)
(* mutexes.  The image of an instance is a layer over that of its template *)
(* (server-agent/server_agent.go), on storage the agents share; nothing    *)
(* but DeleteTemplate's look at vms.depends_on keeps the lower layer.      *)
(* Subjects, VLANs and the router are in InstanceLifecycle, where an       *)
(* instance runs in Placement.                                             *)
(***************************************************************************)
EXTENDS Naturals, FiniteSets

CONSTANTS
    Request,    \* the requests that may be in progress at once
    Vm,         \* identifiers of templates and instances
    Agents,     \* the number of serverAgentsURLs
    None

ASSUME AgentsAssumption == Agents \in Nat \ {0}
ASSUME NoneAssumption == None \notin Vm

Agent == 1 .. Agents

VARIABLES
    kind,       \* the row in vms: a template, an instance or none
    source,     \* the image below an image, and vms.depends_on
    image,      \* the images on the shared storage
    domain,     \* the agents that have a domain for it
    running,    \* the instances that run
    up,         \* the agents that answer
    call,       \* the requests in progress
    crossed,    \* templates deleted across a creation (see Lock)
    halfway     \* what an agent deleted without the request getting through

images == <<source, image, domain>>
ghosts == <<crossed, halfway>>
vars   == <<kind, images, running, up, call, ghosts>>

Op == {"create", "define", "delete template", "delete instance", "start"}
Deletion == {"delete template", "delete instance"}
Points == {"idle", "check", "dependents", "select", "mutex", "lock",
           "agent", "row", "forget"}
Held   == {"agent", "row", "forget"}

Idle == [op |-> "none", pc |-> "idle",
         vm |-> None,           \* whose mutex it takes
         new |-> None,          \* the identifier it made
         at |-> 1,              \* the agent it calls
         called |-> 0,          \* agentsCalled
         passed |-> FALSE,      \* it passed over an agent that has the domain
         clear |-> FALSE,       \* nothing stood against it at its checks
         slipped |-> FALSE,     \* yet the instance ran when it got the mutex
         stale |-> 0]           \* how often vmsMutexMap forgot its mutex

At(r, point) == call[r].pc = point
Does(r, op)  == call[r].op = op
End(r) == call' = [call EXCEPT ![r] = Idle]

Dependents(t) == {v \in Vm : kind[v] = "instance" /\ source[v] = t}

(* A new UUID: nothing in the system has it. *)
Fresh(v) ==
    /\ kind[v] = "none" /\ v \notin image \cup running /\ domain[v] = {}
    /\ v \notin crossed \cup halfway
    /\ \A w \in Vm : source[w] # v
    /\ \A q \in Request : v \notin {call[q].vm, call[q].new}
-----------------------------------------------------------------------------
(* Before the mutex. *)

Begin(r) ==
    /\ At(r, "idle")
    /\ \E v \in Vm, op \in Op :
        call' = [call EXCEPT ![r] = [Idle EXCEPT !.op = op, !.pc = "check", !.vm = v]]
    /\ UNCHANGED <<kind, images, running, up, ghosts>>

(* checkIfVmExists, VmIsTemplate, VmIsBase and checkIfVmIsRunning; a row     *)
(* that goes between two of them makes the next one fail.                    *)
Admissible(op, v) ==
    IF op \in {"create", "delete template"}
    THEN kind[v] = "template"
    ELSE kind[v] = "instance" /\ v \notin running

After(op) == CASE op = "delete template" -> "dependents"
               [] op \in {"create", "define"} -> "select"
               [] OTHER -> "mutex"

Check(r) ==
    /\ At(r, "check")
    /\ IF Admissible(call[r].op, call[r].vm)
       THEN \E new \in IF call[r].op \in {"create", "define"}
                       THEN {v \in Vm : Fresh(v)} ELSE {None} :
                call' = [call EXCEPT ![r].pc = After(call[r].op), ![r].new = new,
                                     ![r].clear = call[r].vm \notin running]
       ELSE End(r)
    /\ UNCHANGED <<kind, images, running, up, ghosts>>

(* Wrong: templates are deleted whoever depends on them. *)
DependentsIgnored(t) == FALSE

VmHasInstancesThatDependOnIt(t) == Dependents(t) # {}

(* DeleteTemplate looks once, before it has the mutex. *)
CheckDependents(r) ==
    /\ At(r, "dependents")
    /\ IF VmHasInstancesThatDependOnIt(call[r].vm)
       THEN End(r)
       ELSE call' = [call EXCEPT ![r].pc = "mutex",
                                 ![r].clear = Dependents(call[r].vm) = {}]
    /\ UNCHANGED <<kind, images, running, up, ghosts>>

Selected == up

(* selectServerAgent: an agent that answers, or an error. *)
SelectServerAgent(r) ==
    /\ At(r, "select")
    /\ \/ \E a \in Selected : call' = [call EXCEPT ![r].pc = "mutex", ![r].at = a]
       \/ End(r)
    /\ UNCHANGED <<kind, images, running, up, ghosts>>

GetVmMutex(r) ==
    /\ At(r, "mutex")
    /\ call' = [call EXCEPT ![r].pc = "lock"]
    /\ UNCHANGED <<kind, images, running, up, ghosts>>

(* Wrong: the mutex is not locked. *)
MutexNotLocked(v, stale) == TRUE

MutexFree(v, stale) ==
    \A q \in Request :
        call[q].vm = v /\ call[q].stale = stale => call[q].pc \notin Held

(* A creation from a template and its deletion, of which one has a mutex of *)
(* the template that vmsMutexMap has forgotten, and the other a new one.    *)
OtherMutex(r) ==
    \E q \in Request \ {r} :
        /\ call[q].vm = call[r].vm /\ call[q].pc \in Held
        /\ call[q].stale # call[r].stale
        /\ {call[q].op, call[r].op} = {"create", "delete template"}

(* What was checked is not checked again: an instance may have been made    *)
(* from the template by now, or the instance be running.                    *)
Lock(r) ==
    LET v == call[r].vm IN
    /\ At(r, "lock")
    /\ MutexFree(v, call[r].stale)
    /\ call' = [call EXCEPT ![r].pc = "agent",
                            ![r].slipped = call[r].clear /\ v \in running]
    /\ crossed' = IF \/ Does(r, "delete template") /\ call[r].clear /\ Dependents(v) # {}
                     \/ OtherMutex(r)
                  THEN crossed \cup {v} ELSE crossed
    /\ UNCHANGED <<kind, images, running, up, halfway>>
-----------------------------------------------------------------------------
(* CreateInstance and DefineTemplate under the mutex of their source.       *)

(* createVm: an image over the source's, made independent of it if it is to *)
(* be a template, and a domain.  Failures leave what was made until then.   *)
AgentCreate(r) ==
    LET v == call[r].vm  n == call[r].new  a == call[r].at IN
    /\ At(r, "agent") /\ call[r].op \in {"create", "define"}
    /\ \/ /\ a \in up /\ v \in image
          /\ image' = image \cup {n}
          /\ source' = [source EXCEPT ![n] = IF Does(r, "create") THEN v ELSE None]
          /\ domain' = [domain EXCEPT ![n] = {a}]
          /\ call' = [call EXCEPT ![r].pc = "row"] \/ End(r)
       \/ /\ a \in up /\ v \in image
          /\ image' = image \cup {n}
          /\ End(r)
          /\ UNCHANGED <<source, domain>>
       \/ End(r) /\ UNCHANGED images
    /\ UNCHANGED <<kind, running, up, ghosts>>

(* addVmToDb.  What CreateInstance does afterwards is no matter of the      *)
(* template's; should it fail, its DeleteInstance is one more request.      *)
AddVm(r) ==
    /\ At(r, "row")
    /\ kind' = [kind EXCEPT ![call[r].new] =
                    IF Does(r, "create") THEN "instance" ELSE "template"]
    /\ End(r)
    /\ UNCHANGED <<images, running, up, ghosts>>
-----------------------------------------------------------------------------
(* DeleteTemplate and DeleteInstance under the mutex.                       *)

Deletes(r) == At(r, "agent") /\ call[r].op \in Deletion

Skip(r) ==
    /\ Deletes(r)
    /\ call[r].at \in Agent \ up
    /\ call' = [call EXCEPT ![r].at = @ + 1,
                            ![r].passed = @ \/ call[r].at \in domain[call[r].vm]]
    /\ UNCHANGED <<kind, images, running, up, ghosts>>

(* Wrong: the agent undefines the domain, and forgets its files. *)
Undefined(v) == image

Removed(v) == image \ {v}

(* DeleteVm: an agent without the domain has nothing to delete, and the one *)
(* where the instance runs refuses.                                         *)
AgentDelete(r) ==
    LET v == call[r].vm  a == call[r].at IN
    /\ Deletes(r)
    /\ a \in up
    /\ v \in running => domain[v] # {a}
    /\ domain' = [domain EXCEPT ![v] = @ \ {a}]
    /\ image' = IF a \in domain[v] THEN Removed(v) ELSE image
    /\ call' = [call EXCEPT ![r].at = @ + 1, ![r].called = @ + 1]
    /\ UNCHANGED <<kind, source, running, up, ghosts>>

(* The agent fails, or is lost: the domain may be gone, with the image or   *)
(* without.                                                                 *)
AgentDeleteFails(r) ==
    LET v == call[r].vm  a == call[r].at IN
    /\ Deletes(r)
    /\ a \in up
    /\ \/ /\ a \in domain[v]
          /\ domain' = [domain EXCEPT ![v] = @ \ {a}]
          /\ image' \in {image, Removed(v)}
          /\ halfway' = halfway \cup {v}
       \/ /\ halfway' = IF v \in image THEN halfway ELSE halfway \cup {v}
          /\ UNCHANGED <<domain, image>>
    /\ End(r)
    /\ UNCHANGED <<kind, source, running, up, crossed>>

(* Wrong: a template stays in the database until every agent answers. *)
AllCalled(op, called) == called = Agents

(* DeleteInstance insists on all agents, DeleteTemplate on one. *)
EnoughCalled(op, called) ==
    IF op = "delete template" THEN called # 0 ELSE called = Agents

(* DeleteInstance reads its row again, and fails when another deletion has  *)
(* removed it.                                                              *)
FinishDelete(r) ==
    /\ Deletes(r)
    /\ call[r].at = Agents + 1
    /\ IF /\ EnoughCalled(call[r].op, call[r].called)
          /\ Does(r, "delete instance") => kind[call[r].vm] = "instance"
       THEN /\ kind' = [kind EXCEPT ![call[r].vm] = "none"]
            /\ call' = [call EXCEPT ![r].pc = "forget"]
       ELSE End(r) /\ UNCHANGED kind
    /\ UNCHANGED <<images, running, up, ghosts>>

(* deleteVmMutex: those who got the mutex before keep it, those who come    *)
(* later get another, and of two held at once the counts differ.            *)
DeleteVmMutex(r) ==
    /\ At(r, "forget")
    /\ call' = [q \in Request |->
           IF q = r THEN Idle
           ELSE IF call[q].vm = call[r].vm /\ call[q].pc \in Held \cup {"lock"}
                THEN [call[q] EXCEPT !.stale = @ + 1] ELSE call[q]]
    /\ UNCHANGED <<kind, images, running, up, ghosts>>
-----------------------------------------------------------------------------
(* StartInstance under the mutex, on any agent that answers: it imports the *)
(* domain from the shared storage if need be.                               *)
AgentStart(r) ==
    LET v == call[r].vm IN
    /\ At(r, "agent") /\ Does(r, "start")
    /\ \/ /\ v \in image
          /\ running' = running \cup {v}
          /\ \E a \in up : domain' = [domain EXCEPT ![v] = @ \cup {a}]
       \/ UNCHANGED <<running, domain>>
    /\ End(r)
    /\ UNCHANGED <<kind, source, image, up, ghosts>>

(* Around the requests. *)
ShutOff(v) ==
    /\ v \in running
    /\ running' = running \ {v}
    /\ UNCHANGED <<kind, images, up, call, ghosts>>

AgentSilent(a) ==
    /\ a \in up
    /\ up' = up \ {a}
    /\ UNCHANGED <<kind, images, running, call, ghosts>>

AgentBack(a) ==
    /\ a \notin up
    /\ up' = up \cup {a}
    /\ UNCHANGED <<kind, images, running, call, ghosts>>
-----------------------------------------------------------------------------
(* Any templates, and instances of them or of base images, in order. *)
Init ==
    /\ kind \in [Vm -> {"none", "template", "instance"}]
    /\ source \in [Vm -> Vm \cup {None}]
    /\ \A v \in Vm : source[v] # None => kind[v] = "instance" /\ kind[source[v]] = "template"
    /\ image = {v \in Vm : kind[v] # "none"}
    /\ \E home \in [Vm -> Agent] :
        domain = [v \in Vm |-> IF v \in image THEN {home[v]} ELSE {}]
    /\ running = {}
    /\ up = Agent
    /\ call = [r \in Request |-> Idle]
    /\ crossed = {} /\ halfway = {}

Next ==
    \/ \E r \in Request :
        \/ Begin(r) \/ Check(r) \/ CheckDependents(r) \/ SelectServerAgent(r)
        \/ GetVmMutex(r) \/ Lock(r) \/ AgentCreate(r) \/ AddVm(r)
        \/ Skip(r) \/ AgentDelete(r) \/ AgentDeleteFails(r)
        \/ FinishDelete(r) \/ DeleteVmMutex(r) \/ AgentStart(r)
    \/ \E v \in Vm : ShutOff(v)
    \/ \E a \in Agent : AgentSilent(a) \/ AgentBack(a)

Spec == Init /\ [][Next]_vars
-----------------------------------------------------------------------------
CallType ==
    [op : Op \cup {"none"}, pc : Points, vm : Vm \cup {None}, new : Vm \cup {None},
     at : 1 .. Agents + 1, called : 0 .. Agents,
     passed : BOOLEAN, clear : BOOLEAN, slipped : BOOLEAN, stale : Nat]

(* Every variable keeps its type, and a request that makes something has an *)
(* identifier for it.                                                       *)
TypeOK ==
    /\ kind \in [Vm -> {"none", "template", "instance"}]
    /\ source \in [Vm -> Vm \cup {None}]
    /\ image \subseteq Vm /\ running \subseteq Vm
    /\ domain \in [Vm -> SUBSET Agent]
    /\ up \subseteq Agent
    /\ call \in [Request -> CallType]
    /\ crossed \subseteq Vm /\ halfway \subseteq Vm
    /\ \A r \in Request :
        /\ ~At(r, "idle") => call[r].op # "none" /\ call[r].vm \in Vm
        /\ call[r].op \in {"create", "define"} /\ ~At(r, "check") => call[r].new \in Vm

(* An instance does not lose the image under its own.  DeleteTemplate looks *)
(* for instances before it takes the mutex, so a template is excused whose  *)
(* deletion got the mutex after a creation it had not seen, or together     *)
(* with one that got another mutex.  Otherwise creations that come too late *)
(* fail for want of the image, whatever fails on the way.                   *)
InstancesKeepTheirImage ==
    \A v \in Vm : kind[v] = "instance" /\ source[v] \notin crossed \cup {None}
                    => source[v] \in image

(* A template that is listed can be used: it has its image, unless it is    *)
(* being deleted or an agent deleted it and the request did not get through *)
(* to the row.                                                              *)
TemplatesHaveTheirImage ==
    \A t \in Vm : kind[t] = "template" /\ t \notin halfway
        => t \in image \/ \E r \in Request : Deletes(r) /\ call[r].vm = t

(* What is copied to a template, or deleted, is an instance that is shut    *)
(* off: once DefineTemplate or DeleteInstance has the mutex no start gets   *)
(* in between, so that it runs only if it did already, having been started  *)
(* between the check and the mutex.  What a failed deletion left behind is  *)
(* excused: when the next one removes the row, the image stays and the      *)
(* mutex does not, and a start and a copy may have one each.                *)
CopiesRest ==
    \A r \in Request :
        /\ At(r, "agent") /\ call[r].op \in {"define", "delete instance"}
        /\ call[r].vm \in running
        => call[r].slipped \/ call[r].vm \in halfway

(* When a row goes, so has everything on the agents: no image and no domain *)
(* is left that nobody could delete any more.  DeleteTemplate goes on       *)
(* without the agents that are silent, and what an agent failed to delete   *)
(* is not looked for again: those are excused.                              *)
NothingLeft ==
    [][\A r \in Request, v \in Vm :
        call[r].vm = v /\ Deletes(r) /\ call'[r].pc = "forget" =>
            \/ call[r].passed \/ v \in halfway
            \/ v \notin image /\ domain[v] = {}]_vars
=============================================================================
