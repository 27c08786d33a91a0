------------------------- MODULE InstanceLifecycle -------------------------
(***************************************************************************)
(* The life of an instance in the VMS Manager (vms-manager/service.go):    *)
(* CreateInstance and DeleteInstance run in one goroutine per HTTP         *)
(* request, over a Postgres database, the server agents and the Mikrotik   *)
(* router.  Every request is a record holding its program point and the    *)
(* values it has read; every action is one database statement, one call to *)
(* the agents or to the router, or one acquisition of a mutex.  Releasing  *)
(* a mutex belongs to the step that precedes it.                           *)
(***************************************************************************)
EXTENDS Naturals, FiniteSets, Sequences

CONSTANTS
    Request,            \* the requests that may be in progress at once
    Vm,                 \* instance identifiers
    Subject,            \* subject identifiers
    Source,             \* templates and base images to create instances from
    None,               \* the SQL NULL, and the field of a request not yet read
    FIRST_VLAN,         \* first VLAN handed out (100)
    MAX_VLANS,          \* how many there are (255)
    MAX_VMS_PER_VLAN,   \* how many instances fit one (253)
    Faults              \* which parts may fail: "db", "agent", "router", "crash";
                        \* "forgotten": the mutexes of sources may be

ASSUME NoneAssumption == None \notin Vm \cup Subject \cup Source
ASSUME BoundsAssumption ==
    /\ FIRST_VLAN \in Nat \ {0}
    /\ MAX_VLANS \in Nat \ {0}
    /\ MAX_VMS_PER_VLAN \in Nat \ {0}
ASSUME FaultsAssumption == Faults \subseteq {"db", "agent", "router", "crash", "forgotten"}

Vlan  == FIRST_VLAN .. FIRST_VLAN + MAX_VLANS - 1
Ident == 1 .. MAX_VMS_PER_VLAN
Address == Vlan \X Ident
NoVlan == 0
NoIdent == 0
NoAddress == <<NoVlan, NoIdent>>

VARIABLES
    (* the tables of the VMS Manager's database *)
    vlanOf,         \* subjects.vlan, NoVlan for a subject without a row
    configured,     \* the subjects whose row has vlan_is_configured set
    vmSubject,      \* vms.subject_id, None for an instance without a row
    vmIdent,        \* vms.vm_vlan_identifier
    (* the server agents *)
    domain,         \* the address each instance on the agents was set up with
    (* the router *)
    wireguards,     \* the VLANs whose configuration is on the router
    peers,          \* WireGuard peers: <<vlan, identifier, instance>>
    (* the service and its clients *)
    req,            \* the requests in progress
    served,         \* instances whose client was told they are ready
    failed          \* whether anything has failed yet

db     == <<vlanOf, configured, vmSubject, vmIdent>>
router == <<wireguards, peers>>
vars   == <<db, domain, router, req, served, failed>>
-----------------------------------------------------------------------------
(* Program points. *)
CreatePoints == {"cSubject", "cSubjectVlan", "cFreeVlan", "cAddSubject",
                 "cOwner", "cIdent", "cLock", "cAgent", "cAddVm", "cRow",
                 "cVlan", "vcCheck", "vcApply", "vcSet", "cKey", "cPeer"}
DeletePoints == {"dExists", "dSubject", "dVlan", "dLastSubject", "dLastCount",
                 "dMutex", "dLock", "dAgents", "dRow", "dDelete", "dForget",
                 "dPeer", "vdCheck", "vdRemove", "dDelSubject"}

(* Where the source's mutex, the instance's and routerVlanConfMutex are     *)
(* held.  The first is wrong: CreateInstance does not unlock the source     *)
(* before it calls DeleteInstance and locks it again.                       *)
SourceHeldInRollback ==
    {"cAgent", "cAddVm", "cRow", "cVlan", "vcCheck", "vcApply", "vcSet",
     "cKey", "cPeer", "relock"}
SourceHeld   == {"cAgent", "cAddVm", "cRow", "cVlan", "vcCheck", "vcApply",
                 "vcSet", "cKey", "cPeer"}
InstanceHeld == {"dAgents", "dRow", "dDelete", "dForget", "dPeer", "vdCheck",
                 "vdRemove", "dDelSubject"}
RouterHeld   == {"vcApply", "vcSet", "vdRemove"}

Idle == [pc |-> "idle", vm |-> None, subject |-> None, source |-> None,
         owner |-> None,
         vlan |-> NoVlan, ident |-> NoIdent, configVlan |-> NoVlan,
         last |-> FALSE, stale |-> FALSE, rollback |-> FALSE]

At(r, point) == req[r].pc = point
Goto(r, point) == req' = [req EXCEPT ![r].pc = point]

SourceFree(s) ==
    \A q \in Request : req[q].source = s => req[q].pc \notin SourceHeld

(* At the end of a DeleteTemplate of the source vmsMutexMap forgets its     *)
(* mutex, and the creates that come then lock another one than those before *)
(* them hold (Templates has the rest of that deletion).                     *)
SourceLockable(r) == SourceFree(req[r].source) \/ "forgotten" \in Faults

WaitsForSource(r) == req[r].pc \in {"cLock", "relock"} /\ ~SourceFree(req[r].source)

(* Wrong: the instance's mutex is not locked. *)
InstanceNotLocked(v, stale) == TRUE

(* vmsMutexMap forgets an instance's mutex before those waiting for it have *)
(* had it: they keep a stale pointer, and whoever comes next makes a mutex. *)
InstanceFree(v, stale) ==
    \A q \in Request : req[q].vm = v /\ req[q].stale = stale
                            => req[q].pc \notin InstanceHeld

(* Wrong: routerVlanConfMutex is not locked. *)
RouterNotLocked == TRUE

RouterFree == \A q \in Request : req[q].pc \notin RouterHeld

(* Rows of the tables. *)
SubjectRow(s) == vlanOf[s] # NoVlan
VmRow(v) == vmSubject[v] # None
VmsOf(s) == {v \in Vm : vmSubject[v] = s}
Owners(vlan) == {s \in Subject : vlanOf[s] = vlan}
RowAddress(v) ==
    IF VmRow(v) THEN <<vlanOf[vmSubject[v]], vmIdent[v]>> ELSE NoAddress

(* Wrong: one past the largest value in use. *)
FirstFreeAfterLargest(used, first) ==
    IF used = {} THEN first ELSE 1 + CHOOSE n \in used : \A m \in used : m <= n

(* The loop with slices.Contains counts up from first past the unbroken run *)
(* of values in use.                                                        *)
FirstFree(used, first) ==
    first + Cardinality({n \in used : first .. n \subseteq used})

(* The handler returns, releasing what it holds; the DeleteInstance called  *)
(* to undo a create returns to that create, which locks the source again.   *)
Answer(r) ==
    req' = [req EXCEPT ![r] =
        IF req[r].rollback
        THEN [Idle EXCEPT !.pc = "relock", !.source = req[r].source]
        ELSE Idle]

(* CreateInstance gives up after the row was added: it unlocks the source   *)
(* and calls DeleteInstance.                                                *)
Rollback(r) ==
    req' = [req EXCEPT ![r] =
        [Idle EXCEPT !.pc = "dExists", !.vm = req[r].vm,
                     !.source = req[r].source, !.rollback = TRUE]]

(* An identifier nothing in the system refers to: a new UUID. *)
Fresh(v) ==
    /\ ~VmRow(v)
    /\ domain[v] = NoAddress
    /\ \A p \in peers : p[3] # v
    /\ \A q \in Request : req[q].vm # v
-----------------------------------------------------------------------------
(* CreateInstance up to the source's mutex: find or make the subject's      *)
(* VLAN, then the first free identifier in it.                              *)

CreateInstance(r) ==
    /\ At(r, "idle")
    /\ \E v \in Vm, s \in Subject, src \in Source :
        /\ Fresh(v)
        /\ req' = [req EXCEPT ![r] = [Idle EXCEPT
               !.pc = "cSubject", !.vm = v, !.subject = s, !.source = src]]
    /\ UNCHANGED <<db, domain, router, served, failed>>

SubjectExistsById(r) ==
    /\ At(r, "cSubject")
    /\ Goto(r, IF SubjectRow(req[r].subject) THEN "cSubjectVlan" ELSE "cFreeVlan")
    /\ UNCHANGED <<db, domain, router, served, failed>>

GetSubjectVlan(r) ==
    /\ At(r, "cSubjectVlan")
    /\ IF SubjectRow(req[r].subject)
       THEN req' = [req EXCEPT ![r].pc = "cOwner",
                               ![r].configVlan = vlanOf[req[r].subject]]
       ELSE Answer(r)
    /\ UNCHANGED <<db, domain, router, served, failed>>

UsedVlans == {vlanOf[s] : s \in {t \in Subject : SubjectRow(t)}}

GetFirstAvailableVlan(r) ==
    /\ At(r, "cFreeVlan")
    /\ IF Cardinality(UsedVlans) = MAX_VLANS
       THEN Answer(r)
       ELSE req' = [req EXCEPT ![r].pc = "cAddSubject",
                               ![r].configVlan = FirstFree(UsedVlans, FIRST_VLAN)]
    /\ UNCHANGED <<db, domain, router, served, failed>>

(* Wrong: no UNIQUE(vlan). *)
CanAddSubjectAnyVlan(s, vlan) == ~SubjectRow(s)

(* The insertion respects the primary key and UNIQUE(vlan). *)
CanAddSubject(s, vlan) == ~SubjectRow(s) /\ Owners(vlan) = {}

(* addSubjectToDb tries the insertion until it succeeds. *)
AddSubject(r) ==
    LET s == req[r].subject  vlan == req[r].configVlan IN
    /\ At(r, "cAddSubject")
    /\ IF CanAddSubject(s, vlan)
       THEN /\ vlanOf' = [vlanOf EXCEPT ![s] = vlan]
            /\ configured' = configured \ {s}
            /\ Goto(r, "cOwner")
       ELSE UNCHANGED <<vlanOf, configured, req>>
    /\ UNCHANGED <<vmSubject, vmIdent, domain, router, served, failed>>

(* GetVmsVlanIdentifiers is two statements: whose VLAN it is, then the      *)
(* identifiers of that subject's instances.  The owner found goes to        *)
(* "owner"; the subject may lose its row in between.                        *)
GetVlanOwner(r) ==
    /\ At(r, "cOwner")
    /\ IF Owners(req[r].configVlan) = {}
       THEN Answer(r)
       ELSE \E s \in Owners(req[r].configVlan) :
                req' = [req EXCEPT ![r].pc = "cIdent", ![r].owner = s]
    /\ UNCHANGED <<db, domain, router, served, failed>>

UsedIdents(s) == {vmIdent[v] : v \in VmsOf(s)}

GetFirstAvailableVmVlanIdentifier(r) ==
    LET used == UsedIdents(req[r].owner) IN
    /\ At(r, "cIdent")
    /\ IF Cardinality(used) = MAX_VMS_PER_VLAN
       THEN Answer(r)
       ELSE req' = [req EXCEPT ![r].pc = "cLock", ![r].owner = None,
                               ![r].ident = FirstFree(used, 1)]
    /\ UNCHANGED <<db, domain, router, served, failed>>
-----------------------------------------------------------------------------
(* CreateInstance under the source's mutex.                                 *)

LockSource(r) ==
    /\ At(r, "cLock")
    /\ SourceLockable(r)
    /\ Goto(r, "cAgent")
    /\ UNCHANGED <<db, domain, router, served, failed>>

(* The chosen agent makes the disk and the domain of the instance, set up   *)
(* with the address computed before the mutex was taken.                    *)
AgentCreate(r) ==
    /\ At(r, "cAgent")
    /\ domain' = [domain EXCEPT ![req[r].vm] = <<req[r].configVlan, req[r].ident>>]
    /\ Goto(r, "cAddVm")
    /\ UNCHANGED <<db, router, served, failed>>

(* The insertion respects the foreign key and UNIQUE(subject_id,            *)
(* vm_vlan_identifier); the identifier is new, so is the primary key.       *)
CanAddVm(s, ident) ==
    /\ SubjectRow(s)
    /\ \A v \in VmsOf(s) : vmIdent[v] # ident

(* addVmToDb tries the insertion until it succeeds. *)
AddVm(r) ==
    LET v == req[r].vm IN
    /\ At(r, "cAddVm")
    /\ IF CanAddVm(req[r].subject, req[r].ident)
       THEN /\ vmSubject' = [vmSubject EXCEPT ![v] = req[r].subject]
            /\ vmIdent' = [vmIdent EXCEPT ![v] = req[r].ident]
            /\ Goto(r, "cRow")
       ELSE UNCHANGED <<vmSubject, vmIdent, req>>
    /\ UNCHANGED <<vlanOf, configured, domain, router, served, failed>>

(* GetVlanByVmId: the subject of the instance, then the VLAN of the subject. *)
(* An error here ends CreateInstance with the row in place.                  *)
ReadVmSubject(r, next) ==
    IF VmRow(req[r].vm)
    THEN req' = [req EXCEPT ![r].pc = next, ![r].subject = vmSubject[req[r].vm]]
    ELSE Answer(r)

ReadSubjectVlan(r, next) ==
    IF SubjectRow(req[r].subject)
    THEN req' = [req EXCEPT ![r].pc = next, ![r].vlan = vlanOf[req[r].subject]]
    ELSE Answer(r)

GetVlanByVmId(r) ==
    /\ \/ At(r, "cRow") /\ ReadVmSubject(r, "cVlan")
       \/ At(r, "cVlan") /\ ReadSubjectVlan(r, "vcCheck")
       \/ At(r, "dSubject") /\ ReadVmSubject(r, "dVlan")
       \/ At(r, "dVlan") /\ ReadSubjectVlan(r, "dLastSubject")
    /\ UNCHANGED <<db, domain, router, served, failed>>

(* addVlanConfigIfNotExists, under routerVlanConfMutex: it locks and reads  *)
(* the flag; a VLAN that is nobody's any more is an error.                  *)
CheckVlanConfigured(r) ==
    /\ At(r, "vcCheck")
    /\ RouterFree
    /\ IF Owners(req[r].vlan) = {}
       THEN Rollback(r)
       ELSE Goto(r, IF Owners(req[r].vlan) \subseteq configured
                    THEN "cKey" ELSE "vcApply")
    /\ UNCHANGED <<db, domain, router, served, failed>>

(* ApplyVlanConfig adds the WireGuard interface first, which fails if there *)
(* is one already; then RemoveVlanConfig clears what is there.              *)
ApplyVlanConfig(r) ==
    /\ At(r, "vcApply")
    /\ IF req[r].vlan \in wireguards
       THEN wireguards' = wireguards \ {req[r].vlan} /\ Rollback(r)
       ELSE wireguards' = wireguards \cup {req[r].vlan} /\ Goto(r, "vcSet")
    /\ UNCHANGED <<db, domain, peers, served, failed>>

SetVlanAsConfigured(r) ==
    /\ At(r, "vcSet")
    /\ configured' = configured \cup Owners(req[r].vlan)
    /\ Goto(r, "cKey")
    /\ UNCHANGED <<vlanOf, vmSubject, vmIdent, domain, router, served, failed>>

GetWireguardPublicKey(r) ==
    /\ At(r, "cKey")
    /\ IF req[r].vlan \in wireguards THEN Goto(r, "cPeer") ELSE Rollback(r)
    /\ UNCHANGED <<db, domain, router, served, failed>>

PeersNamed(vlan, ident) == {p \in peers : p[1] = vlan /\ p[2] = ident}

(* ApplyVmConfig adds a peer named after the VLAN and the identifier.  The  *)
(* router may refuse a second peer of the same name, or keep both.  Then    *)
(* the client gets its configuration.                                       *)
ApplyVmConfig(r) ==
    LET v == req[r].vm
        named == PeersNamed(req[r].vlan, req[r].ident) IN
    /\ At(r, "cPeer")
    /\ \/ /\ req[r].vlan \in wireguards
          /\ peers' = peers \cup {<<req[r].vlan, req[r].ident, v>>}
          /\ served' = served \cup {w \in {v} : VmRow(w)}
          /\ Answer(r)
       \/ /\ req[r].vlan \notin wireguards \/ named # {}
          /\ Rollback(r)
          /\ UNCHANGED <<peers, served>>
    /\ UNCHANGED <<db, domain, wireguards, failed>>

(* After the rollback's DeleteInstance, whatever it answered, CreateInstance *)
(* locks the source again for its deferred Unlock, and returns the error.    *)
RelockSource(r) ==
    /\ At(r, "relock")
    /\ SourceLockable(r)
    /\ Answer(r)
    /\ UNCHANGED <<db, domain, router, served, failed>>
-----------------------------------------------------------------------------
(* DeleteInstance up to the instance's mutex: nothing read here is read     *)
(* again under the mutex, save that the row is still there.                 *)

DeleteInstance(r) ==
    /\ At(r, "idle")
    /\ \E v \in Vm :
        /\ VmRow(v)
        /\ req' = [req EXCEPT ![r] = [Idle EXCEPT !.pc = "dExists", !.vm = v]]
        /\ served' = served \ {v}
    /\ UNCHANGED <<db, domain, router, failed>>

(* checkIfVmExists, checkIfVmIsTemplateOrBase and checkIfVmIsRunning: the   *)
(* row may be gone; the agents may say the instance is running.             *)
CheckDeletable(r) ==
    /\ At(r, "dExists")
    /\ \/ VmRow(req[r].vm) /\ Goto(r, "dSubject")
       \/ Answer(r)
    /\ UNCHANGED <<db, domain, router, served, failed>>

(* Wrong: off by one. *)
FewLeft(s) == Cardinality(VmsOf(s)) <= 2

IsLast(s) == Cardinality(VmsOf(s)) = 1

(* VmIsLastInstanceInSubject: the subject of the instance, then the count.  *)
VmIsLastInstanceInSubject(r) ==
    /\ \/ At(r, "dLastSubject") /\ ReadVmSubject(r, "dLastCount")
       \/ /\ At(r, "dLastCount")
          /\ req' = [req EXCEPT ![r].pc = "dMutex",
                      ![r].last = IsLast(req[r].subject)]
    /\ UNCHANGED <<db, domain, router, served, failed>>

(* The pointer is read from the map, and locked later. *)
GetVmMutex(r) ==
    /\ At(r, "dMutex")
    /\ Goto(r, "dLock")
    /\ UNCHANGED <<db, domain, router, served, failed>>

LockInstance(r) ==
    /\ At(r, "dLock")
    /\ InstanceFree(req[r].vm, req[r].stale)
    /\ Goto(r, "dAgents")
    /\ UNCHANGED <<db, domain, router, served, failed>>

(* Every agent answered and none has the domain any more. *)
AgentsDelete(r) ==
    /\ At(r, "dAgents")
    /\ domain' = [domain EXCEPT ![req[r].vm] = NoAddress]
    /\ Goto(r, "dRow")
    /\ UNCHANGED <<db, router, served, failed>>

(* GetSubjectIdByVmId and GetVmVlanIdentifierByVmId. *)
ReadSubjectAndIdent(r) ==
    LET v == req[r].vm IN
    /\ At(r, "dRow")
    /\ IF VmRow(v)
       THEN req' = [req EXCEPT ![r].pc = "dDelete", ![r].subject = vmSubject[v],
                               ![r].ident = vmIdent[v]]
       ELSE Answer(r)
    /\ UNCHANGED <<db, domain, router, served, failed>>

DeleteVm(r) ==
    /\ At(r, "dDelete")
    /\ vmSubject' = [vmSubject EXCEPT ![req[r].vm] = None]
    /\ vmIdent' = [vmIdent EXCEPT ![req[r].vm] = NoIdent]
    /\ served' = served \ {req[r].vm}
    /\ Goto(r, "dForget")
    /\ UNCHANGED <<vlanOf, configured, domain, router, failed>>

(* deleteVmMutex: the map loses the mutex this request holds, and for which *)
(* others may be waiting.                                                   *)
DeleteVmMutex(r) ==
    /\ At(r, "dForget")
    /\ req' = [q \in Request |->
           IF q = r THEN [req[r] EXCEPT !.pc = "dPeer", !.stale = TRUE]
           ELSE IF req[q].vm = req[r].vm /\ req[q].pc \in InstanceHeld \cup {"dLock"}
           THEN [req[q] EXCEPT !.stale = TRUE]
           ELSE req[q]]
    /\ UNCHANGED <<db, domain, router, served, failed>>

(* Wrong: the last instance leaves its subject behind. *)
PeerHandledOnly(r) == Answer(r)

(* The VLAN and the subject go with the last instance. *)
PeerHandled(r) == IF req[r].last THEN Goto(r, "vdCheck") ELSE Answer(r)

(* RemoveVmConfig removes the first peer of that name, if there is one, and *)
(* an error is ignored.                                                     *)
RemoveVmConfig(r) ==
    LET named == PeersNamed(req[r].vlan, req[r].ident) IN
    /\ At(r, "dPeer")
    /\ \/ \E p \in named : peers' = peers \ {p}
       \/ named = {} /\ UNCHANGED peers
    /\ PeerHandled(r)
    /\ UNCHANGED <<db, domain, wireguards, served, failed>>

(* deleteVlanConfigWhenAvailable, under routerVlanConfMutex; its error is   *)
(* ignored by DeleteInstance.                                               *)
CheckVlanRemovable(r) ==
    LET owners == Owners(req[r].vlan) IN
    /\ At(r, "vdCheck")
    /\ RouterFree
    /\ Goto(r, IF owners # {} /\ owners \subseteq configured
               THEN "vdRemove" ELSE "dDelSubject")
    /\ UNCHANGED <<db, domain, router, served, failed>>

RemoveVlanConfig(r) ==
    /\ At(r, "vdRemove")
    /\ wireguards' = wireguards \ {req[r].vlan}
    /\ Goto(r, "dDelSubject")
    /\ UNCHANGED <<db, domain, peers, served, failed>>

(* Wrong: no foreign key. *)
CanAlwaysDeleteSubject(s) == TRUE

(* The foreign key of vms is ON DELETE RESTRICT. *)
CanDeleteSubject(s) == VmsOf(s) = {}

(* deleteSubjectFromDb tries the deletion until it succeeds. *)
DeleteSubject(r) ==
    LET s == req[r].subject IN
    /\ At(r, "dDelSubject")
    /\ IF CanDeleteSubject(s)
       THEN /\ vlanOf' = [vlanOf EXCEPT ![s] = NoVlan]
            /\ configured' = configured \ {s}
            /\ Answer(r)
       ELSE UNCHANGED <<vlanOf, configured, req>>
    /\ UNCHANGED <<vmSubject, vmIdent, domain, router, served, failed>>
-----------------------------------------------------------------------------
(* What fails.  A read of the database that fails ends the handler, at      *)
(* whatever point; a write that fails is tried again, which is no step.     *)

DbReads == {"cSubject", "cSubjectVlan", "cFreeVlan", "cOwner", "cIdent",
            "cRow", "cVlan", "dSubject", "dVlan", "dLastSubject",
            "dLastCount", "dRow"}

(* RemoveVlanConfig goes on past errors of the router, and reports none. *)
VlanConfigCleared(vlan) ==
    \E left \in IF "router" \in Faults THEN SUBSET {vlan} ELSE {{}} :
        wireguards' = (wireguards \ {vlan}) \cup left

(* Within the VLAN configuration an error of the database undoes the create, *)
(* and is ignored by the delete.                                             *)
DbFails(r) ==
    /\ "db" \in Faults /\ failed' = TRUE
    /\ \/ req[r].pc \in DbReads /\ Answer(r) /\ UNCHANGED wireguards
       \/ At(r, "vcCheck") /\ RouterFree /\ Rollback(r) /\ UNCHANGED wireguards
       \/ At(r, "vcSet") /\ VlanConfigCleared(req[r].vlan) /\ Rollback(r)
       \/ At(r, "vdCheck") /\ RouterFree /\ Goto(r, "dDelSubject")
          /\ UNCHANGED wireguards
    /\ UNCHANGED <<db, domain, peers, served>>

(* Wrong: the number of agents that answered is not compared. *)
SweepIncompleteIgnored(r) == Goto(r, "dRow")

(* Some agent did not answer, or failed: the instance stays recorded. *)
SweepIncomplete(r) == Answer(r)

(* No agent is fit to create the instance, or the chosen one fails half-way; *)
(* an agent is down or fails while the instance is deleted.                  *)
AgentFails(r) ==
    /\ "agent" \in Faults /\ failed' = TRUE
    /\ \/ At(r, "cLock") /\ Answer(r) /\ UNCHANGED domain
       \/ /\ At(r, "cAgent") /\ Answer(r)
          /\ \/ UNCHANGED domain
             \/ domain' = [domain EXCEPT
                               ![req[r].vm] = <<req[r].configVlan, req[r].ident>>]
       \/ /\ At(r, "dAgents") /\ SweepIncomplete(r)
          /\ \/ UNCHANGED domain
             \/ domain' = [domain EXCEPT ![req[r].vm] = NoAddress]
    /\ UNCHANGED <<db, router, served>>

(* The router refuses a call, or carries it out and its reply is lost: a    *)
(* create is undone, a delete goes on.                                      *)
RouterFails(r) ==
    /\ "router" \in Faults /\ failed' = TRUE
    /\ \/ /\ At(r, "vcApply") /\ VlanConfigCleared(req[r].vlan)
          /\ UNCHANGED peers /\ Rollback(r)
       \/ At(r, "cKey") /\ UNCHANGED router /\ Rollback(r)
       \/ /\ At(r, "cPeer")
          /\ \E added \in SUBSET {<<req[r].vlan, req[r].ident, req[r].vm>>} :
                 peers' = peers \cup added
          /\ UNCHANGED wireguards /\ Rollback(r)
       \/ At(r, "dPeer") /\ UNCHANGED router /\ PeerHandled(r)
       \/ At(r, "vdRemove") /\ UNCHANGED router /\ Goto(r, "dDelSubject")
    /\ UNCHANGED <<db, domain, served>>

(* The service stops and starts again: requests and mutexes are gone. *)
Crash ==
    /\ "crash" \in Faults /\ failed' = TRUE
    /\ req' = [r \in Request |-> Idle]
    /\ UNCHANGED <<db, domain, router, served>>
-----------------------------------------------------------------------------
Init ==
    /\ failed = FALSE
    /\ vlanOf = [s \in Subject |-> NoVlan]
    /\ configured = {}
    /\ vmSubject = [v \in Vm |-> None]
    /\ vmIdent = [v \in Vm |-> NoIdent]
    /\ domain = [v \in Vm |-> NoAddress]
    /\ wireguards = {}
    /\ peers = {}
    /\ req = [r \in Request |-> Idle]
    /\ served = {}

(* Steps that wait for a mutex, and the other steps of a handler. *)
Lock(r) ==
    \/ LockSource(r) \/ RelockSource(r) \/ LockInstance(r)
    \/ CheckVlanConfigured(r) \/ CheckVlanRemovable(r)

Work(r) ==
    \/ SubjectExistsById(r) \/ GetSubjectVlan(r) \/ GetFirstAvailableVlan(r)
    \/ AddSubject(r) \/ GetVlanOwner(r)
    \/ GetFirstAvailableVmVlanIdentifier(r)
    \/ AgentCreate(r) \/ AddVm(r) \/ GetVlanByVmId(r) \/ ApplyVlanConfig(r)
    \/ SetVlanAsConfigured(r) \/ GetWireguardPublicKey(r) \/ ApplyVmConfig(r)
    \/ CheckDeletable(r) \/ VmIsLastInstanceInSubject(r) \/ GetVmMutex(r)
    \/ AgentsDelete(r) \/ ReadSubjectAndIdent(r) \/ DeleteVm(r)
    \/ DeleteVmMutex(r) \/ RemoveVmConfig(r) \/ RemoveVlanConfig(r)
    \/ DeleteSubject(r)
    \/ DbFails(r) \/ AgentFails(r) \/ RouterFails(r)

Next ==
    \/ \E r \in Request :
          CreateInstance(r) \/ DeleteInstance(r) \/ Lock(r) \/ Work(r)
    \/ Crash

Spec == Init /\ [][Next]_vars

(* A goroutine that can go on does; a sync.Mutex is handed to whoever has   *)
(* waited a millisecond for it, so nobody waits for it for ever while it is *)
(* released again and again.  Nobody can count on a mutex that is forgotten.*)
(* Clients need not call.                                                   *)
Fairness == \A r \in Request : WF_vars(Work(r)) /\ SF_vars(Lock(r) /\ ~WaitsForSource(r))

FairSpec == Spec /\ Fairness
-----------------------------------------------------------------------------
RequestRecord ==
    [pc : {"idle", "relock"} \cup CreatePoints \cup DeletePoints,
     vm : Vm \cup {None}, subject : Subject \cup {None},
     source : Source \cup {None}, owner : Subject \cup {None},
     vlan : Nat, ident : Nat, configVlan : Nat,
     last : BOOLEAN, stale : BOOLEAN, rollback : BOOLEAN]

(* What the columns, the maps and the requests hold, and which fields of a  *)
(* request have been read by the time it is at a point that uses them.      *)
RequestOK(q) ==
    /\ q.pc \in CreatePoints =>
          q.vm # None /\ q.subject # None /\ q.source # None
    /\ q.pc \in {"cAddSubject", "cOwner", "cIdent", "cLock"} \cup SourceHeld =>
          q.configVlan # NoVlan
    /\ q.pc = "cIdent" => q.owner # None
    /\ q.pc \in {"cLock"} \cup SourceHeld => q.ident # NoIdent
    /\ q.pc \in DeletePoints => q.vm # None
    /\ q.pc \in {"dVlan", "dLastSubject", "dLastCount", "dMutex", "dLock"}
                 \cup InstanceHeld => q.subject # None
    /\ q.pc \in {"vcCheck", "vcApply", "vcSet", "cKey", "cPeer", "dLastSubject",
                 "dLastCount", "dMutex", "dLock"} \cup InstanceHeld =>
          q.vlan # NoVlan
    /\ q.pc = "relock" \/ q.rollback => q.source # None
    /\ q.rollback => q.pc \in DeletePoints

TypeOK ==
    /\ vlanOf \in [Subject -> Nat]
    /\ configured \subseteq Subject
    /\ vmSubject \in [Vm -> Subject \cup {None}]
    /\ vmIdent \in [Vm -> Nat]
    /\ domain \in [Vm -> Nat \X Nat]
    /\ wireguards \subseteq Nat
    /\ peers \subseteq Nat \X Nat \X Vm
    /\ req \in [Request -> RequestRecord]
    /\ \A r \in Request : RequestOK(req[r])
    /\ served \subseteq Vm
    /\ failed \in BOOLEAN

(* However creates and deletes interleave between reading a free identifier *)
(* or VLAN and inserting it, no two recorded instances share an address     *)
(* (getVmNetworkConfigFromSubjectId, addSubjectToDb, addVmToDb).            *)
AddressesUnique ==
    \A v, w \in Vm :
        VmRow(v) /\ VmRow(w) /\ v # w => RowAddress(v) # RowAddress(w)

(* A VLAN or identifier past the last one is never recorded, although the   *)
(* checks for exhaustion compare with the bound for equality and are made   *)
(* long before the insertion: 10.0.<vlan-100>.<identifier+1> stays an       *)
(* address of the laboratory.                                               *)
AddressesInRange ==
    /\ \A s \in Subject : SubjectRow(s) => vlanOf[s] \in Vlan
    /\ \A v \in Vm : VmRow(v) => RowAddress(v) \in Address

(* deleteVmMutex lets two DeleteInstance calls for one instance be in the   *)
(* critical section together; by then the instance is not recorded any more,*)
(* so neither can delete a row, an address or a subject under the other.    *)
DeletersExclusive ==
    \A q, r \in Request :
        /\ q # r
        /\ req[q].vm = req[r].vm
        /\ {req[q].pc, req[r].pc} \subseteq InstanceHeld
        => ~VmRow(req[r].vm)

(* The record of an instance goes away only after every agent has confirmed *)
(* that the domain is gone (agentsCalled != len(serverAgentsURLs)), whatever *)
(* fails and whoever else deletes or creates: no domain is left that the    *)
(* service does not know of and that still uses a free address.             *)
RowRemovedAfterAgents ==
    [][\A v \in Vm : VmRow(v) /\ ~VmRow(v)' => domain[v] = NoAddress]_vars

(* A subject's VLAN is marked as configured only while its configuration is *)
(* on the router, although another request may be taking that down: later   *)
(* creates trust the mark and skip ApplyVlanConfig.                         *)
ConfiguredOnlyIfApplied ==
    [][\A s \in configured' \ configured : vlanOf[s] \in wireguards]_vars

(* The rows behave as an address pool: an instance is recorded with a free  *)
(* address and keeps that very address until it is deleted, so its subject  *)
(* is never moved to another VLAN or deleted under it.                      *)
Pool == INSTANCE AddressPool WITH
    addressOf <- [v \in Vm |-> RowAddress(v)]
ImplementsPool == Pool!Spec

(* With one request at a time: an instance whose client was given its       *)
(* configuration can be reached, whatever calls failed and wherever the     *)
(* service stopped before and since: its domain has the recorded address,   *)
(* its VLAN has a WireGuard interface and its peer is there.                *)
ServedReachable ==
    \A v \in served :
        /\ VmRow(v)
        /\ domain[v] = RowAddress(v)
        /\ RowAddress(v)[1] \in wireguards
        /\ Append(RowAddress(v), v) \in peers

(* With one request at a time, until something fails: between requests, the *)
(* subjects, domains, VLAN configurations and peers are exactly those of    *)
(* the recorded instances; nothing has leaked and nothing is missing.       *)
NothingLeaked ==
    ~failed /\ (\A r \in Request : req[r] = Idle) =>
        /\ {s \in Subject : SubjectRow(s)} = {vmSubject[v] : v \in {w \in Vm : VmRow(w)}}
        /\ wireguards = UsedVlans
        /\ configured = {s \in Subject : SubjectRow(s)}
        /\ \A v \in Vm : domain[v] = RowAddress(v)
        /\ peers = {Append(RowAddress(v), v) : v \in {w \in Vm : VmRow(w)}}

(* An insertion or deletion the database keeps refusing. *)
Rejected(r) ==
    \/ At(r, "cAddSubject") /\ ~CanAddSubject(req[r].subject, req[r].configVlan)
    \/ At(r, "cAddVm") /\ ~CanAddVm(req[r].subject, req[r].ident)
    \/ At(r, "dDelSubject") /\ ~CanDeleteSubject(req[r].subject)

(* The mutexes of sources, of instances and of the router are taken in      *)
(* different orders, and CreateInstance gives its own back while it undoes  *)
(* its work: still, unless the database goes on refusing a write, every     *)
(* request is answered.                                                     *)
RequestsAnswered ==
    (\A r \in Request : <>[]~Rejected(r)) => \A r \in Request : []<>At(r, "idle")

(* The comment of addVmToDb: the only reason for the insertion to fail is   *)
(* that the database is down, all other scenarios being checked before.     *)
AddVmCheckedBefore ==
    \A r \in Request :
        At(r, "cAddVm") => CanAddVm(req[r].subject, req[r].ident)

(* The comment of deleteSubjectFromDb says the same of the deletion that    *)
(* follows the last instance's.                                             *)
DeleteSubjectCheckedBefore ==
    \A r \in Request : At(r, "dDelSubject") => CanDeleteSubject(req[r].subject)
=============================================================================
