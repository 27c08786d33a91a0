---------------------- MODULE InstanceLifecycleProofs ----------------------
(***************************************************************************)
(* Theorems about InstanceLifecycle for every number of requests,          *)
(* instances, subjects, VLANs and identifiers, and whatever fails.         *)
(***************************************************************************)
EXTENDS InstanceLifecycle, TLAPS, FiniteSetTheorems, SequenceTheorems

(***************************************************************************)
(* 1. Types and ranges.  What a request holds is a record of the right     *)
(*    type, with the fields its point needs, and never a VLAN or an        *)
(*    identifier past the last one; nor do the columns.  The two go        *)
(*    together: counting the values in use needs their set to be finite.   *)
(***************************************************************************)
RequestInRange(q) ==
    q.configVlan \in Vlan \cup {NoVlan} /\ q.ident \in Ident \cup {NoIdent}

RequestsOK ==
    /\ req \in [Request -> RequestRecord]
    /\ \A r \in Request : RequestOK(req[r]) /\ RequestInRange(req[r])

ColumnsInRange ==
    /\ vlanOf \in [Subject -> Vlan \cup {NoVlan}]
    /\ vmIdent \in [Vm -> Ident \cup {NoIdent}]

TypeInv == TypeOK /\ RequestsOK /\ ColumnsInRange

(* The first free value lies in the range unless every value is in use. *)
LEMMA FirstFreeInRange ==
  ASSUME NEW first \in Nat, NEW max \in Nat \ {0}, NEW used,
         used \subseteq first .. first + max - 1, Cardinality(used) # max
  PROVE  FirstFree(used, first) \in first .. first + max - 1
<1> DEFINE Values == first .. first + max - 1
           Run == {n \in used : first .. n \subseteq used}
<1>1. IsFiniteSet(Values) /\ Cardinality(Values) = max
  BY FS_Interval
<1>2. IsFiniteSet(used) /\ Cardinality(used) \in Nat /\ Cardinality(used) <= max
  BY <1>1, FS_Subset, FS_CardinalityType
<1>3. IsFiniteSet(Run) /\ Cardinality(Run) \in Nat
      /\ Cardinality(Run) <= Cardinality(used)
  <2>1. Run \subseteq used
    OBVIOUS
  <2> QED BY <1>2, <2>1, FS_Subset, FS_CardinalityType
<1>4. FirstFree(used, first) = first + Cardinality(Run)
  BY DEF FirstFree
<1> QED BY <1>2, <1>3, <1>4

LEMMA IdleOK ==
  Idle \in RequestRecord /\ RequestOK(Idle) /\ RequestInRange(Idle)
BY NoneAssumption DEF Idle, RequestRecord, RequestOK, RequestInRange,
   CreatePoints, DeletePoints, SourceHeld, InstanceHeld, NoVlan, NoIdent

(* The ways a step changes one request. *)
LEMMA RequestSet ==
  ASSUME RequestsOK, NEW r \in Request, NEW q \in RequestRecord,
         RequestOK(q), RequestInRange(q), req' = [req EXCEPT ![r] = q]
  PROVE  RequestsOK'
BY DEF RequestsOK, RequestInRange

LEMMA AnswerOK ==
  ASSUME RequestsOK, NEW r \in Request, Answer(r)
  PROVE  RequestsOK'
<1> DEFINE q == IF req[r].rollback
                THEN [Idle EXCEPT !.pc = "relock", !.source = req[r].source]
                ELSE Idle
<1>1. req[r] \in RequestRecord /\ RequestOK(req[r])
  BY DEF RequestsOK
<1>2. q \in RequestRecord
  BY <1>1, IdleOK DEF RequestRecord
<1>3. RequestOK(q) /\ RequestInRange(q)
  BY <1>1, IdleOK, NoneAssumption DEF RequestOK, RequestInRange, Idle,
     RequestRecord, CreatePoints, DeletePoints, SourceHeld, InstanceHeld,
     NoVlan, NoIdent
<1> QED BY <1>2, <1>3, RequestSet DEF Answer

LEMMA RollbackOK ==
  ASSUME RequestsOK, NEW r \in Request, req[r].pc \in CreatePoints, Rollback(r)
  PROVE  RequestsOK'
<1> DEFINE q == [Idle EXCEPT !.pc = "dExists", !.vm = req[r].vm,
                             !.source = req[r].source, !.rollback = TRUE]
<1>1. /\ req[r] \in RequestRecord
      /\ req[r].vm # None /\ req[r].source # None
  BY DEF RequestsOK, RequestOK
<1>2. q \in RequestRecord
  BY <1>1, IdleOK DEF RequestRecord, DeletePoints
<1>3. RequestOK(q) /\ RequestInRange(q)
  BY <1>1, IdleOK, NoneAssumption DEF RequestOK, RequestInRange, Idle,
     RequestRecord, CreatePoints, DeletePoints, SourceHeld, InstanceHeld,
     NoVlan, NoIdent
<1> QED BY <1>2, <1>3, RequestSet DEF Rollback

(* The steps that only move on: the next point needs no field not yet read. *)
Moves ==
    {<<"cSubject", "cSubjectVlan">>, <<"cSubject", "cFreeVlan">>,
     <<"cAddSubject", "cOwner">>, <<"cLock", "cAgent">>,
     <<"cAgent", "cAddVm">>, <<"cAddVm", "cRow">>, <<"vcCheck", "cKey">>,
     <<"vcCheck", "vcApply">>, <<"vcApply", "vcSet">>, <<"vcSet", "cKey">>,
     <<"cKey", "cPeer">>, <<"dExists", "dSubject">>, <<"dMutex", "dLock">>,
     <<"dLock", "dAgents">>, <<"dAgents", "dRow">>, <<"dDelete", "dForget">>,
     <<"dPeer", "vdCheck">>, <<"vdCheck", "vdRemove">>,
     <<"vdCheck", "dDelSubject">>, <<"vdRemove", "dDelSubject">>}

LEMMA GotoOK ==
  ASSUME RequestsOK, NEW r \in Request, NEW p, Goto(r, p),
         <<req[r].pc, p>> \in Moves
  PROVE  RequestsOK'
<1> DEFINE q == [req[r] EXCEPT !.pc = p]
<1>1. req[r] \in RequestRecord /\ RequestOK(req[r]) /\ RequestInRange(req[r])
  BY DEF RequestsOK
<1>2. p \in CreatePoints \cup DeletePoints
  BY DEF Moves, CreatePoints, DeletePoints
<1>3. q \in RequestRecord
  BY <1>1, <1>2 DEF RequestRecord
<1>4. RequestOK(q)
  BY <1>1 DEF Moves, RequestOK, RequestRecord, CreatePoints, DeletePoints,
     SourceHeld, InstanceHeld
<1>5. RequestInRange(q)
  BY <1>1, <1>2 DEF RequestInRange, RequestRecord
<1>6. req' = [req EXCEPT ![r] = q]
  BY DEF Goto
<1> QED BY <1>3, <1>4, <1>5, <1>6, RequestSet

LEMMA ReadVmSubjectOK ==
  ASSUME TypeInv, NEW r \in Request, NEW p, ReadVmSubject(r, p),
         <<req[r].pc, p>> \in {<<"cRow", "cVlan">>, <<"dSubject", "dVlan">>,
                               <<"dLastSubject", "dLastCount">>}
  PROVE  RequestsOK'
<1> DEFINE q == [req[r] EXCEPT !.pc = p, !.subject = vmSubject[req[r].vm]]
<1>1. req[r] \in RequestRecord /\ RequestOK(req[r]) /\ RequestInRange(req[r])
  BY DEF TypeInv, RequestsOK
<1>2. CASE VmRow(req[r].vm)
  <2>1. req[r].vm \in Vm
    BY <1>1 DEF RequestOK, RequestRecord, CreatePoints, DeletePoints
  <2>2. vmSubject[req[r].vm] \in Subject
    BY <2>1, <1>2 DEF VmRow, TypeInv, TypeOK
  <2>3. q \in RequestRecord /\ RequestInRange(q)
    <3>1. p \in CreatePoints \cup DeletePoints
      BY DEF CreatePoints, DeletePoints
    <3> QED BY <1>1, <2>2, <3>1 DEF RequestRecord, RequestInRange
  <2>4. RequestOK(q)
    BY <1>1, <2>2, NoneAssumption DEF RequestOK, RequestRecord, CreatePoints,
       DeletePoints, SourceHeld, InstanceHeld
  <2>5. req' = [req EXCEPT ![r] = q]
    BY <1>2 DEF ReadVmSubject
  <2> QED BY <2>3, <2>4, <2>5, RequestSet DEF TypeInv
<1>3. CASE ~VmRow(req[r].vm)
  BY <1>3, AnswerOK DEF ReadVmSubject, TypeInv
<1> QED BY <1>2, <1>3

LEMMA ReadSubjectVlanOK ==
  ASSUME TypeInv, NEW r \in Request, NEW p, ReadSubjectVlan(r, p),
         <<req[r].pc, p>> \in {<<"cVlan", "vcCheck">>, <<"dVlan", "dLastSubject">>}
  PROVE  RequestsOK'
<1> DEFINE q == [req[r] EXCEPT !.pc = p, !.vlan = vlanOf[req[r].subject]]
<1>1. req[r] \in RequestRecord /\ RequestOK(req[r]) /\ RequestInRange(req[r])
  BY DEF TypeInv, RequestsOK
<1>2. CASE SubjectRow(req[r].subject)
  <2>1. req[r].subject \in Subject
    BY <1>1 DEF RequestOK, RequestRecord, CreatePoints
  <2>2. vlanOf[req[r].subject] \in Nat \ {NoVlan}
    BY <2>1, <1>2 DEF SubjectRow, TypeInv, TypeOK
  <2>3. q \in RequestRecord /\ RequestInRange(q)
    <3>1. p \in CreatePoints \cup DeletePoints
      BY DEF CreatePoints, DeletePoints
    <3> QED BY <1>1, <2>2, <3>1 DEF RequestRecord, RequestInRange
  <2>4. RequestOK(q)
    BY <1>1, <2>2 DEF RequestOK, RequestRecord, CreatePoints,
       DeletePoints, SourceHeld, InstanceHeld
  <2>5. req' = [req EXCEPT ![r] = q]
    BY <1>2 DEF ReadSubjectVlan
  <2> QED BY <2>3, <2>4, <2>5, RequestSet DEF TypeInv
<1>3. CASE ~SubjectRow(req[r].subject)
  BY <1>3, AnswerOK DEF ReadSubjectVlan, TypeInv
<1> QED BY <1>2, <1>3

(* The steps that read something else into the request, one by one. *)
LEMMA CreateInstanceOK ==
  ASSUME TypeInv, NEW r \in Request, CreateInstance(r)
  PROVE  RequestsOK'
<1>1. PICK v \in Vm, s \in Subject, src \in Source :
        req' = [req EXCEPT ![r] = [Idle EXCEPT
            !.pc = "cSubject", !.vm = v, !.subject = s, !.source = src]]
  BY DEF CreateInstance
<1> DEFINE q == [Idle EXCEPT !.pc = "cSubject", !.vm = v, !.subject = s,
                             !.source = src]
<1>2. q \in RequestRecord /\ RequestInRange(q)
  BY IdleOK DEF RequestRecord, RequestInRange, CreatePoints
<1>3. RequestOK(q)
  BY IdleOK, NoneAssumption DEF RequestOK, Idle, RequestRecord, CreatePoints,
     DeletePoints, SourceHeld, InstanceHeld, NoVlan, NoIdent
<1> QED BY <1>1, <1>2, <1>3, RequestSet DEF TypeInv

LEMMA DeleteInstanceOK ==
  ASSUME TypeInv, NEW r \in Request, DeleteInstance(r)
  PROVE  RequestsOK'
<1>1. PICK v \in Vm :
        req' = [req EXCEPT ![r] = [Idle EXCEPT !.pc = "dExists", !.vm = v]]
  BY DEF DeleteInstance
<1> DEFINE q == [Idle EXCEPT !.pc = "dExists", !.vm = v]
<1>2. q \in RequestRecord /\ RequestInRange(q)
  BY IdleOK DEF RequestRecord, RequestInRange, DeletePoints
<1>3. RequestOK(q)
  BY IdleOK, NoneAssumption DEF RequestOK, Idle, RequestRecord, CreatePoints,
     DeletePoints, SourceHeld, InstanceHeld, NoVlan, NoIdent
<1> QED BY <1>1, <1>2, <1>3, RequestSet DEF TypeInv

LEMMA GetSubjectVlanOK ==
  ASSUME TypeInv, NEW r \in Request, GetSubjectVlan(r)
  PROVE  RequestsOK'
<1> DEFINE q == [req[r] EXCEPT !.pc = "cOwner",
                               !.configVlan = vlanOf[req[r].subject]]
<1>1. /\ req[r] \in RequestRecord /\ RequestOK(req[r]) /\ RequestInRange(req[r])
      /\ req[r].pc = "cSubjectVlan"
  BY DEF TypeInv, RequestsOK, GetSubjectVlan, At
<1>2. CASE SubjectRow(req[r].subject)
  <2>1. req[r].subject \in Subject
    BY <1>1 DEF RequestOK, RequestRecord, CreatePoints
  <2>2. vlanOf[req[r].subject] \in Vlan /\ vlanOf[req[r].subject] \in Nat \ {NoVlan}
    BY <2>1, <1>2 DEF SubjectRow, TypeInv, TypeOK, ColumnsInRange
  <2>3. q \in RequestRecord /\ RequestInRange(q)
    BY <1>1, <2>2 DEF RequestRecord, RequestInRange, CreatePoints, DeletePoints
  <2>4. RequestOK(q)
    BY <1>1, <2>2 DEF RequestOK, RequestRecord, CreatePoints,
       DeletePoints, SourceHeld, InstanceHeld
  <2>5. req' = [req EXCEPT ![r] = q]
    BY <1>2 DEF GetSubjectVlan
  <2> QED BY <2>3, <2>4, <2>5, RequestSet DEF TypeInv
<1>3. CASE ~SubjectRow(req[r].subject)
  BY <1>3, AnswerOK DEF GetSubjectVlan, TypeInv
<1> QED BY <1>2, <1>3

LEMMA GetFirstAvailableVlanOK ==
  ASSUME TypeInv, NEW r \in Request, GetFirstAvailableVlan(r)
  PROVE  RequestsOK'
<1> DEFINE vlan == FirstFree(UsedVlans, FIRST_VLAN)
           q == [req[r] EXCEPT !.pc = "cAddSubject", !.configVlan = vlan]
<1>1. /\ req[r] \in RequestRecord /\ RequestOK(req[r]) /\ RequestInRange(req[r])
      /\ req[r].pc = "cFreeVlan"
  BY DEF TypeInv, RequestsOK, GetFirstAvailableVlan, At
<1>2. CASE Cardinality(UsedVlans) # MAX_VLANS
  <2>1. UsedVlans \subseteq FIRST_VLAN .. FIRST_VLAN + MAX_VLANS - 1
    BY DEF UsedVlans, SubjectRow, TypeInv, ColumnsInRange, Vlan
  <2>2. vlan \in Vlan
    BY <1>2, <2>1, FirstFreeInRange, BoundsAssumption DEF Vlan
  <2>3. vlan \in Nat \ {NoVlan}
    BY <2>2, BoundsAssumption DEF Vlan, NoVlan
  <2>4. q \in RequestRecord /\ RequestInRange(q)
    BY <1>1, <2>2, <2>3 DEF RequestRecord, RequestInRange, CreatePoints, DeletePoints
  <2>5. RequestOK(q)
    BY <1>1, <2>3 DEF RequestOK, RequestRecord, CreatePoints,
       DeletePoints, SourceHeld, InstanceHeld
  <2>6. req' = [req EXCEPT ![r] = q]
    BY <1>2 DEF GetFirstAvailableVlan
  <2> QED BY <2>4, <2>5, <2>6, RequestSet DEF TypeInv
<1>3. CASE Cardinality(UsedVlans) = MAX_VLANS
  BY <1>3, AnswerOK DEF GetFirstAvailableVlan, TypeInv
<1> QED BY <1>2, <1>3

LEMMA GetVlanOwnerOK ==
  ASSUME TypeInv, NEW r \in Request, GetVlanOwner(r)
  PROVE  RequestsOK'
<1>1. /\ req[r] \in RequestRecord /\ RequestOK(req[r]) /\ RequestInRange(req[r])
      /\ req[r].pc = "cOwner"
  BY DEF TypeInv, RequestsOK, GetVlanOwner, At
<1>2. CASE Owners(req[r].configVlan) # {}
  <2>1. PICK s \in Subject : req' = [req EXCEPT ![r].pc = "cIdent", ![r].owner = s]
    BY <1>2 DEF GetVlanOwner, Owners
  <2> DEFINE q == [req[r] EXCEPT !.pc = "cIdent", !.owner = s]
  <2>2. q \in RequestRecord /\ RequestInRange(q)
    BY <1>1 DEF RequestRecord, RequestInRange, CreatePoints, DeletePoints
  <2>3. RequestOK(q)
    BY <1>1, NoneAssumption DEF RequestOK, RequestRecord, CreatePoints,
       DeletePoints, SourceHeld, InstanceHeld
  <2>4. req' = [req EXCEPT ![r] = q]
    BY <2>1
  <2> QED BY <2>2, <2>3, <2>4, RequestSet DEF TypeInv
<1>3. CASE Owners(req[r].configVlan) = {}
  BY <1>3, AnswerOK DEF GetVlanOwner, TypeInv
<1> QED BY <1>2, <1>3

LEMMA GetFirstAvailableVmVlanIdentifierOK ==
  ASSUME TypeInv, NEW r \in Request, GetFirstAvailableVmVlanIdentifier(r),
         \A v \in Vm : VmRow(v) => vmIdent[v] # NoIdent
  PROVE  RequestsOK'
<1> DEFINE used == UsedIdents(req[r].owner)
           ident == FirstFree(used, 1)
           q == [req[r] EXCEPT !.pc = "cLock", !.owner = None, !.ident = ident]
<1>1. /\ req[r] \in RequestRecord /\ RequestOK(req[r]) /\ RequestInRange(req[r])
      /\ req[r].pc = "cIdent"
  BY DEF TypeInv, RequestsOK, GetFirstAvailableVmVlanIdentifier, At
<1>2. CASE Cardinality(used) # MAX_VMS_PER_VLAN
  <2>1. used \subseteq 1 .. 1 + MAX_VMS_PER_VLAN - 1
    <3>1. req[r].owner # None
      BY <1>1 DEF RequestOK
    <3> QED BY <3>1, BoundsAssumption DEF UsedIdents, VmsOf, VmRow, TypeInv,
               ColumnsInRange, Ident
  <2>2. ident \in Ident
    <3>1. ident \in 1 .. 1 + MAX_VMS_PER_VLAN - 1
      BY <1>2, <2>1, FirstFreeInRange, BoundsAssumption
    <3> QED BY <3>1, BoundsAssumption DEF Ident
  <2>3. ident \in Nat \ {NoIdent}
    BY <2>2, BoundsAssumption DEF Ident, NoIdent
  <2>4. q \in RequestRecord /\ RequestInRange(q)
    BY <1>1, <2>2, <2>3 DEF RequestRecord, RequestInRange, CreatePoints, DeletePoints
  <2>5. RequestOK(q)
    BY <1>1, <2>3 DEF RequestOK, RequestRecord, CreatePoints,
       DeletePoints, SourceHeld, InstanceHeld
  <2>6. req' = [req EXCEPT ![r] = q]
    BY <1>2 DEF GetFirstAvailableVmVlanIdentifier
  <2> QED BY <2>4, <2>5, <2>6, RequestSet DEF TypeInv
<1>3. CASE Cardinality(used) = MAX_VMS_PER_VLAN
  BY <1>3, AnswerOK DEF GetFirstAvailableVmVlanIdentifier, TypeInv
<1> QED BY <1>2, <1>3

LEMMA VmIsLastInstanceInSubjectOK ==
  ASSUME TypeInv, NEW r \in Request, VmIsLastInstanceInSubject(r)
  PROVE  RequestsOK'
<1>1. CASE At(r, "dLastSubject") /\ ReadVmSubject(r, "dLastCount")
  BY <1>1, ReadVmSubjectOK DEF At
<1>2. CASE /\ At(r, "dLastCount")
           /\ req' = [req EXCEPT ![r].pc = "dMutex",
                                 ![r].last = IsLast(req[r].subject)]
  <2> DEFINE q == [req[r] EXCEPT !.pc = "dMutex", !.last = IsLast(req[r].subject)]
  <2>1. /\ req[r] \in RequestRecord /\ RequestOK(req[r]) /\ RequestInRange(req[r])
        /\ req[r].pc = "dLastCount"
    BY <1>2 DEF TypeInv, RequestsOK, At
  <2>2. IsLast(req[r].subject) \in BOOLEAN
    BY DEF IsLast
  <2>3. q \in RequestRecord /\ RequestInRange(q)
    BY <2>1, <2>2 DEF RequestRecord, RequestInRange, CreatePoints, DeletePoints
  <2>4. RequestOK(q)
    BY <2>1 DEF RequestOK, RequestRecord, CreatePoints, DeletePoints,
       SourceHeld, InstanceHeld
  <2>5. req' = [req EXCEPT ![r] = q]
    BY <1>2
  <2> QED BY <2>3, <2>4, <2>5, RequestSet DEF TypeInv
<1> QED BY <1>1, <1>2 DEF VmIsLastInstanceInSubject

LEMMA ReadSubjectAndIdentOK ==
  ASSUME TypeInv, NEW r \in Request, ReadSubjectAndIdent(r)
  PROVE  RequestsOK'
<1> DEFINE v == req[r].vm
           q == [req[r] EXCEPT !.pc = "dDelete", !.subject = vmSubject[v],
                               !.ident = vmIdent[v]]
<1>1. /\ req[r] \in RequestRecord /\ RequestOK(req[r]) /\ RequestInRange(req[r])
      /\ req[r].pc = "dRow"
  BY DEF TypeInv, RequestsOK, ReadSubjectAndIdent, At
<1>2. CASE VmRow(v)
  <2>1. v \in Vm
    BY <1>1 DEF RequestOK, RequestRecord, DeletePoints
  <2>2. /\ vmSubject[v] \in Subject
        /\ vmIdent[v] \in Nat /\ vmIdent[v] \in Ident \cup {NoIdent}
    BY <2>1, <1>2 DEF VmRow, TypeInv, TypeOK, ColumnsInRange
  <2>3. q \in RequestRecord /\ RequestInRange(q)
    BY <1>1, <2>2 DEF RequestRecord, RequestInRange, CreatePoints, DeletePoints
  <2>4. RequestOK(q)
    BY <1>1, <2>2, NoneAssumption DEF RequestOK, RequestRecord, CreatePoints,
       DeletePoints, SourceHeld, InstanceHeld
  <2>5. req' = [req EXCEPT ![r] = q]
    BY <1>2 DEF ReadSubjectAndIdent
  <2> QED BY <2>3, <2>4, <2>5, RequestSet DEF TypeInv
<1>3. CASE ~VmRow(v)
  BY <1>3, AnswerOK DEF ReadSubjectAndIdent, TypeInv
<1> QED BY <1>2, <1>3

LEMMA DeleteVmMutexOK ==
  ASSUME TypeInv, NEW r \in Request, DeleteVmMutex(r)
  PROVE  RequestsOK'
<1>1. SUFFICES ASSUME NEW q \in Request
               PROVE  /\ req'[q] \in RequestRecord
                      /\ RequestOK(req'[q]) /\ RequestInRange(req'[q])
  BY DEF RequestsOK, DeleteVmMutex
<1>2. /\ req[q] \in RequestRecord /\ RequestOK(req[q]) /\ RequestInRange(req[q])
      /\ req[r].pc = "dForget"
  BY DEF TypeInv, RequestsOK, DeleteVmMutex, At
<1>3. CASE q = r
  <2>1. req'[q] = [req[q] EXCEPT !.pc = "dPeer", !.stale = TRUE]
    BY <1>3 DEF DeleteVmMutex
  <2>2. req'[q] \in RequestRecord /\ RequestInRange(req'[q])
    BY <1>2, <2>1 DEF RequestRecord, RequestInRange, DeletePoints
  <2>3. RequestOK(req'[q])
    BY <1>2, <1>3, <2>1 DEF RequestOK, RequestRecord, CreatePoints, DeletePoints,
       SourceHeld, InstanceHeld
  <2> QED BY <2>2, <2>3
<1>4. CASE q # r
  <2>1. req'[q] = [req[q] EXCEPT !.stale = TRUE] \/ req'[q] = req[q]
    BY <1>4 DEF DeleteVmMutex
  <2>2. req'[q] \in RequestRecord /\ RequestInRange(req'[q])
    BY <1>2, <2>1 DEF RequestRecord, RequestInRange
  <2>3. RequestOK(req'[q])
    BY <1>2, <2>1 DEF RequestOK, RequestRecord, CreatePoints, DeletePoints,
       SourceHeld, InstanceHeld
  <2> QED BY <2>2, <2>3
<1> QED BY <1>3, <1>4

(* The requests stay well typed whatever step is taken. *)
LEMMA RequestsStep ==
  ASSUME TypeInv, Next, \A v \in Vm : VmRow(v) => vmIdent[v] # NoIdent
  PROVE  RequestsOK'
<1> USE DEF TypeInv
<1>1. CASE Crash
  BY <1>1, IdleOK DEF Crash, RequestsOK, RequestInRange
<1>2. ASSUME NEW r \in Request, CreateInstance(r) \/ DeleteInstance(r)
      PROVE  RequestsOK'
  BY <1>2, CreateInstanceOK, DeleteInstanceOK
<1>3. ASSUME NEW r \in Request, Lock(r)
      PROVE  RequestsOK'
  <2>1. CASE LockSource(r)
    BY <2>1, GotoOK DEF LockSource, At, Moves
  <2>2. CASE RelockSource(r)
    BY <2>2, AnswerOK DEF RelockSource
  <2>3. CASE LockInstance(r)
    BY <2>3, GotoOK DEF LockInstance, At, Moves
  <2>4. CASE CheckVlanConfigured(r)
    <3>1. req[r].pc = "vcCheck"
      BY <2>4 DEF CheckVlanConfigured, At
    <3>2. CASE Rollback(r)
      BY <3>1, <3>2, RollbackOK DEF CreatePoints
    <3>3. CASE Goto(r, "cKey") \/ Goto(r, "vcApply")
      BY <3>1, <3>3, GotoOK DEF Moves
    <3> QED BY <2>4, <3>2, <3>3 DEF CheckVlanConfigured
  <2>5. CASE CheckVlanRemovable(r)
    <3>1. req[r].pc = "vdCheck"
      BY <2>5 DEF CheckVlanRemovable, At
    <3>2. Goto(r, "vdRemove") \/ Goto(r, "dDelSubject")
      BY <2>5 DEF CheckVlanRemovable
    <3> QED BY <3>1, <3>2, GotoOK DEF Moves
  <2> QED BY <1>3, <2>1, <2>2, <2>3, <2>4, <2>5 DEF Lock
<1>4. ASSUME NEW r \in Request, Work(r)
      PROVE  RequestsOK'
  <2>1. CASE SubjectExistsById(r)
    <3>1. At(r, "cSubject") /\ (Goto(r, "cSubjectVlan") \/ Goto(r, "cFreeVlan"))
      BY <2>1 DEF SubjectExistsById
    <3> QED BY <3>1, GotoOK DEF At, Moves
  <2>2. CASE GetSubjectVlan(r)
    BY <2>2, GetSubjectVlanOK
  <2>3. CASE GetFirstAvailableVlan(r)
    BY <2>3, GetFirstAvailableVlanOK
  <2>4. CASE AddSubject(r)
    BY <2>4, GotoOK DEF AddSubject, At, Moves, RequestsOK
  <2>5. CASE GetVlanOwner(r)
    BY <2>5, GetVlanOwnerOK
  <2>6. CASE GetFirstAvailableVmVlanIdentifier(r)
    BY <2>6, GetFirstAvailableVmVlanIdentifierOK
  <2>7. CASE AgentCreate(r)
    BY <2>7, GotoOK DEF AgentCreate, At, Moves
  <2>8. CASE AddVm(r)
    BY <2>8, GotoOK DEF AddVm, At, Moves, RequestsOK
  <2>9. CASE GetVlanByVmId(r)
    BY <2>9, ReadVmSubjectOK, ReadSubjectVlanOK DEF GetVlanByVmId, At
  <2>10. CASE ApplyVlanConfig(r)
    BY <2>10, GotoOK, RollbackOK DEF ApplyVlanConfig, At, Moves, CreatePoints
  <2>11. CASE SetVlanAsConfigured(r)
    BY <2>11, GotoOK DEF SetVlanAsConfigured, At, Moves
  <2>12. CASE GetWireguardPublicKey(r)
    BY <2>12, GotoOK, RollbackOK DEF GetWireguardPublicKey, At, Moves, CreatePoints
  <2>13. CASE ApplyVmConfig(r)
    BY <2>13, AnswerOK, RollbackOK DEF ApplyVmConfig, At, CreatePoints
  <2>14. CASE CheckDeletable(r)
    BY <2>14, GotoOK, AnswerOK DEF CheckDeletable, At, Moves
  <2>15. CASE VmIsLastInstanceInSubject(r)
    BY <2>15, VmIsLastInstanceInSubjectOK
  <2>16. CASE GetVmMutex(r)
    BY <2>16, GotoOK DEF GetVmMutex, At, Moves
  <2>17. CASE AgentsDelete(r)
    BY <2>17, GotoOK DEF AgentsDelete, At, Moves
  <2>18. CASE ReadSubjectAndIdent(r)
    BY <2>18, ReadSubjectAndIdentOK
  <2>19. CASE DeleteVm(r)
    BY <2>19, GotoOK DEF DeleteVm, At, Moves
  <2>20. CASE DeleteVmMutex(r)
    BY <2>20, DeleteVmMutexOK
  <2>21. CASE RemoveVmConfig(r)
    BY <2>21, GotoOK, AnswerOK DEF RemoveVmConfig, PeerHandled, At, Moves
  <2>22. CASE RemoveVlanConfig(r)
    BY <2>22, GotoOK DEF RemoveVlanConfig, At, Moves
  <2>23. CASE DeleteSubject(r)
    BY <2>23, AnswerOK DEF DeleteSubject, RequestsOK
  <2>24. CASE DbFails(r)
    BY <2>24, GotoOK, AnswerOK, RollbackOK DEF DbFails, At, Moves, CreatePoints
  <2>25. CASE AgentFails(r)
    BY <2>25, AnswerOK DEF AgentFails, SweepIncomplete
  <2>26. CASE RouterFails(r)
    BY <2>26, GotoOK, AnswerOK, RollbackOK DEF RouterFails, PeerHandled, At,
       Moves, CreatePoints
  <2> QED BY <1>4, <2>1, <2>2, <2>3, <2>4, <2>5, <2>6, <2>7, <2>8, <2>9,
             <2>10, <2>11, <2>12, <2>13, <2>14, <2>15, <2>16, <2>17, <2>18,
             <2>19, <2>20, <2>21, <2>22, <2>23, <2>24, <2>25, <2>26 DEF Work
<1> QED BY <1>1, <1>2, <1>3, <1>4 DEF Next

(***************************************************************************)
(* 2. The rows.  Only four statements write them; what keeps them in order *)
(*    is that each is guarded by the constraints of the schema.            *)
(***************************************************************************)
UniqueVlans ==
    \A s, t \in Subject : SubjectRow(s) /\ vlanOf[s] = vlanOf[t] => s = t

UniqueIdents ==
    \A v, w \in Vm :
        VmRow(v) /\ vmSubject[v] = vmSubject[w] /\ vmIdent[v] = vmIdent[w] => v = w

ForeignKey == \A v \in Vm : VmRow(v) => SubjectRow(vmSubject[v])

IdentsSet == \A v \in Vm : VmRow(v) <=> vmIdent[v] # NoIdent

RowsInv == UniqueVlans /\ UniqueIdents /\ ForeignKey /\ IdentsSet

(* A step other than the four leaves the rows alone. *)
LEMMA RowWriters ==
  ASSUME [Next]_vars
  PROVE  \/ UNCHANGED <<vlanOf, vmSubject, vmIdent>>
         \/ \E r \in Request :
               AddSubject(r) \/ AddVm(r) \/ DeleteVm(r) \/ DeleteSubject(r)
<1>1. ASSUME NEW r \in Request, Lock(r) \/ CreateInstance(r) \/ DeleteInstance(r)
      PROVE  UNCHANGED <<vlanOf, vmSubject, vmIdent>>
  BY <1>1 DEF Lock, CreateInstance, DeleteInstance, LockSource, RelockSource,
     LockInstance, CheckVlanConfigured, CheckVlanRemovable, db
<1>2. ASSUME NEW r \in Request, DbFails(r) \/ AgentFails(r) \/ RouterFails(r)
      PROVE  UNCHANGED <<vlanOf, vmSubject, vmIdent>>
  BY <1>2 DEF DbFails, AgentFails, RouterFails, db
<1>3. ASSUME NEW r \in Request, Work(r),
             ~(AddSubject(r) \/ AddVm(r) \/ DeleteVm(r) \/ DeleteSubject(r))
      PROVE  UNCHANGED <<vlanOf, vmSubject, vmIdent>>
  BY <1>2, <1>3 DEF Work, SubjectExistsById, GetSubjectVlan,
     GetFirstAvailableVlan, GetVlanOwner, GetFirstAvailableVmVlanIdentifier,
     AgentCreate, GetVlanByVmId, ApplyVlanConfig, SetVlanAsConfigured,
     GetWireguardPublicKey, ApplyVmConfig, CheckDeletable,
     VmIsLastInstanceInSubject, GetVmMutex, AgentsDelete, ReadSubjectAndIdent,
     DeleteVmMutex, RemoveVmConfig, RemoveVlanConfig, db
<1>4. CASE Crash \/ UNCHANGED vars
  BY <1>4 DEF Crash, vars, db
<1> QED BY <1>1, <1>3, <1>4 DEF Next

(* The rows stay in range: an insertion writes what the request computed. *)
LEMMA ColumnsStep ==
  ASSUME TypeInv, [Next]_vars
  PROVE  /\ ColumnsInRange'
         /\ vlanOf' \in [Subject -> Nat]
         /\ vmSubject' \in [Vm -> Subject \cup {None}]
         /\ vmIdent' \in [Vm -> Nat]
<1> USE DEF TypeInv, ColumnsInRange
<1>0. /\ vlanOf \in [Subject -> Nat]
      /\ vmSubject \in [Vm -> Subject \cup {None}]
      /\ vmIdent \in [Vm -> Nat]
  BY DEF TypeOK
<1>1. CASE UNCHANGED <<vlanOf, vmSubject, vmIdent>>
  BY <1>0, <1>1
<1>2. CASE \E r \in Request : AddSubject(r)
  <2>1. PICK r \in Request : AddSubject(r)
    BY <1>2
  <2>2. req[r].configVlan \in Vlan \cup {NoVlan} /\ req[r].configVlan \in Nat
    BY DEF RequestsOK, RequestInRange, RequestRecord
  <2> QED BY <1>0, <2>1, <2>2 DEF AddSubject
<1>3. CASE \E r \in Request : AddVm(r)
  <2>1. PICK r \in Request : AddVm(r)
    BY <1>3
  <2>2. req[r].ident \in Ident \cup {NoIdent} /\ req[r].ident \in Nat
    BY DEF RequestsOK, RequestInRange, RequestRecord
  <2>3. req[r].subject \in Subject \cup {None}
    BY DEF RequestsOK, RequestRecord
  <2> QED BY <1>0, <2>1, <2>2, <2>3 DEF AddVm
<1>4. CASE \E r \in Request : DeleteVm(r)
  <2>1. PICK r \in Request : DeleteVm(r)
    BY <1>4
  <2>2. /\ vmSubject' = [vmSubject EXCEPT ![req[r].vm] = None]
        /\ vmIdent' = [vmIdent EXCEPT ![req[r].vm] = NoIdent]
        /\ vlanOf' = vlanOf
    BY <2>1 DEF DeleteVm
  <2> QED BY <1>0, <2>2 DEF NoIdent
<1>5. CASE \E r \in Request : DeleteSubject(r)
  BY <1>0, <1>5 DEF DeleteSubject, NoVlan
<1> QED BY <1>1, <1>2, <1>3, <1>4, <1>5, RowWriters

(* The rest of the type invariant. *)
LEMMA OthersStep ==
  ASSUME TypeInv, [Next]_vars
  PROVE  /\ configured' \subseteq Subject
         /\ domain' \in [Vm -> Nat \X Nat]
         /\ wireguards' \subseteq Nat
         /\ peers' \subseteq Nat \X Nat \X Vm
         /\ served' \subseteq Vm
         /\ failed' \in BOOLEAN
<1> DEFINE Kept == UNCHANGED <<configured, domain, wireguards, peers, served, failed>>
           Typed == /\ configured' \subseteq Subject
                    /\ domain' \in [Vm -> Nat \X Nat]
                    /\ wireguards' \subseteq Nat
                    /\ peers' \subseteq Nat \X Nat \X Vm
                    /\ served' \subseteq Vm
                    /\ failed' \in BOOLEAN
<1>0. /\ configured \subseteq Subject
      /\ domain \in [Vm -> Nat \X Nat]
      /\ wireguards \subseteq Nat
      /\ peers \subseteq Nat \X Nat \X Vm
      /\ served \subseteq Vm
      /\ failed \in BOOLEAN
  BY DEF TypeInv, TypeOK
<1>1. ASSUME Kept PROVE Typed
  BY <1>0, <1>1
<1>2. ASSUME NEW r \in Request
      PROVE  /\ req[r].vlan \in Nat /\ req[r].configVlan \in Nat
             /\ req[r].ident \in Nat
             /\ At(r, "cPeer") => req[r].vm \in Vm
  BY DEF TypeInv, RequestsOK, RequestRecord, RequestOK, CreatePoints, At
<1>3. ASSUME NEW r \in Request, CreateInstance(r) \/ DeleteInstance(r) \/ Lock(r)
      PROVE  Typed
  BY <1>0, <1>3 DEF CreateInstance, DeleteInstance, Lock, LockSource,
     RelockSource, LockInstance, CheckVlanConfigured, CheckVlanRemovable, db,
     router
<1>4. ASSUME NEW r \in Request, DbFails(r) \/ AgentFails(r)
      PROVE  Typed
  <2>1. <<req[r].configVlan, req[r].ident>> \in Nat \X Nat /\ NoAddress \in Nat \X Nat
    BY <1>2 DEF NoAddress, NoVlan, NoIdent
  <2>2. CASE AgentFails(r)
    BY <1>0, <2>1, <2>2 DEF AgentFails, db, router
  <2>3. CASE DbFails(r)
    BY <1>0, <1>2, <2>3 DEF DbFails, VlanConfigCleared, db
  <2> QED BY <1>4, <2>2, <2>3
<1>5. ASSUME NEW r \in Request, RouterFails(r)
      PROVE  Typed
  <2>1. CASE At(r, "cPeer")
    <3>1. {<<req[r].vlan, req[r].ident, req[r].vm>>} \subseteq Nat \X Nat \X Vm
      BY <1>2, <2>1
    <3> QED BY <1>0, <1>5, <2>1, <3>1 DEF RouterFails, At, db, router
  <2>2. CASE ~At(r, "cPeer")
    BY <1>0, <1>2, <1>5, <2>2 DEF RouterFails, VlanConfigCleared, db, router
  <2> QED BY <2>1, <2>2
<1>6. ASSUME NEW r \in Request, ApplyVmConfig(r)
      PROVE  Typed
  <2>1. {<<req[r].vlan, req[r].ident, req[r].vm>>} \subseteq Nat \X Nat \X Vm
        /\ {w \in {req[r].vm} : VmRow(w)} \subseteq Vm
    BY <1>2, <1>6 DEF ApplyVmConfig
  <2> QED BY <1>0, <1>6, <2>1 DEF ApplyVmConfig, db
<1>7. ASSUME NEW r \in Request, AgentCreate(r) \/ AgentsDelete(r)
      PROVE  Typed
  <2>1. <<req[r].configVlan, req[r].ident>> \in Nat \X Nat /\ NoAddress \in Nat \X Nat
    BY <1>2 DEF NoAddress, NoVlan, NoIdent
  <2> QED BY <1>0, <1>7, <2>1 DEF AgentCreate, AgentsDelete, db, router
<1>8. ASSUME NEW r \in Request, ApplyVlanConfig(r) \/ RemoveVlanConfig(r)
                                \/ RemoveVmConfig(r)
      PROVE  Typed
  BY <1>0, <1>2, <1>8 DEF ApplyVlanConfig, RemoveVlanConfig, RemoveVmConfig, db,
     PeersNamed
<1>9. ASSUME NEW r \in Request, AddSubject(r) \/ SetVlanAsConfigured(r)
                                \/ DeleteVm(r) \/ DeleteSubject(r)
      PROVE  Typed
  BY <1>0, <1>9 DEF AddSubject, SetVlanAsConfigured, DeleteVm, DeleteSubject,
     Owners, router
<1>10. ASSUME NEW r \in Request, Work(r)
       PROVE  Typed
  <2>1. CASE SubjectExistsById(r) \/ GetSubjectVlan(r) \/ GetFirstAvailableVlan(r)
             \/ GetVlanOwner(r) \/ GetFirstAvailableVmVlanIdentifier(r)
             \/ AddVm(r) \/ GetVlanByVmId(r) \/ GetWireguardPublicKey(r)
             \/ CheckDeletable(r) \/ VmIsLastInstanceInSubject(r)
             \/ GetVmMutex(r) \/ ReadSubjectAndIdent(r) \/ DeleteVmMutex(r)
    <3>1. Kept
      BY <2>1 DEF SubjectExistsById, GetSubjectVlan, GetFirstAvailableVlan,
         GetVlanOwner, GetFirstAvailableVmVlanIdentifier, AddVm, GetVlanByVmId,
         GetWireguardPublicKey, CheckDeletable, VmIsLastInstanceInSubject,
         GetVmMutex, ReadSubjectAndIdent, DeleteVmMutex, db, router
    <3> QED BY <1>1, <3>1
  <2> QED BY <1>4, <1>5, <1>6, <1>7, <1>8, <1>9, <1>10, <2>1 DEF Work
<1>11. CASE Crash
  BY <1>0, <1>11 DEF Crash, db, router
<1>12. CASE UNCHANGED vars
  BY <1>1, <1>12 DEF vars, db, router
<1> QED BY <1>3, <1>10, <1>11, <1>12 DEF Next

(* The constraints hold of the rows, whatever reads the writes rely on. *)
LEMMA RowsStep ==
  ASSUME TypeInv, RowsInv, [Next]_vars
  PROVE  RowsInv'
<1> USE DEF RowsInv, UniqueVlans, UniqueIdents, ForeignKey, IdentsSet,
            SubjectRow, VmRow
<1>0. /\ vlanOf \in [Subject -> Nat]
      /\ vmSubject \in [Vm -> Subject \cup {None}]
      /\ vmIdent \in [Vm -> Nat]
  BY DEF TypeInv, TypeOK
<1>1. CASE UNCHANGED <<vlanOf, vmSubject, vmIdent>>
  BY <1>1
<1>2. CASE \E r \in Request : AddSubject(r)
  <2>1. PICK r \in Request : AddSubject(r)
    BY <1>2
  <2> DEFINE s == req[r].subject  vlan == req[r].configVlan
  <2>2. vmSubject' = vmSubject /\ vmIdent' = vmIdent
    BY <2>1 DEF AddSubject
  <2>3. vlan # NoVlan
    BY <2>1 DEF AddSubject, At, TypeInv, RequestsOK, RequestOK, SourceHeld
  <2>4. CASE CanAddSubject(s, vlan)
    <3>1. vlanOf' = [vlanOf EXCEPT ![s] = vlan]
      BY <2>1, <2>4 DEF AddSubject
    <3>2. vlanOf[s] = NoVlan /\ \A t \in Subject : vlanOf[t] # vlan
      BY <2>4 DEF CanAddSubject, Owners
    <3>3. UniqueVlans'
      BY <1>0, <3>1, <3>2
    <3>4. ForeignKey'
      BY <1>0, <2>2, <2>3, <3>1, <3>2
    <3> QED BY <2>2, <3>3, <3>4
  <2>5. CASE ~CanAddSubject(s, vlan)
    BY <1>1, <2>1, <2>2, <2>5 DEF AddSubject
  <2> QED BY <2>4, <2>5
<1>3. CASE \E r \in Request : AddVm(r)
  <2>1. PICK r \in Request : AddVm(r)
    BY <1>3
  <2> DEFINE v == req[r].vm  s == req[r].subject  ident == req[r].ident
  <2>2. vlanOf' = vlanOf
    BY <2>1 DEF AddVm
  <2>3. ident # NoIdent /\ s # None
    BY <2>1 DEF AddVm, At, TypeInv, RequestsOK, RequestOK, SourceHeld, CreatePoints
  <2>4. CASE CanAddVm(s, ident)
    <3>1. /\ vmSubject' = [vmSubject EXCEPT ![v] = s]
          /\ vmIdent' = [vmIdent EXCEPT ![v] = ident]
      BY <2>1, <2>4 DEF AddVm
    <3>2. vlanOf[s] # NoVlan /\ \A w \in Vm : vmSubject[w] = s => vmIdent[w] # ident
      BY <2>4 DEF CanAddVm, VmsOf
    <3>3. UniqueIdents'
      BY <1>0, <3>1, <3>2
    <3>4. ForeignKey'
      BY <1>0, <2>2, <3>1, <3>2
    <3>5. IdentsSet'
      BY <1>0, <2>3, <3>1
    <3> QED BY <2>2, <3>3, <3>4, <3>5
  <2>5. CASE ~CanAddVm(s, ident)
    BY <1>1, <2>1, <2>2, <2>5 DEF AddVm
  <2> QED BY <2>4, <2>5
<1>4. CASE \E r \in Request : DeleteVm(r)
  <2>1. PICK r \in Request : DeleteVm(r)
    BY <1>4
  <2>2. /\ vmSubject' = [vmSubject EXCEPT ![req[r].vm] = None]
        /\ vmIdent' = [vmIdent EXCEPT ![req[r].vm] = NoIdent]
        /\ vlanOf' = vlanOf
    BY <2>1 DEF DeleteVm
  <2> QED BY <1>0, <2>2
<1>5. CASE \E r \in Request : DeleteSubject(r)
  <2>1. PICK r \in Request : DeleteSubject(r)
    BY <1>5
  <2> DEFINE s == req[r].subject
  <2>2. vmSubject' = vmSubject /\ vmIdent' = vmIdent
    BY <2>1 DEF DeleteSubject
  <2>3. CASE CanDeleteSubject(s)
    <3>1. vlanOf' = [vlanOf EXCEPT ![s] = NoVlan]
      BY <2>1, <2>3 DEF DeleteSubject
    <3>2. \A v \in Vm : vmSubject[v] # s
      BY <2>3 DEF CanDeleteSubject, VmsOf
    <3> QED BY <1>0, <2>2, <3>1, <3>2
  <2>4. CASE ~CanDeleteSubject(s)
    BY <1>1, <2>1, <2>2, <2>4 DEF DeleteSubject
  <2> QED BY <2>3, <2>4
<1> QED BY <1>1, <1>2, <1>3, <1>4, <1>5, RowWriters

(* Rows and requests stay well formed: the inductive invariant from which   *)
(* the theorems on types and addresses follow.                              *)
THEOREM TypeInvariant == Spec => [](TypeInv /\ RowsInv)
<1>1. Init => TypeInv /\ RowsInv
  <2> SUFFICES ASSUME Init PROVE TypeInv /\ RowsInv
    OBVIOUS
  <2>1. RequestsOK
    BY IdleOK DEF Init, RequestsOK
  <2>2. ColumnsInRange
    BY DEF Init, ColumnsInRange
  <2>3. TypeOK
    BY <2>1 DEF Init, TypeOK, RequestsOK, NoAddress, NoVlan, NoIdent
  <2>4. RowsInv
    BY DEF Init, RowsInv, UniqueVlans, UniqueIdents, ForeignKey, IdentsSet,
       SubjectRow, VmRow
  <2> QED BY <2>1, <2>2, <2>3, <2>4 DEF TypeInv
<1>2. TypeInv /\ RowsInv /\ [Next]_vars => (TypeInv /\ RowsInv)'
  <2> SUFFICES ASSUME TypeInv, RowsInv, [Next]_vars
               PROVE  TypeInv' /\ RowsInv'
    OBVIOUS
  <2>1. RequestsOK'
    <3>1. CASE Next
      BY <3>1, RequestsStep DEF RowsInv, IdentsSet
    <3>2. CASE UNCHANGED vars
      BY <3>2 DEF vars, TypeInv, RequestsOK
    <3> QED BY <3>1, <3>2
  <2>2. TypeOK'
    BY <2>1, ColumnsStep, OthersStep DEF TypeOK, RequestsOK
  <2> QED BY <2>1, <2>2, ColumnsStep, RowsStep DEF TypeInv
<1> QED BY <1>1, <1>2, PTL DEF Spec

(* Every reachable state is well typed, and no request uses a field before  *)
(* it has read it.                                                          *)
THEOREM TypeCorrect == Spec => []TypeOK
<1>1. TypeInv => TypeOK
  BY DEF TypeInv
<1> QED BY <1>1, TypeInvariant, PTL

(* No two recorded instances have one address: addresses are unique because *)
(* VLANs are unique among subjects and identifiers within a subject, and no *)
(* instance outlives its subject.                                           *)
THEOREM AddressesAreUnique == Spec => []AddressesUnique
<1>1. TypeInv /\ RowsInv => AddressesUnique
  <2> SUFFICES ASSUME TypeInv, RowsInv, NEW v \in Vm, NEW w \in Vm,
                      VmRow(v), VmRow(w), RowAddress(v) = RowAddress(w)
               PROVE  v = w
    BY DEF AddressesUnique
  <2>1. vmSubject[v] \in Subject /\ vmSubject[w] \in Subject
    BY DEF VmRow, TypeInv, TypeOK
  <2>2. vlanOf[vmSubject[v]] = vlanOf[vmSubject[w]] /\ vmIdent[v] = vmIdent[w]
    BY DEF RowAddress
  <2>3. vmSubject[v] = vmSubject[w]
    BY <2>1, <2>2 DEF RowsInv, UniqueVlans, ForeignKey
  <2> QED BY <2>2, <2>3 DEF RowsInv, UniqueIdents
<1> QED BY <1>1, TypeInvariant, PTL

(* What the two counts compare for equality is never passed.                *)
THEOREM AddressesAreInRange == Spec => []AddressesInRange
<1>1. TypeInv /\ RowsInv => AddressesInRange
  <2> SUFFICES ASSUME TypeInv, RowsInv
               PROVE  AddressesInRange
    OBVIOUS
  <2>1. \A s \in Subject : SubjectRow(s) => vlanOf[s] \in Vlan
    BY DEF SubjectRow, TypeInv, ColumnsInRange
  <2>2. ASSUME NEW v \in Vm, VmRow(v)
        PROVE  RowAddress(v) \in Address
    <3>1. vmSubject[v] \in Subject /\ SubjectRow(vmSubject[v])
      BY <2>2 DEF VmRow, TypeInv, TypeOK, RowsInv, ForeignKey
    <3>2. vmIdent[v] \in Ident
      BY <2>2 DEF TypeInv, ColumnsInRange, RowsInv, IdentsSet
    <3> QED BY <2>1, <2>2, <3>1, <3>2 DEF RowAddress, Address
  <2> QED BY <2>1, <2>2 DEF AddressesInRange
<1> QED BY <1>1, TypeInvariant, PTL

(***************************************************************************)
(* 3. An instance being created belongs to its request alone, until its    *)
(*    row is there for others to see.                                      *)
(***************************************************************************)
NewbornPoints == {"cSubject", "cSubjectVlan", "cFreeVlan", "cAddSubject",
                  "cOwner", "cIdent", "cLock", "cAgent", "cAddVm"}

Newborn ==
    \A r \in Request : req[r].pc \in NewbornPoints =>
        /\ ~VmRow(req[r].vm)
        /\ \A q \in Request : q # r => req[q].vm # req[r].vm

(* A handler under way keeps its instance or, at its end, drops it; it does *)
(* not go back to making an instance it has recorded.                       *)
Onward(r) ==
    /\ \A q \in Request : q # r => /\ req'[q].vm = req[q].vm
                                   /\ req'[q].pc = req[q].pc
    /\ req'[r].vm \in {req[r].vm, None}
    /\ req'[r].pc \in NewbornPoints =>
          /\ req[r].pc \in NewbornPoints
          /\ req'[r].vm = req[r].vm

LEMMA AnswerOnward ==
  ASSUME req \in [Request -> RequestRecord], NEW r \in Request, Answer(r)
  PROVE  Onward(r)
BY DEF Answer, Onward, Idle, NewbornPoints, RequestRecord

LEMMA RollbackOnward ==
  ASSUME req \in [Request -> RequestRecord], NEW r \in Request, Rollback(r)
  PROVE  Onward(r)
BY DEF Rollback, Onward, Idle, NewbornPoints, RequestRecord

LEMMA GotoOnward ==
  ASSUME req \in [Request -> RequestRecord], NEW r \in Request, NEW p, Goto(r, p),
         p \in NewbornPoints => req[r].pc \in NewbornPoints
  PROVE  Onward(r)
BY DEF Goto, Onward, RequestRecord

LEMMA WorkOnward ==
  ASSUME req \in [Request -> RequestRecord], NEW r \in Request, Work(r) \/ Lock(r)
  PROVE  Onward(r)
<1> USE AnswerOnward, RollbackOnward, GotoOnward
<1>1. CASE SubjectExistsById(r) \/ AddSubject(r) \/ AgentCreate(r) \/ AddVm(r)
           \/ LockSource(r) \/ RelockSource(r) \/ LockInstance(r)
  <2>1. CASE SubjectExistsById(r)
    BY <2>1 DEF SubjectExistsById, At, NewbornPoints
  <2>2. CASE AddSubject(r)
    BY <2>2 DEF AddSubject, At, NewbornPoints, Onward
  <2>3. CASE AgentCreate(r)
    BY <2>3 DEF AgentCreate, At, NewbornPoints
  <2>4. CASE AddVm(r)
    BY <2>4 DEF AddVm, At, NewbornPoints, Onward
  <2>5. CASE LockSource(r) \/ RelockSource(r) \/ LockInstance(r)
    BY <2>5 DEF LockSource, RelockSource, LockInstance, At, NewbornPoints
  <2> QED BY <1>1, <2>1, <2>2, <2>3, <2>4, <2>5
<1>2. CASE GetSubjectVlan(r) \/ GetFirstAvailableVlan(r) \/ GetVlanOwner(r)
           \/ GetFirstAvailableVmVlanIdentifier(r)
  <2>1. CASE Answer(r)
    BY <2>1
  <2>2. CASE ~Answer(r)
    BY <1>2, <2>2 DEF GetSubjectVlan, GetFirstAvailableVlan, GetVlanOwner,
       GetFirstAvailableVmVlanIdentifier, At, NewbornPoints, Onward, RequestRecord
  <2> QED BY <2>1, <2>2
<1>3. CASE GetVlanByVmId(r) \/ VmIsLastInstanceInSubject(r) \/ ReadSubjectAndIdent(r)
  <2>1. CASE Answer(r)
    BY <2>1
  <2>2. CASE ~Answer(r)
    BY <1>3, <2>2 DEF GetVlanByVmId, VmIsLastInstanceInSubject, ReadVmSubject,
       ReadSubjectVlan, ReadSubjectAndIdent, At, NewbornPoints, Onward, RequestRecord
  <2> QED BY <2>1, <2>2
<1>4. CASE DeleteVmMutex(r)
  <2>1. \A q \in Request : req'[q].vm = req[q].vm
    BY <1>4 DEF DeleteVmMutex, RequestRecord
  <2>2. \A q \in Request : q # r => req'[q].pc = req[q].pc
    BY <1>4 DEF DeleteVmMutex, RequestRecord
  <2>3. req'[r].pc = "dPeer"
    BY <1>4 DEF DeleteVmMutex, RequestRecord
  <2> QED BY <2>1, <2>2, <2>3 DEF Onward, NewbornPoints
<1>5. CASE CheckVlanConfigured(r) \/ ApplyVlanConfig(r) \/ SetVlanAsConfigured(r)
           \/ GetWireguardPublicKey(r) \/ ApplyVmConfig(r) \/ CheckVlanRemovable(r)
  BY <1>5 DEF CheckVlanConfigured, ApplyVlanConfig, SetVlanAsConfigured,
     GetWireguardPublicKey, ApplyVmConfig, CheckVlanRemovable, NewbornPoints
<1>6. CASE CheckDeletable(r) \/ GetVmMutex(r) \/ AgentsDelete(r) \/ DeleteVm(r)
           \/ RemoveVmConfig(r) \/ RemoveVlanConfig(r) \/ DeleteSubject(r)
  BY <1>6 DEF CheckDeletable, GetVmMutex, AgentsDelete, DeleteVm, RemoveVmConfig,
     RemoveVlanConfig, DeleteSubject, PeerHandled, NewbornPoints, Onward
<1>7. CASE DbFails(r) \/ AgentFails(r) \/ RouterFails(r)
  BY <1>7 DEF DbFails, AgentFails, RouterFails, SweepIncomplete, PeerHandled,
     NewbornPoints
<1> QED BY <1>1, <1>2, <1>3, <1>4, <1>5, <1>6, <1>7 DEF Work, Lock

(* AddVm is the only step that makes a row, and it leaves no request that   *)
(* counts on the row's absence.                                             *)
LEMMA NewbornStep ==
  ASSUME TypeInv, Newborn, [Next]_vars
  PROVE  Newborn'
<1>0. /\ req \in [Request -> RequestRecord]
      /\ vmSubject \in [Vm -> Subject \cup {None}]
      /\ \A r \in Request : req[r].pc \in NewbornPoints => req[r].vm \in Vm
  BY DEF TypeInv, TypeOK, RequestOK, RequestRecord, CreatePoints, NewbornPoints
<1>1. CASE Crash
  BY <1>1 DEF Crash, Newborn, NewbornPoints, Idle
<1>2. CASE UNCHANGED vars
  BY <1>2 DEF vars, db, Newborn, VmRow
<1>3. ASSUME NEW r \in Request, CreateInstance(r)
      PROVE  Newborn'
  <2>1. PICK v \in Vm, s \in Subject, src \in Source :
          /\ Fresh(v)
          /\ req' = [req EXCEPT ![r] = [Idle EXCEPT
                 !.pc = "cSubject", !.vm = v, !.subject = s, !.source = src]]
    BY <1>3 DEF CreateInstance
  <2>2. vmSubject' = vmSubject
    BY <1>3 DEF CreateInstance, db
  <2>3. req'[r].vm = v /\ \A q \in Request : q # r => req'[q] = req[q]
    BY <1>0, <2>1 DEF Idle
  <2>4. ~VmRow(v) /\ \A q \in Request : req[q].vm # v
    BY <2>1 DEF Fresh
  <2> QED BY <2>2, <2>3, <2>4 DEF Newborn, VmRow
<1>4. ASSUME NEW r \in Request, DeleteInstance(r)
      PROVE  Newborn'
  <2>1. PICK v \in Vm :
          /\ VmRow(v)
          /\ req' = [req EXCEPT ![r] = [Idle EXCEPT !.pc = "dExists", !.vm = v]]
    BY <1>4 DEF DeleteInstance
  <2>2. vmSubject' = vmSubject
    BY <1>4 DEF DeleteInstance, db
  <2>3. /\ req'[r].vm = v /\ req'[r].pc = "dExists"
        /\ \A q \in Request : q # r => req'[q] = req[q]
    BY <1>0, <2>1 DEF Idle
  <2> QED BY <2>1, <2>2, <2>3 DEF Newborn, VmRow, NewbornPoints
<1>5. ASSUME NEW r \in Request, Work(r) \/ Lock(r)
      PROVE  Newborn'
  <2>1. Onward(r)
    BY <1>0, <1>5, WorkOnward
  <2> SUFFICES ASSUME NEW q \in Request, req'[q].pc \in NewbornPoints
               PROVE  /\ vmSubject'[req'[q].vm] = None
                      /\ \A t \in Request : t # q => req'[t].vm # req'[q].vm
    BY DEF Newborn, VmRow
  <2>2. req[q].pc \in NewbornPoints /\ req'[q].vm = req[q].vm
    BY <2>1 DEF Onward
  <2>3. /\ req[q].vm \in Vm /\ req[q].vm # None
        /\ ~VmRow(req[q].vm)
        /\ \A t \in Request : t # q => req[t].vm # req[q].vm
    BY <1>0, <2>2, NoneAssumption DEF Newborn
  <2>4. \A t \in Request : t # q => req'[t].vm # req'[q].vm
    BY <2>1, <2>2, <2>3 DEF Onward
  <2>5. vmSubject'[req'[q].vm] = None
    <3>1. CASE vmSubject' = vmSubject
      BY <2>2, <2>3, <3>1 DEF VmRow
    <3>2. CASE \E t \in Request : AddVm(t)
      <4>1. PICK t \in Request : AddVm(t)
        BY <3>2
      <4>2. CASE CanAddVm(req[t].subject, req[t].ident)
        <5>1. /\ vmSubject' = [vmSubject EXCEPT ![req[t].vm] = req[t].subject]
              /\ req' = [req EXCEPT ![t].pc = "cRow"]
          BY <4>1, <4>2 DEF AddVm, Goto
        <5>2. t # q
          BY <1>0, <5>1 DEF NewbornPoints, RequestRecord
        <5> QED BY <1>0, <2>2, <2>3, <5>1, <5>2 DEF VmRow
      <4>3. CASE ~CanAddVm(req[t].subject, req[t].ident)
        BY <3>1, <4>1, <4>3 DEF AddVm
      <4> QED BY <4>2, <4>3
    <3>3. CASE \E t \in Request : DeleteVm(t)
      BY <1>0, <2>2, <2>3, <3>3 DEF DeleteVm, VmRow
    <3>4. CASE \E t \in Request : AddSubject(t) \/ DeleteSubject(t)
      BY <3>1, <3>4 DEF AddSubject, DeleteSubject
    <3> QED BY <3>1, <3>2, <3>3, <3>4, RowWriters
  <2> QED BY <2>4, <2>5
<1> QED BY <1>1, <1>2, <1>3, <1>4, <1>5 DEF Next

(* Until its row is inserted, an instance is known to the request that      *)
(* makes it and to no other.                                                *)
THEOREM NewbornInvariant == Spec => []Newborn
<1>1. Init => Newborn
  BY DEF Init, Newborn, NewbornPoints, Idle
<1>2. TypeInv /\ Newborn /\ [Next]_vars => Newborn'
  BY NewbornStep
<1> QED BY <1>1, <1>2, TypeInvariant, PTL DEF Spec

(***************************************************************************)
(* 4. The rows implement the address pool: only AddVm and DeleteVm change  *)
(*    an address, the one by a Claim and the other by a Release.           *)
(***************************************************************************)
LEMMA ClaimStep ==
  ASSUME TypeInv, RowsInv, Newborn, NEW r \in Request, AddVm(r),
         CanAddVm(req[r].subject, req[r].ident)
  PROVE  \E v \in Vm, a \in Address : Pool!Claim(v, a)
<1> DEFINE v == req[r].vm  s == req[r].subject  ident == req[r].ident
           a == <<vlanOf[s], ident>>
<1>0. /\ vlanOf \in [Subject -> Nat]
      /\ vmSubject \in [Vm -> Subject \cup {None}]
      /\ vmIdent \in [Vm -> Nat]
  BY DEF TypeInv, TypeOK
<1>1. v \in Vm /\ s \in Subject /\ s # None
  BY DEF AddVm, At, TypeInv, RequestsOK, RequestOK, RequestRecord, CreatePoints
<1>2. ident \in Ident
  BY DEF AddVm, At, TypeInv, RequestsOK, RequestOK, RequestInRange, SourceHeld
<1>3. vlanOf[s] \in Vlan /\ vlanOf[s] # NoVlan
  BY <1>1 DEF CanAddVm, SubjectRow, TypeInv, ColumnsInRange
<1>4. ~VmRow(v)
  BY DEF AddVm, At, Newborn, NewbornPoints
<1>5. /\ vlanOf' = vlanOf
      /\ vmSubject' = [vmSubject EXCEPT ![v] = s]
      /\ vmIdent' = [vmIdent EXCEPT ![v] = ident]
  BY DEF AddVm
<1>6. a \in Address /\ a # NoAddress
  BY <1>2, <1>3 DEF Address, NoAddress
<1>7. Pool!Free(a)
  <2> SUFFICES ASSUME NEW w \in Vm, RowAddress(w) = a
               PROVE  FALSE
    BY DEF Pool!Free
  <2>1. VmRow(w)
    BY <1>6 DEF RowAddress
  <2>2. vmSubject[w] \in Subject /\ SubjectRow(vmSubject[w])
    BY <1>0, <2>1 DEF VmRow, RowsInv, ForeignKey
  <2>3. vlanOf[vmSubject[w]] = vlanOf[s] /\ vmIdent[w] = ident
    BY <2>1 DEF RowAddress
  <2>4. vmSubject[w] = s
    BY <1>1, <2>2, <2>3 DEF RowsInv, UniqueVlans
  <2> QED BY <2>3, <2>4 DEF CanAddVm, VmsOf
<1>8. [w \in Vm |-> RowAddress(w)]' = [[w \in Vm |-> RowAddress(w)] EXCEPT ![v] = a]
  <2> SUFFICES ASSUME NEW w \in Vm
               PROVE  RowAddress(w)' = IF w = v THEN a ELSE RowAddress(w)
    BY <1>1
  <2>1. CASE w = v
    BY <1>0, <1>1, <1>5, <2>1 DEF RowAddress, VmRow
  <2>2. CASE w # v
    BY <1>0, <1>1, <1>5, <2>2 DEF RowAddress, VmRow
  <2> QED BY <2>1, <2>2
<1>9. [w \in Vm |-> RowAddress(w)][v] = NoAddress
  BY <1>1, <1>4 DEF RowAddress
<1>10. Pool!Claim(v, a)
  BY <1>6, <1>7, <1>8, <1>9 DEF Pool!Claim
<1> QED BY <1>1, <1>6, <1>10

LEMMA ReleaseStep ==
  ASSUME TypeInv, NEW r \in Request, DeleteVm(r), VmRow(req[r].vm), RowsInv
  PROVE  \E v \in Vm : Pool!Release(v)
<1> DEFINE v == req[r].vm
<1>0. /\ vlanOf \in [Subject -> Nat]
      /\ vmSubject \in [Vm -> Subject \cup {None}]
      /\ vmIdent \in [Vm -> Nat]
  BY DEF TypeInv, TypeOK
<1>1. v \in Vm
  BY DEF DeleteVm, At, TypeInv, RequestsOK, RequestOK, RequestRecord, DeletePoints
<1>2. /\ vlanOf' = vlanOf
      /\ vmSubject' = [vmSubject EXCEPT ![v] = None]
      /\ vmIdent' = [vmIdent EXCEPT ![v] = NoIdent]
  BY DEF DeleteVm
<1>3. RowAddress(v) # NoAddress
  <2>1. vmSubject[v] \in Subject /\ SubjectRow(vmSubject[v])
    BY <1>0, <1>1 DEF VmRow, RowsInv, ForeignKey
  <2> QED BY <2>1 DEF RowAddress, NoAddress, SubjectRow
<1>4. [w \in Vm |-> RowAddress(w)]'
        = [[w \in Vm |-> RowAddress(w)] EXCEPT ![v] = NoAddress]
  <2> SUFFICES ASSUME NEW w \in Vm
               PROVE  RowAddress(w)' = IF w = v THEN NoAddress ELSE RowAddress(w)
    BY <1>1
  <2> QED BY <1>0, <1>1, <1>2 DEF RowAddress, VmRow
<1>5. Pool!Release(v)
  BY <1>1, <1>3, <1>4 DEF Pool!Release
<1> QED BY <1>1, <1>5

LEMMA PoolStep ==
  ASSUME TypeInv, RowsInv, Newborn, [Next]_vars
  PROVE  [Pool!Next]_[v \in Vm |-> RowAddress(v)]
<1>0. /\ vlanOf \in [Subject -> Nat]
      /\ vmSubject \in [Vm -> Subject \cup {None}]
      /\ vmIdent \in [Vm -> Nat]
  BY DEF TypeInv, TypeOK
<1>1. ASSUME \A v \in Vm : RowAddress(v)' = RowAddress(v)
      PROVE  UNCHANGED [v \in Vm |-> RowAddress(v)]
  BY <1>1
<1>2. CASE UNCHANGED <<vlanOf, vmSubject, vmIdent>>
  BY <1>1, <1>2 DEF RowAddress, VmRow
<1>3. CASE \E r \in Request : AddVm(r)
  <2>1. PICK r \in Request : AddVm(r)
    BY <1>3
  <2>2. CASE CanAddVm(req[r].subject, req[r].ident)
    BY <2>1, <2>2, ClaimStep DEF Pool!Next
  <2>3. CASE ~CanAddVm(req[r].subject, req[r].ident)
    BY <1>2, <2>1, <2>3 DEF AddVm
  <2> QED BY <2>2, <2>3
<1>4. CASE \E r \in Request : DeleteVm(r)
  <2>1. PICK r \in Request : DeleteVm(r)
    BY <1>4
  <2>2. CASE VmRow(req[r].vm)
    BY <2>1, <2>2, ReleaseStep DEF Pool!Next
  <2>3. CASE ~VmRow(req[r].vm)
    <3>1. /\ vlanOf' = vlanOf
          /\ vmSubject' = vmSubject
          /\ vmIdent' = [vmIdent EXCEPT ![req[r].vm] = NoIdent]
      BY <1>0, <2>1, <2>3 DEF DeleteVm, VmRow
    <3>2. \A v \in Vm : RowAddress(v)' = RowAddress(v)
      BY <1>0, <2>3, <3>1 DEF RowAddress, VmRow
    <3> QED BY <1>1, <3>2
  <2> QED BY <2>2, <2>3
<1>5. CASE \E r \in Request : AddSubject(r) \/ DeleteSubject(r)
  <2>1. PICK r \in Request : AddSubject(r) \/ DeleteSubject(r)
    BY <1>5
  <2> DEFINE s == req[r].subject
  <2>2. vmSubject' = vmSubject /\ vmIdent' = vmIdent
    BY <2>1 DEF AddSubject, DeleteSubject
  <2>3. ASSUME NEW t \in Subject, NEW v \in Vm, vmSubject[v] = t
        PROVE  vlanOf'[t] = vlanOf[t]
    <3>1. SubjectRow(t)
      BY <2>3, NoneAssumption DEF RowsInv, ForeignKey, VmRow
    <3>2. CASE AddSubject(r)
      BY <1>0, <2>3, <3>1, <3>2 DEF AddSubject, CanAddSubject
    <3>3. CASE DeleteSubject(r)
      BY <1>0, <2>3, <3>3 DEF DeleteSubject, CanDeleteSubject, VmsOf
    <3> QED BY <2>1, <3>2, <3>3
  <2>4. \A v \in Vm : RowAddress(v)' = RowAddress(v)
    BY <1>0, <2>2, <2>3 DEF RowAddress, VmRow
  <2> QED BY <1>1, <2>4
<1> QED BY <1>2, <1>3, <1>4, <1>5, RowWriters

(* An instance is recorded with an address nobody has, and has no other     *)
(* until it is deleted: the service implements the address pool.            *)
THEOREM LifecycleImplementsPool == Spec => ImplementsPool
<1>1. Init => Pool!Init
  BY DEF Init, Pool!Init, RowAddress, VmRow
<1>2. TypeInv /\ RowsInv /\ Newborn /\ [Next]_vars
        => [Pool!Next]_[v \in Vm |-> RowAddress(v)]
  BY PoolStep
<1> QED BY <1>1, <1>2, TypeInvariant, NewbornInvariant, PTL
        DEF Spec, ImplementsPool, Pool!Spec

(***************************************************************************)
(* 5. How a handler moves.  Five steps of a handler act on what others     *)
(*    see or hold: they are met one by one.  Every other one ends the      *)
(*    handler, turns to undoing a create, stays, or goes to a next point   *)
(*    with the same instance and the same mutex.                           *)
(***************************************************************************)
OrdinaryMoves ==
    (Moves \ {<<"cAddVm", "cRow">>, <<"dLock", "dAgents">>,
              <<"dAgents", "dRow">>, <<"dDelete", "dForget">>}) \cup
    {<<"cSubjectVlan", "cOwner">>, <<"cFreeVlan", "cAddSubject">>,
     <<"cOwner", "cIdent">>, <<"cIdent", "cLock">>, <<"cRow", "cVlan">>,
     <<"cVlan", "vcCheck">>, <<"dSubject", "dVlan">>,
     <<"dVlan", "dLastSubject">>, <<"dLastSubject", "dLastCount">>,
     <<"dLastCount", "dMutex">>, <<"dRow", "dDelete">>}

MovesOn(r) ==
    /\ <<req[r].pc, req'[r].pc>> \in OrdinaryMoves
    /\ req'[r].vm = req[r].vm
    /\ req'[r].stale = req[r].stale

Ordinary(r) ==
    /\ \A q \in Request : q # r => req'[q] = req[q]
    /\ \/ Answer(r)
       \/ req[r].pc \in CreatePoints /\ Rollback(r)
       \/ req'[r] = req[r]
       \/ MovesOn(r)

LEMMA AnswerOrdinary ==
  ASSUME RequestsOK, NEW r \in Request, Answer(r)
  PROVE  Ordinary(r)
BY DEF RequestsOK, Answer, Ordinary

LEMMA RollbackOrdinary ==
  ASSUME RequestsOK, NEW r \in Request, req[r].pc \in CreatePoints, Rollback(r)
  PROVE  Ordinary(r)
BY DEF RequestsOK, Rollback, Ordinary

LEMMA GotoOrdinary ==
  ASSUME RequestsOK, NEW r \in Request, NEW p, Goto(r, p),
         <<req[r].pc, p>> \in OrdinaryMoves
  PROVE  Ordinary(r)
BY DEF RequestsOK, RequestRecord, Goto, Ordinary, MovesOn

LEMMA OrdinaryEnds ==
  ASSUME RequestsOK, NEW r \in Request, Ordinary(r)
  PROVE  \/ req'[r].pc \in {"idle", "relock", "dExists"} /\ ~req'[r].stale
         \/ req'[r] = req[r]
         \/ MovesOn(r)
<1>1. CASE Answer(r)
  BY <1>1 DEF RequestsOK, Answer, Idle
<1>2. CASE Rollback(r)
  BY <1>2 DEF RequestsOK, Rollback, Idle
<1> QED BY <1>1, <1>2 DEF Ordinary

LEMMA HandlerStep ==
  ASSUME RequestsOK, NEW r \in Request, Work(r) \/ Lock(r)
  PROVE  \/ AddVm(r) \/ LockInstance(r) \/ AgentsDelete(r) \/ DeleteVm(r)
         \/ DeleteVmMutex(r)
         \/ Ordinary(r)
<1> USE AnswerOrdinary, RollbackOrdinary, GotoOrdinary
<1>0. req \in [Request -> RequestRecord]
  BY DEF RequestsOK
<1>1. CASE SubjectExistsById(r) \/ AgentCreate(r) \/ LockSource(r)
           \/ RelockSource(r) \/ CheckDeletable(r) \/ GetVmMutex(r)
  BY <1>1 DEF SubjectExistsById, AgentCreate, LockSource, RelockSource,
     CheckDeletable, GetVmMutex, At, OrdinaryMoves, Moves
<1>2. CASE AddSubject(r)
  BY <1>2 DEF AddSubject, At, OrdinaryMoves, Moves, Ordinary
<1>3. CASE GetSubjectVlan(r) \/ GetFirstAvailableVlan(r) \/ GetVlanOwner(r)
           \/ GetFirstAvailableVmVlanIdentifier(r)
  <2>1. CASE ~Answer(r)
    BY <1>0, <1>3, <2>1 DEF GetSubjectVlan, GetFirstAvailableVlan, GetVlanOwner,
       GetFirstAvailableVmVlanIdentifier, At, OrdinaryMoves, Ordinary, MovesOn,
       RequestRecord
  <2> QED BY <2>1
<1>4. CASE GetVlanByVmId(r) \/ VmIsLastInstanceInSubject(r) \/ ReadSubjectAndIdent(r)
  <2>1. CASE ~Answer(r)
    BY <1>0, <1>4, <2>1 DEF GetVlanByVmId, VmIsLastInstanceInSubject, ReadVmSubject,
       ReadSubjectVlan, ReadSubjectAndIdent, At, OrdinaryMoves, Ordinary,
       MovesOn, RequestRecord
  <2> QED BY <2>1
<1>5. CASE CheckVlanConfigured(r) \/ ApplyVlanConfig(r) \/ SetVlanAsConfigured(r)
           \/ GetWireguardPublicKey(r) \/ ApplyVmConfig(r)
  BY <1>5 DEF CheckVlanConfigured, ApplyVlanConfig, SetVlanAsConfigured,
     GetWireguardPublicKey, ApplyVmConfig, At, OrdinaryMoves, Moves, CreatePoints
<1>6. CASE RemoveVmConfig(r) \/ CheckVlanRemovable(r) \/ RemoveVlanConfig(r)
           \/ DeleteSubject(r)
  BY <1>6 DEF RemoveVmConfig, PeerHandled, CheckVlanRemovable, RemoveVlanConfig,
     DeleteSubject, At, OrdinaryMoves, Moves, Ordinary
<1>7. CASE DbFails(r) \/ AgentFails(r) \/ RouterFails(r)
  BY <1>7 DEF DbFails, AgentFails, RouterFails, SweepIncomplete, PeerHandled, At,
     OrdinaryMoves, Moves, CreatePoints
<1> QED BY <1>1, <1>2, <1>3, <1>4, <1>5, <1>6, <1>7 DEF Work, Lock

(***************************************************************************)
(* 6. Who is in an instance's critical section.                            *)
(***************************************************************************)
RowGonePoints == {"dForget", "dPeer", "vdCheck", "vdRemove", "dDelSubject"}

(* A stale pointer is held where a mutex is waited for or held, and for an  *)
(* instance that has no row any more.                                       *)
StaleFits ==
    \A q \in Request : req[q].stale =>
        req[q].pc \in InstanceHeld \cup {"dLock"} /\ ~VmRow(req[q].vm)

(* Past DeleteVm the row is gone; past DeleteVmMutex so is the mutex.       *)
RowGone ==
    \A q \in Request : req[q].pc \in RowGonePoints =>
        ~VmRow(req[q].vm) /\ (req[q].pc # "dForget" => req[q].stale)

(* The mutex in the map is held by one request.                             *)
MutexExclusive ==
    \A q, r \in Request :
        /\ q # r
        /\ req[q].vm = req[r].vm
        /\ {req[q].pc, req[r].pc} \subseteq InstanceHeld
        => req[q].stale \/ req[r].stale

DeletersInv == StaleFits /\ RowGone /\ MutexExclusive

(* Which steps of a handler write what.                                     *)
LEMMA HandlerWrites ==
  ASSUME NEW r \in Request, Work(r) \/ Lock(r)
  PROVE  /\ ~(AddVm(r) \/ DeleteVm(r)) => vmSubject' = vmSubject /\ vmIdent' = vmIdent
         /\ ~(AddSubject(r) \/ DeleteSubject(r)) => vlanOf' = vlanOf
         /\ ~(ApplyVmConfig(r) \/ RemoveVmConfig(r) \/ RouterFails(r))
               => peers' = peers
         /\ ~(DeleteVm(r) \/ ApplyVmConfig(r)) => served' = served
         /\ ~(AgentCreate(r) \/ AgentFails(r) \/ AgentsDelete(r)) => domain' = domain
         /\ ~(AddSubject(r) \/ SetVlanAsConfigured(r) \/ DeleteSubject(r))
               => configured' = configured
         /\ ~(ApplyVlanConfig(r) \/ RemoveVlanConfig(r) \/ DbFails(r) \/ RouterFails(r))
               => wireguards' = wireguards
         /\ ~(DbFails(r) \/ AgentFails(r) \/ RouterFails(r)) => failed' = failed
<1>1. CASE Lock(r)
  BY <1>1 DEF Lock, LockSource, RelockSource, LockInstance, CheckVlanConfigured,
     CheckVlanRemovable, db, router
<1>2. CASE SubjectExistsById(r) \/ GetSubjectVlan(r) \/ GetFirstAvailableVlan(r)
           \/ AddSubject(r) \/ GetVlanOwner(r)
           \/ GetFirstAvailableVmVlanIdentifier(r)
           \/ AgentCreate(r) \/ AddVm(r) \/ GetVlanByVmId(r)
  BY <1>2 DEF SubjectExistsById, GetSubjectVlan, GetFirstAvailableVlan, AddSubject,
     GetVlanOwner, GetFirstAvailableVmVlanIdentifier, AgentCreate, AddVm,
     GetVlanByVmId, db, router
<1>3. CASE ApplyVlanConfig(r) \/ SetVlanAsConfigured(r) \/ GetWireguardPublicKey(r)
           \/ ApplyVmConfig(r) \/ CheckDeletable(r)
           \/ VmIsLastInstanceInSubject(r) \/ GetVmMutex(r) \/ AgentsDelete(r)
           \/ ReadSubjectAndIdent(r)
  BY <1>3 DEF ApplyVlanConfig, SetVlanAsConfigured, GetWireguardPublicKey,
     ApplyVmConfig, CheckDeletable, VmIsLastInstanceInSubject, GetVmMutex,
     AgentsDelete, ReadSubjectAndIdent, db, router
<1>4. CASE DeleteVm(r) \/ DeleteVmMutex(r) \/ RemoveVmConfig(r) \/ RemoveVlanConfig(r)
           \/ DeleteSubject(r)
  BY <1>4 DEF DeleteVm, DeleteVmMutex, RemoveVmConfig, RemoveVlanConfig,
     DeleteSubject, db, router
<1>5. CASE DbFails(r) \/ AgentFails(r) \/ RouterFails(r)
  BY <1>5 DEF DbFails, AgentFails, RouterFails, db, router
<1> QED BY <1>1, <1>2, <1>3, <1>4, <1>5 DEF Work

LEMMA DeletersStep ==
  ASSUME TypeInv, Newborn, DeletersInv, [Next]_vars
  PROVE  DeletersInv'
<1> USE DEF DeletersInv
<1>0. /\ req \in [Request -> RequestRecord]
      /\ \A q \in Request : req[q].pc \in CreatePoints \cup DeletePoints => req[q].vm \in Vm
      /\ RequestsOK
      /\ vmSubject \in [Vm -> Subject \cup {None}]
  BY DEF TypeInv, TypeOK, RequestOK, RequestRecord
<1>1. CASE Crash
  BY <1>1 DEF Crash, StaleFits, RowGone, MutexExclusive, RowGonePoints,
     InstanceHeld, Idle
<1>2. CASE UNCHANGED vars
  BY <1>2 DEF vars, db, StaleFits, RowGone, MutexExclusive, VmRow
<1>3. ASSUME NEW r \in Request, CreateInstance(r) \/ DeleteInstance(r)
      PROVE  DeletersInv'
  <2>1. vmSubject' = vmSubject
    BY <1>3 DEF CreateInstance, DeleteInstance, db
  <2>2. /\ \A q \in Request : q # r => req'[q] = req[q]
        /\ req'[r].pc \in {"cSubject", "dExists"} /\ ~req'[r].stale
    BY <1>0, <1>3 DEF CreateInstance, DeleteInstance, Idle
  <2> QED BY <2>1, <2>2 DEF StaleFits, RowGone, MutexExclusive, VmRow,
             RowGonePoints, InstanceHeld
<1>4. ASSUME NEW r \in Request, AddVm(r)
      PROVE  DeletersInv'
  <2>1. CASE CanAddVm(req[r].subject, req[r].ident)
    <3>1. /\ vmSubject' = [vmSubject EXCEPT ![req[r].vm] = req[r].subject]
          /\ req' = [req EXCEPT ![r].pc = "cRow"] /\ req[r].pc = "cAddVm"
      BY <1>4, <2>1 DEF AddVm, Goto, At
    <3>2. /\ \A q \in Request : q # r => req'[q] = req[q] /\ req[q].vm # req[r].vm
          /\ req'[r].pc = "cRow" /\ req'[r].stale = req[r].stale
      BY <1>0, <3>1 DEF Newborn, NewbornPoints, RequestRecord
    <3>3. ~req[r].stale
      BY <3>1 DEF StaleFits, InstanceHeld
    <3>4. \A q \in Request : q # r =>
            vmSubject'[req[q].vm] = vmSubject[req[q].vm] \/ req[q].vm \notin Vm
      BY <1>0, <3>1, <3>2
    <3>5. \A q \in Request :
            req[q].pc \in RowGonePoints \cup InstanceHeld \cup {"dLock"} => req[q].vm \in Vm
      BY <1>0 DEF RowGonePoints, InstanceHeld, DeletePoints
    <3> QED BY <3>2, <3>3, <3>4, <3>5 DEF StaleFits, RowGone, MutexExclusive, VmRow,
               RowGonePoints, InstanceHeld
  <2>2. CASE ~CanAddVm(req[r].subject, req[r].ident)
    BY <1>4, <2>2 DEF AddVm, StaleFits, RowGone, MutexExclusive, VmRow
  <2> QED BY <2>1, <2>2
<1>5. ASSUME NEW r \in Request, LockInstance(r)
      PROVE  DeletersInv'
  <2>1. /\ vmSubject' = vmSubject
        /\ req' = [req EXCEPT ![r].pc = "dAgents"] /\ req[r].pc = "dLock"
        /\ \A q \in Request : req[q].vm = req[r].vm /\ req[q].stale = req[r].stale
                                 => req[q].pc \notin InstanceHeld
    BY <1>5 DEF LockInstance, Goto, At, InstanceFree, db
  <2>2. /\ \A q \in Request : q # r => req'[q] = req[q]
        /\ req'[r].pc = "dAgents" /\ req'[r].stale = req[r].stale
        /\ req'[r].vm = req[r].vm
    BY <1>0, <2>1 DEF RequestRecord
  <2>3. \A q \in Request : req[q].stale \in BOOLEAN
    BY <1>0 DEF RequestRecord
  <2> QED BY <2>1, <2>2, <2>3 DEF StaleFits, RowGone, MutexExclusive, VmRow,
             RowGonePoints, InstanceHeld
<1>6. ASSUME NEW r \in Request, AgentsDelete(r)
      PROVE  DeletersInv'
  <2>1. /\ vmSubject' = vmSubject
        /\ req' = [req EXCEPT ![r].pc = "dRow"] /\ req[r].pc = "dAgents"
    BY <1>6 DEF AgentsDelete, Goto, At, db
  <2>2. /\ \A q \in Request : q # r => req'[q] = req[q]
        /\ req'[r].pc = "dRow" /\ req'[r].stale = req[r].stale
        /\ req'[r].vm = req[r].vm
    BY <1>0, <2>1 DEF RequestRecord
  <2> QED BY <2>1, <2>2 DEF StaleFits, RowGone, MutexExclusive, VmRow,
             RowGonePoints, InstanceHeld
<1>7. ASSUME NEW r \in Request, DeleteVm(r)
      PROVE  DeletersInv'
  <2>1. /\ vmSubject' = [vmSubject EXCEPT ![req[r].vm] = None]
        /\ req' = [req EXCEPT ![r].pc = "dForget"] /\ req[r].pc = "dDelete"
    BY <1>7 DEF DeleteVm, Goto, At
  <2>2. /\ \A q \in Request : q # r => req'[q] = req[q]
        /\ req'[r].pc = "dForget" /\ req'[r].stale = req[r].stale
        /\ req'[r].vm = req[r].vm /\ req[r].vm \in Vm
    BY <1>0, <2>1 DEF RequestRecord, DeletePoints
  <2>3. \A v \in Vm : vmSubject'[v] \in {vmSubject[v], None}
    BY <1>0, <2>1
  <2>4. vmSubject'[req[r].vm] = None
    BY <1>0, <2>1, <2>2
  <2>5. \A q \in Request :
          req[q].pc \in RowGonePoints \cup InstanceHeld \cup {"dLock"} => req[q].vm \in Vm
    BY <1>0 DEF RowGonePoints, InstanceHeld, DeletePoints
  <2> QED BY <2>1, <2>2, <2>3, <2>4, <2>5 DEF StaleFits, RowGone, MutexExclusive,
             VmRow, RowGonePoints, InstanceHeld
<1>8. ASSUME NEW r \in Request, DeleteVmMutex(r)
      PROVE  DeletersInv'
  <2>1. /\ vmSubject' = vmSubject /\ req[r].pc = "dForget"
        /\ ~VmRow(req[r].vm)
    BY <1>8 DEF DeleteVmMutex, At, db, RowGone, RowGonePoints
  <2>2. ASSUME NEW q \in Request
        PROVE  /\ req'[q].vm = req[q].vm
               /\ req'[q].pc = IF q = r THEN "dPeer" ELSE req[q].pc
               /\ req'[q].stale <=>
                    \/ req[q].stale \/ q = r
                    \/ /\ req[q].vm = req[r].vm
                       /\ req[q].pc \in InstanceHeld \cup {"dLock"}
    BY <1>0, <1>8 DEF DeleteVmMutex, RequestRecord
  <2> HIDE DEF DeletersInv
  <2>3. StaleFits'
    BY <2>1, <2>2 DEF DeletersInv, StaleFits, VmRow, InstanceHeld
  <2>4. RowGone'
    BY <2>1, <2>2 DEF DeletersInv, RowGone, VmRow, RowGonePoints
  <2>5. MutexExclusive'
    <3> SUFFICES ASSUME NEW q \in Request, NEW t \in Request, q # t,
                        req'[q].vm = req'[t].vm,
                        {req'[q].pc, req'[t].pc} \subseteq InstanceHeld
                 PROVE  req'[q].stale \/ req'[t].stale
      BY DEF MutexExclusive
    <3>1. CASE q = r \/ t = r
      BY <2>2, <3>1
    <3>2. CASE q # r /\ t # r
      BY <2>2, <3>2 DEF DeletersInv, MutexExclusive
    <3> QED BY <3>1, <3>2
  <2> QED BY <2>3, <2>4, <2>5 DEF DeletersInv
<1>9. ASSUME NEW r \in Request, Ordinary(r), Work(r) \/ Lock(r),
             ~(AddVm(r) \/ DeleteVm(r))
      PROVE  DeletersInv'
  <2>1. /\ \A q \in Request : q # r => req'[q] = req[q]
        /\ vmSubject' = vmSubject
    BY <1>9, HandlerWrites DEF Ordinary
  <2>2. \/ ~req'[r].stale /\ req'[r].pc \in {"idle", "relock", "dExists"}
        \/ req'[r] = req[r]
        \/ MovesOn(r)
    BY <1>0, <1>9, OrdinaryEnds
  <2>3. req'[r].stale => /\ req[r].stale /\ req'[r].vm = req[r].vm
                         /\ req'[r].pc \in InstanceHeld \cup {"dLock"}
    BY <2>2 DEF StaleFits, MovesOn, OrdinaryMoves, Moves, InstanceHeld
  <2>4. req'[r].pc \in InstanceHeld =>
          /\ req[r].pc \in InstanceHeld /\ req'[r].vm = req[r].vm
          /\ req'[r].stale = req[r].stale
    BY <2>2 DEF MovesOn, OrdinaryMoves, Moves, InstanceHeld
  <2>5. req'[r].pc \in RowGonePoints =>
          /\ req[r].pc \in RowGonePoints /\ req'[r].vm = req[r].vm
          /\ req'[r].stale = req[r].stale
          /\ req'[r].pc # "dForget" => req[r].pc # "dForget"
    BY <2>2 DEF MovesOn, OrdinaryMoves, Moves, RowGonePoints
  <2> HIDE DEF DeletersInv
  <2>6. StaleFits'
    BY <2>1, <2>3 DEF DeletersInv, StaleFits, VmRow
  <2>7. RowGone'
    BY <2>1, <2>5 DEF DeletersInv, RowGone, VmRow
  <2>8. MutexExclusive'
    BY <2>1, <2>4 DEF DeletersInv, MutexExclusive
  <2> QED BY <2>6, <2>7, <2>8 DEF DeletersInv
<1> QED BY <1>0, <1>1, <1>2, <1>3, <1>4, <1>5, <1>6, <1>7, <1>8, <1>9, HandlerStep
        DEF Next

LEMMA DeletersInvariant == Spec => []DeletersInv
<1>1. Init => DeletersInv
  BY DEF Init, DeletersInv, StaleFits, RowGone, MutexExclusive, RowGonePoints,
     InstanceHeld, Idle
<1>2. TypeInv /\ Newborn /\ DeletersInv /\ [Next]_vars => DeletersInv'
  BY DeletersStep
<1> QED BY <1>1, <1>2, TypeInvariant, NewbornInvariant, PTL DEF Spec

(* Two requests in the critical section of one instance find it deleted:    *)
(* one of them holds a mutex the map has forgotten, and it was forgotten    *)
(* after the row had gone.                                                  *)
THEOREM DeletersAreExclusive == Spec => []DeletersExclusive
<1>1. DeletersInv => DeletersExclusive
  BY DEF DeletersInv, StaleFits, MutexExclusive, DeletersExclusive
<1> QED BY <1>1, DeletersInvariant, PTL

(***************************************************************************)
(* 7. What the agents have confirmed before a row goes.                    *)
(***************************************************************************)
Swept ==
    \A r \in Request :
        req[r].pc \in {"dRow", "dDelete"} => domain[req[r].vm] = NoAddress

LEMMA SweptStep ==
  ASSUME TypeInv, Newborn, Swept, [Next]_vars
  PROVE  Swept'
<1>0. /\ req \in [Request -> RequestRecord]
      /\ \A q \in Request : req[q].pc \in CreatePoints \cup DeletePoints => req[q].vm \in Vm
      /\ RequestsOK
      /\ domain \in [Vm -> Nat \X Nat]
  BY DEF TypeInv, TypeOK, RequestOK, RequestRecord
<1>1. CASE Crash
  BY <1>1 DEF Crash, Swept, Idle
<1>2. CASE UNCHANGED vars
  BY <1>2 DEF vars, Swept
<1>3. ASSUME NEW r \in Request, CreateInstance(r) \/ DeleteInstance(r)
      PROVE  Swept'
  <2>1. /\ domain' = domain
        /\ \A q \in Request : q # r => req'[q] = req[q]
        /\ req'[r].pc \in {"cSubject", "dExists"}
    BY <1>0, <1>3 DEF CreateInstance, DeleteInstance, Idle
  <2> QED BY <2>1 DEF Swept
<1>4. ASSUME NEW r \in Request, Work(r) \/ Lock(r)
      PROVE  Swept'
  <2>1. Onward(r)
    BY <1>0, <1>4, WorkOnward
  <2>2. \A q \in Request : req[q].pc \in {"dRow", "dDelete"} => req[q].vm \in Vm
    BY <1>0 DEF DeletePoints
  <2>3. ASSUME NEW q \in Request, req[q].pc \in {"dRow", "dDelete"}
        PROVE  domain'[req[q].vm] = NoAddress
    <3>1. domain[req[q].vm] = NoAddress
      BY <2>3 DEF Swept
    <3>2. CASE AgentCreate(r) \/ (AgentFails(r) /\ At(r, "cAgent"))
      <4>1. req[r].vm # req[q].vm
        BY <2>3, <3>2 DEF Newborn, NewbornPoints, AgentCreate, At
      <4> QED BY <1>0, <2>2, <2>3, <3>1, <3>2, <4>1 DEF AgentCreate, AgentFails, At
    <3>3. CASE AgentsDelete(r) \/ (AgentFails(r) /\ ~At(r, "cAgent"))
      BY <1>0, <2>2, <2>3, <3>1, <3>3 DEF AgentsDelete, AgentFails
    <3>4. CASE domain' = domain
      BY <3>1, <3>4
    <3> QED BY <1>4, <3>2, <3>3, <3>4, HandlerWrites
  <2>4. ASSUME req'[r].pc \in {"dRow", "dDelete"}
        PROVE  domain'[req'[r].vm] = NoAddress
    <3>1. CASE AgentsDelete(r)
      <4>1. req'[r].vm = req[r].vm /\ req[r].vm \in Vm
        BY <1>0, <3>1 DEF AgentsDelete, Goto, At, RequestRecord, DeletePoints
      <4> QED BY <1>0, <3>1, <4>1 DEF AgentsDelete
    <3>2. CASE Ordinary(r) /\ ~AgentsDelete(r)
      <4>1. req'[r] = req[r] \/ MovesOn(r)
        BY <1>0, <2>4, <3>2, OrdinaryEnds
      <4>2. req[r].pc \in {"dRow", "dDelete"} /\ req'[r].vm = req[r].vm
        BY <2>4, <4>1 DEF MovesOn, OrdinaryMoves, Moves
      <4> QED BY <2>3, <4>2
    <3>3. CASE AddVm(r)
      BY <1>0, <2>4, <3>3 DEF AddVm, Goto, At, RequestRecord
    <3>4. CASE LockInstance(r) \/ DeleteVm(r) \/ DeleteVmMutex(r)
      BY <1>0, <2>4, <3>4 DEF LockInstance, DeleteVm, DeleteVmMutex, Goto,
         RequestRecord
    <3> QED BY <1>0, <1>4, <3>1, <3>2, <3>3, <3>4, HandlerStep
  <2> QED BY <2>1, <2>3, <2>4 DEF Swept, Onward
<1> QED BY <1>1, <1>2, <1>3, <1>4 DEF Next

LEMMA SweptInvariant == Spec => []Swept
<1>1. Init => Swept
  BY DEF Init, Swept, Idle
<1>2. TypeInv /\ Newborn /\ Swept /\ [Next]_vars => Swept'
  BY SweptStep
<1> QED BY <1>1, <1>2, TypeInvariant, NewbornInvariant, PTL DEF Spec

(* Whoever removes the row of an instance has had every agent's word that   *)
(* its domain is gone, and no agent has made it again since: only the       *)
(* request that creates an instance sets a domain up, and that one is done. *)
THEOREM RowsRemovedAfterAgents == Spec => RowRemovedAfterAgents
<1>1. TypeInv /\ Swept /\ [Next]_vars
        => [\A v \in Vm : VmRow(v) /\ ~VmRow(v)' => domain[v] = NoAddress]_vars
  <2> SUFFICES ASSUME TypeInv, Swept, [Next]_vars, NEW v \in Vm, VmRow(v), ~VmRow(v)'
               PROVE  domain[v] = NoAddress
    BY DEF VmRow
  <2>1. PICK r \in Request : AddVm(r) \/ DeleteVm(r)
    BY RowWriters DEF VmRow, AddSubject, DeleteSubject
  <2>2. vmSubject \in [Vm -> Subject \cup {None}]
    BY DEF TypeInv, TypeOK
  <2>3. CASE DeleteVm(r)
    BY <2>2, <2>3 DEF DeleteVm, VmRow, Swept, At
  <2>4. CASE AddVm(r)
    <3>1. req[r].subject # None
      BY <2>4 DEF AddVm, At, TypeInv, RequestsOK, RequestOK, CreatePoints
    <3> QED BY <2>2, <2>4, <3>1 DEF AddVm, VmRow
  <2> QED BY <2>1, <2>3, <2>4
<1> QED BY <1>1, TypeInvariant, SweptInvariant, PTL DEF Spec, RowRemovedAfterAgents

(***************************************************************************)
(* 8. The router's mutex, and what the mark of a VLAN stands for.          *)
(***************************************************************************)
RouterExclusive ==
    \A q, r \in Request :
        req[q].pc \in RouterHeld /\ req[r].pc \in RouterHeld => q = r

(* Between ApplyVlanConfig and setVlanAsConfigured nobody takes it down.    *)
Applied == \A r \in Request : req[r].pc = "vcSet" => req[r].vlan \in wireguards

RouterInv == RouterExclusive /\ Applied

LEMMA RollbackGoes ==
  ASSUME RequestsOK, NEW r \in Request, Rollback(r)
  PROVE  req'[r].pc = "dExists"
BY DEF RequestsOK, Rollback, Idle

LEMMA GotoGoes ==
  ASSUME RequestsOK, NEW r \in Request, NEW p, Goto(r, p)
  PROVE  req'[r] = [req[r] EXCEPT !.pc = p] /\ req'[r].pc = p /\ req'[r].vlan = req[r].vlan
BY DEF RequestsOK, Goto, RequestRecord

(* The critical section of the router is entered by two steps and has a     *)
(* third within it.                                                         *)
LEMMA RouterEntered ==
  ASSUME RequestsOK, NEW r \in Request, Work(r) \/ Lock(r),
         req'[r].pc \in RouterHeld
  PROVE  \/ CheckVlanConfigured(r) \/ CheckVlanRemovable(r) \/ ApplyVlanConfig(r)
         \/ req'[r] = req[r]
<1>0. req \in [Request -> RequestRecord]
  BY DEF RequestsOK
<1>1. ASSUME Answer(r) PROVE FALSE
  BY <1>0, <1>1 DEF Answer, Idle, RouterHeld
<1>2. ASSUME Rollback(r) PROVE FALSE
  BY <1>0, <1>2 DEF Rollback, Idle, RouterHeld
<1>3. ASSUME NEW p, Goto(r, p), p \notin RouterHeld PROVE FALSE
  BY <1>0, <1>3 DEF Goto, RequestRecord
<1>4. CASE SubjectExistsById(r) \/ AddSubject(r) \/ AgentCreate(r) \/ AddVm(r)
           \/ LockSource(r) \/ RelockSource(r) \/ LockInstance(r)
           \/ CheckDeletable(r) \/ GetVmMutex(r) \/ AgentsDelete(r) \/ DeleteVm(r)
  BY <1>1, <1>3, <1>4 DEF SubjectExistsById, AddSubject, AgentCreate, AddVm,
     LockSource, RelockSource, LockInstance, CheckDeletable, GetVmMutex,
     AgentsDelete, DeleteVm, RouterHeld
<1>5. CASE GetSubjectVlan(r) \/ GetFirstAvailableVlan(r) \/ GetVlanOwner(r)
           \/ GetFirstAvailableVmVlanIdentifier(r)
  BY <1>0, <1>1, <1>5 DEF GetSubjectVlan, GetFirstAvailableVlan, GetVlanOwner,
     GetFirstAvailableVmVlanIdentifier, RouterHeld, RequestRecord
<1>6. CASE GetVlanByVmId(r) \/ VmIsLastInstanceInSubject(r) \/ ReadSubjectAndIdent(r)
  BY <1>0, <1>1, <1>6 DEF GetVlanByVmId, VmIsLastInstanceInSubject, ReadVmSubject,
     ReadSubjectVlan, ReadSubjectAndIdent, RouterHeld, RequestRecord
<1>7. CASE DeleteVmMutex(r)
  BY <1>0, <1>7 DEF DeleteVmMutex, RequestRecord, RouterHeld
<1>8. CASE SetVlanAsConfigured(r) \/ GetWireguardPublicKey(r) \/ ApplyVmConfig(r)
           \/ RemoveVmConfig(r) \/ RemoveVlanConfig(r) \/ DeleteSubject(r)
  BY <1>1, <1>2, <1>3, <1>8 DEF SetVlanAsConfigured, GetWireguardPublicKey,
     ApplyVmConfig, RemoveVmConfig, PeerHandled, RemoveVlanConfig, DeleteSubject,
     RouterHeld
<1>9. CASE DbFails(r) \/ AgentFails(r) \/ RouterFails(r)
  BY <1>1, <1>2, <1>3, <1>9 DEF DbFails, AgentFails, RouterFails, SweepIncomplete,
     PeerHandled, RouterHeld
<1> QED BY <1>4, <1>5, <1>6, <1>7, <1>8, <1>9 DEF Work, Lock

(* The configurations on the router change only under its mutex.            *)
LEMMA RouterWritten ==
  ASSUME NEW r \in Request, Work(r) \/ Lock(r), wireguards' # wireguards
  PROVE  req[r].pc \in RouterHeld
<1>1. ApplyVlanConfig(r) \/ RemoveVlanConfig(r) \/ DbFails(r) \/ RouterFails(r)
  BY HandlerWrites
<1> QED BY <1>1 DEF ApplyVlanConfig, RemoveVlanConfig, DbFails, RouterFails, At,
           RouterHeld, router

LEMMA RouterStep ==
  ASSUME TypeInv, RouterInv, [Next]_vars
  PROVE  RouterInv'
<1>0. req \in [Request -> RequestRecord] /\ RequestsOK
  BY DEF TypeInv, TypeOK
<1>1. CASE Crash
  BY <1>1 DEF Crash, RouterInv, RouterExclusive, Applied, RouterHeld, Idle
<1>2. CASE UNCHANGED vars
  BY <1>2 DEF vars, router, RouterInv, RouterExclusive, Applied
<1>3. ASSUME NEW r \in Request, CreateInstance(r) \/ DeleteInstance(r)
      PROVE  RouterInv'
  <2>1. /\ wireguards' = wireguards
        /\ \A q \in Request : q # r => req'[q] = req[q]
        /\ req'[r].pc \in {"cSubject", "dExists"}
    BY <1>0, <1>3 DEF CreateInstance, DeleteInstance, Idle, router
  <2> QED BY <2>1 DEF RouterInv, RouterExclusive, Applied, RouterHeld
<1>4. ASSUME NEW r \in Request, DeleteVmMutex(r)
      PROVE  RouterInv'
  <2>1. /\ wireguards' = wireguards
        /\ \A q \in Request : /\ req'[q].pc = IF q = r THEN "dPeer" ELSE req[q].pc
                              /\ req'[q].vlan = req[q].vlan
    BY <1>0, <1>4 DEF DeleteVmMutex, RequestRecord, router
  <2> QED BY <2>1 DEF RouterInv, RouterExclusive, Applied, RouterHeld
<1>5. ASSUME NEW r \in Request, Work(r) \/ Lock(r), ~DeleteVmMutex(r)
      PROVE  RouterInv'
  <2>1. \A q \in Request : q # r => req'[q] = req[q]
    BY <1>0, <1>5, HandlerStep DEF Ordinary, AddVm, LockInstance, AgentsDelete,
       DeleteVm, Goto
  <2>2. RouterExclusive'
    <3>1. CASE req'[r].pc \in RouterHeld
      <4>1. \/ CheckVlanConfigured(r) \/ CheckVlanRemovable(r) \/ ApplyVlanConfig(r)
            \/ req'[r] = req[r]
        BY <1>0, <1>5, <3>1, RouterEntered
      <4>2. RouterFree \/ req[r].pc \in RouterHeld
        BY <3>1, <4>1 DEF CheckVlanConfigured, CheckVlanRemovable, ApplyVlanConfig,
           At, RouterHeld
      <4>3. \A q \in Request : q # r => req[q].pc \notin RouterHeld
        BY <4>2 DEF RouterFree, RouterInv, RouterExclusive
      <4> QED BY <2>1, <4>3 DEF RouterExclusive
    <3>2. CASE req'[r].pc \notin RouterHeld
      BY <2>1, <3>2 DEF RouterInv, RouterExclusive
    <3> QED BY <3>1, <3>2
  <2>3. ASSUME NEW q \in Request, q # r, req[q].pc = "vcSet"
        PROVE  req[q].vlan \in wireguards'
    <3>1. req[r].pc \notin RouterHeld
      BY <2>3 DEF RouterInv, RouterExclusive, RouterHeld
    <3> QED BY <1>5, <2>3, <3>1, RouterWritten DEF RouterInv, Applied
  <2>4. ASSUME req'[r].pc = "vcSet"
        PROVE  req'[r].vlan \in wireguards'
    <3>1. \/ CheckVlanConfigured(r) \/ CheckVlanRemovable(r) \/ ApplyVlanConfig(r)
          \/ req'[r] = req[r]
      BY <1>0, <1>5, <2>4, RouterEntered DEF RouterHeld
    <3>2. CASE CheckVlanConfigured(r) \/ CheckVlanRemovable(r)
      <4>1. \/ Rollback(r)
            \/ \E p \in {"cKey", "vcApply", "vdRemove", "dDelSubject"} : Goto(r, p)
        BY <3>2 DEF CheckVlanConfigured, CheckVlanRemovable
      <4> QED BY <2>4, <4>1, RollbackGoes, GotoGoes, <1>0
    <3>3. CASE ApplyVlanConfig(r)
      <4>1. Goto(r, "vcSet") /\ wireguards' = wireguards \cup {req[r].vlan}
        BY <1>0, <2>4, <3>3, RollbackGoes DEF ApplyVlanConfig
      <4>2. req'[r].vlan = req[r].vlan
        BY <1>0, <4>1, GotoGoes
      <4> QED BY <4>1, <4>2
    <3>4. CASE req'[r] = req[r] /\ ~ApplyVlanConfig(r)
      <4>1. ~(SetVlanAsConfigured(r) \/ (DbFails(r) /\ At(r, "vcSet")))
        <5>1. ~Rollback(r)
          BY <1>0, <2>4, RollbackGoes
        <5>2. ~SetVlanAsConfigured(r)
          BY <1>0, <2>4 DEF SetVlanAsConfigured, Goto, RequestRecord
        <5>3. DbFails(r) /\ req[r].pc = "vcSet" => Rollback(r)
          BY DEF DbFails, At, DbReads
        <5> QED BY <5>1, <5>2, <5>3 DEF At
      <4>2. req[r].pc = "vcSet" /\ req'[r].vlan = req[r].vlan
        BY <2>4, <3>4
      <4>3. wireguards' = wireguards
        <5>1. ~DbFails(r)
          BY <4>1, <4>2 DEF At
        <5>2. ~(RemoveVlanConfig(r) \/ RouterFails(r))
          BY <4>2 DEF RemoveVlanConfig, RouterFails, At
        <5> QED BY <1>5, <3>4, <5>1, <5>2, HandlerWrites
      <4> QED BY <4>2, <4>3 DEF RouterInv, Applied
    <3> QED BY <3>1, <3>2, <3>3, <3>4
  <2>5. Applied'
    BY <2>1, <2>3, <2>4 DEF Applied
  <2> QED BY <2>2, <2>5 DEF RouterInv
<1> QED BY <1>1, <1>2, <1>3, <1>4, <1>5 DEF Next

LEMMA RouterInvariant == Spec => []RouterInv
<1>1. Init => RouterInv
  BY DEF Init, RouterInv, RouterExclusive, Applied, RouterHeld, Idle
<1>2. TypeInv /\ RouterInv /\ [Next]_vars => RouterInv'
  BY RouterStep
<1> QED BY <1>1, <1>2, TypeInvariant, PTL DEF Spec

(* A mark is set by the holder of the router's mutex, who has just put the  *)
(* configuration there; whoever takes a configuration down needs the mutex. *)
THEOREM MarksStandForConfigurations == Spec => ConfiguredOnlyIfApplied
<1>1. TypeInv /\ RouterInv /\ [Next]_vars
        => [\A s \in configured' \ configured : vlanOf[s] \in wireguards]_vars
  <2> SUFFICES ASSUME TypeInv, RouterInv, [Next]_vars,
                      NEW s \in configured' \ configured
               PROVE  vlanOf[s] \in wireguards
    OBVIOUS
  <2>1. PICK r \in Request :
          AddSubject(r) \/ SetVlanAsConfigured(r) \/ DeleteSubject(r)
    BY HandlerWrites DEF Next, CreateInstance, DeleteInstance, Crash, vars, db
  <2>2. SetVlanAsConfigured(r)
    BY <2>1 DEF AddSubject, DeleteSubject
  <2>3. s \in Owners(req[r].vlan) /\ req[r].pc = "vcSet"
    BY <2>2 DEF SetVlanAsConfigured, At
  <2> QED BY <2>3 DEF Owners, RouterInv, Applied
<1> QED BY <1>1, TypeInvariant, RouterInvariant, PTL
        DEF Spec, ConfiguredOnlyIfApplied

(***************************************************************************)
(* 9. Requests that do not overlap.  What a handler has read stays as it   *)
(*    was, whatever calls fail and wherever the service stops.             *)
(***************************************************************************)
OneAtATime ==
    \A q, r \in Request : q # r => req[q].pc = "idle" \/ req[r].pc = "idle"

(* The loop that looks for a free value finds one that is free.             *)
LEMMA FirstFreeIsFree ==
  ASSUME NEW first \in Nat, NEW max \in Nat \ {0}, NEW used,
         used \subseteq first .. first + max - 1
  PROVE  FirstFree(used, first) \notin used
<1> DEFINE Run == {n \in used : first .. n \subseteq used}
           k == Cardinality(Run)
<1>1. IsFiniteSet(Run) /\ k \in Nat
  <2>1. IsFiniteSet(first .. first + max - 1)
    BY FS_Interval
  <2>2. Run \subseteq first .. first + max - 1
    OBVIOUS
  <2> QED BY <2>1, <2>2, FS_Subset, FS_CardinalityType
<1>2. FirstFree(used, first) = first + k
  BY DEF FirstFree
<1> SUFFICES ASSUME first + k \in used PROVE FALSE
  BY <1>2
<1> HIDE DEF k
<1>3. CASE first .. first + k \subseteq used
  <2>1. first .. first + k \subseteq Run
    <3> SUFFICES ASSUME NEW n \in first .. first + k PROVE n \in Run
      OBVIOUS
    <3>1. first .. n \subseteq first .. first + k
      BY <1>1
    <3> QED BY <1>3, <3>1
  <2>2. Cardinality(first .. first + k) = k + 1
    BY <1>1, FS_Interval
  <2>3. Cardinality(first .. first + k) <= k
    BY <1>1, <2>1, FS_Subset DEF k
  <2> QED BY <1>1, <2>2, <2>3
<1>4. ASSUME NEW j \in first .. first + k, j \notin used
      PROVE  FALSE
  <2>1. j \in Nat /\ first <= j /\ j < first + k
    BY <1>1, <1>4
  <2>2. Run \subseteq first .. j - 1
    <3> SUFFICES ASSUME NEW n \in Run PROVE n \in first .. j - 1
      OBVIOUS
    <3>1. n \in first .. first + max - 1 /\ first .. n \subseteq used
      OBVIOUS
    <3>2. n \in Int /\ first <= n
      BY <3>1
    <3>3. ~(j <= n)
      BY <1>4, <2>1, <3>1, <3>2
    <3> QED BY <2>1, <3>2, <3>3
  <2>3. IsFiniteSet(first .. j - 1) /\ Cardinality(first .. j - 1) = j - first
    <3>1. j - 1 \in Int /\ first \in Int
      BY <2>1
    <3>2. /\ IsFiniteSet(first .. j - 1)
          /\ Cardinality(first .. j - 1)
                = IF first > j - 1 THEN 0 ELSE (j - 1) - first + 1
      BY <3>1, FS_Interval
    <3> QED BY <2>1, <3>2
  <2>4. k <= j - first
    BY <2>2, <2>3, FS_Subset DEF k
  <2> QED BY <1>1, <2>1, <2>4
<1> QED BY <1>3, <1>4

(* A subject has as many instances as identifiers in use, a finite number:  *)
(* counting them to one finds the only one.                                 *)
LEMMA LastIsOnly ==
  ASSUME TypeInv, RowsInv, NEW v \in Vm, VmRow(v)
  PROVE  IsLast(vmSubject[v]) <=> VmsOf(vmSubject[v]) = {v}
<1> DEFINE S == VmsOf(vmSubject[v])
           f == [w \in S |-> vmIdent[w]]
<1>1. \A w \in S : w \in Vm /\ VmRow(w) /\ vmSubject[w] = vmSubject[v]
                   /\ vmIdent[w] \in Ident
  BY DEF VmsOf, VmRow, RowsInv, IdentsSet, TypeInv, ColumnsInRange
<1>2. f \in Injection(S, Ident)
  <2>1. f \in [S -> Ident]
    BY <1>1
  <2>2. \A w, u \in S : f[w] = f[u] => w = u
    BY <1>1 DEF RowsInv, UniqueIdents
  <2> QED BY <2>1, <2>2 DEF Injection, IsInjective
<1>3. IsFiniteSet(Ident)
  BY BoundsAssumption, FS_Interval DEF Ident
<1>4. IsFiniteSet(S)
  BY <1>2, <1>3, FS_Injection
<1>5. v \in S
  BY DEF VmsOf
<1>6. Cardinality(S) = 1 <=> \E x : S = {x}
  BY <1>4, FS_Singleton
<1> QED BY <1>5, <1>6 DEF IsLast

(* Where a create works with its subject's VLAN, and where with its row;    *)
(* where a delete works with the row.                                       *)
OwnVlanPoints == {"cOwner", "cIdent", "cLock", "cAgent", "cAddVm"}
OwnRowPoints == {"cRow", "cVlan", "vcCheck", "vcApply", "vcSet", "cKey", "cPeer"}
RowReadPoints == {"dVlan", "dLastSubject", "dLastCount", "dMutex", "dLock",
                  "dAgents", "dRow", "dDelete"}

(* What a create has read of the tables is still so.                        *)
SubjectRead(q) ==
    /\ q.pc = "cFreeVlan" => ~SubjectRow(q.subject)
    /\ q.pc = "cSubjectVlan" => SubjectRow(q.subject)
    /\ q.pc = "cAddSubject" => CanAddSubject(q.subject, q.configVlan)
    /\ q.pc \in OwnVlanPoints \cup OwnRowPoints =>
          SubjectRow(q.subject) /\ vlanOf[q.subject] = q.configVlan
    /\ q.pc = "cIdent" => q.owner = q.subject
    /\ q.pc \in {"cLock", "cAgent", "cAddVm"} => CanAddVm(q.subject, q.ident)

(* What it has written is there, and its VLAN is marked when it goes on.    *)
RowWritten(q) ==
    /\ q.pc \in OwnRowPoints => vmSubject[q.vm] = q.subject /\ vmIdent[q.vm] = q.ident
    /\ q.pc \in {"cAddVm"} \cup OwnRowPoints => domain[q.vm] = <<q.configVlan, q.ident>>
    /\ q.pc \in {"vcCheck", "vcApply", "vcSet", "cKey", "cPeer"} => q.vlan = q.configVlan
    /\ q.pc \in {"vcApply", "vcSet"} => q.subject \notin configured
    /\ q.pc \in {"cKey", "cPeer"} => q.subject \in configured

(* What a delete has read of the row is still so, up to DeleteVm ...        *)
RowRead(q) ==
    /\ q.pc \in {"dExists", "dSubject"} => VmRow(q.vm)
    /\ q.pc \in RowReadPoints => vmSubject[q.vm] = q.subject
    /\ q.pc \in RowReadPoints \ {"dVlan"} => q.vlan = vlanOf[q.subject]
    /\ q.pc \in {"dMutex", "dLock", "dAgents", "dRow", "dDelete"} =>
          (q.last <=> VmsOf(q.subject) = {q.vm})
    /\ q.pc = "dDelete" => q.ident = vmIdent[q.vm]

(* ... and after it nobody has the address that was the row's.              *)
RowDeleted(q) ==
    /\ q.pc \in RowGonePoints => SubjectRow(q.subject) /\ q.vlan = vlanOf[q.subject]
    /\ q.pc \in {"dForget", "dPeer"} =>
          /\ \A v \in VmsOf(q.subject) : vmIdent[v] # q.ident
          /\ q.last <=> VmsOf(q.subject) = {}
    /\ q.pc \in {"vdCheck", "vdRemove", "dDelSubject"} => VmsOf(q.subject) = {}

ReadsOK(q) == SubjectRead(q) /\ RowWritten(q) /\ RowRead(q) /\ RowDeleted(q)

ReadsHold == \A r \in Request : ReadsOK(req[r])

(* Under way, a request is not idle; so the others are, before and after.   *)
LEMMA UnderWay ==
  ASSUME NEW r \in Request, Work(r) \/ Lock(r)
  PROVE  req[r].pc # "idle"
<1> USE DEF At
<1>1. CASE Lock(r)
  BY <1>1 DEF Lock, LockSource, RelockSource, LockInstance, CheckVlanConfigured,
     CheckVlanRemovable
<1>2. CASE SubjectExistsById(r) \/ GetSubjectVlan(r) \/ GetFirstAvailableVlan(r)
           \/ AddSubject(r) \/ GetVlanOwner(r)
           \/ GetFirstAvailableVmVlanIdentifier(r)
           \/ AgentCreate(r) \/ AddVm(r) \/ GetVlanByVmId(r)
  BY <1>2 DEF SubjectExistsById, GetSubjectVlan, GetFirstAvailableVlan, AddSubject,
     GetVlanOwner, GetFirstAvailableVmVlanIdentifier, AgentCreate, AddVm,
     GetVlanByVmId
<1>3. CASE ApplyVlanConfig(r) \/ SetVlanAsConfigured(r) \/ GetWireguardPublicKey(r)
           \/ ApplyVmConfig(r) \/ CheckDeletable(r)
           \/ VmIsLastInstanceInSubject(r) \/ GetVmMutex(r) \/ AgentsDelete(r)
           \/ ReadSubjectAndIdent(r)
  BY <1>3 DEF ApplyVlanConfig, SetVlanAsConfigured, GetWireguardPublicKey,
     ApplyVmConfig, CheckDeletable, VmIsLastInstanceInSubject, GetVmMutex,
     AgentsDelete, ReadSubjectAndIdent
<1>4. CASE DeleteVm(r) \/ DeleteVmMutex(r) \/ RemoveVmConfig(r) \/ RemoveVlanConfig(r)
           \/ DeleteSubject(r)
  BY <1>4 DEF DeleteVm, DeleteVmMutex, RemoveVmConfig, RemoveVlanConfig, DeleteSubject
<1>5. CASE DbFails(r) \/ AgentFails(r) \/ RouterFails(r)
  BY <1>5 DEF DbFails, AgentFails, RouterFails, DbReads
<1> QED BY <1>1, <1>2, <1>3, <1>4, <1>5 DEF Work

LEMMA Alone ==
  ASSUME RequestsOK, OneAtATime, NEW r \in Request, Work(r) \/ Lock(r)
  PROVE  \A q \in Request : q # r => req[q].pc = "idle" /\ req'[q].pc = "idle"
BY UnderWay, WorkOnward DEF OneAtATime, Onward, RequestsOK

(* Ends of a handler have nothing left to be sure of.                       *)
LEMMA ReadsAnswer ==
  ASSUME RequestsOK, NEW r \in Request, Answer(r)
  PROVE  ReadsOK(req[r])'
<1>1. req'[r].pc \in {"idle", "relock"}
  BY DEF RequestsOK, Answer, Idle
<1> QED BY <1>1 DEF ReadsOK, SubjectRead, RowWritten, RowRead, RowDeleted,
           OwnVlanPoints, OwnRowPoints, RowReadPoints, RowGonePoints

(* Undoing a create starts from the row it added.                           *)
LEMMA ReadsRollback ==
  ASSUME TypeInv, NEW r \in Request, ReadsOK(req[r]), req[r].pc \in OwnRowPoints,
         Rollback(r), UNCHANGED vmSubject
  PROVE  ReadsOK(req[r])'
<1>1. req'[r].pc = "dExists" /\ req'[r].vm = req[r].vm
  BY DEF TypeInv, RequestsOK, Rollback, Idle
<1>2. req[r].subject # None
  BY DEF TypeInv, RequestsOK, RequestOK, OwnRowPoints, CreatePoints
<1>3. VmRow(req[r].vm)
  BY <1>2 DEF ReadsOK, RowWritten, VmRow
<1>4. VmRow(req[r].vm)'
  BY <1>1, <1>3 DEF VmRow
<1> QED BY <1>1, <1>4 DEF ReadsOK, SubjectRead, RowWritten, RowRead, RowDeleted,
           OwnVlanPoints, OwnRowPoints, RowReadPoints, RowGonePoints

(* A step that only moves on, to a point that asks for no more.             *)
LEMMA ReadsGoto ==
  ASSUME TypeInv, NEW r \in Request, ReadsOK(req[r]), NEW p, Goto(r, p),
         <<req[r].pc, p>> \in Moves,
         UNCHANGED <<vlanOf, vmSubject, vmIdent>>,
         UNCHANGED <<configured, domain>>,
         p \notin {"cSubjectVlan", "cFreeVlan", "cOwner", "cAddVm", "cKey", "cRow",
                   "vcApply", "vcCheck", "dForget", "vdCheck"}
  PROVE  ReadsOK(req[r])'
<1>1. req'[r] = [req[r] EXCEPT !.pc = p] /\ req[r] \in RequestRecord
  BY DEF Goto, TypeInv, RequestsOK
<1>2. /\ req'[r].pc = p
      /\ req'[r].vm = req[r].vm /\ req'[r].subject = req[r].subject
      /\ req'[r].owner = req[r].owner /\ req'[r].vlan = req[r].vlan
      /\ req'[r].ident = req[r].ident /\ req'[r].configVlan = req[r].configVlan
      /\ req'[r].last = req[r].last
  BY <1>1 DEF RequestRecord
<1> USE DEF ReadsOK, OwnVlanPoints, OwnRowPoints, RowReadPoints, RowGonePoints, Moves
<1>3. SubjectRead(req[r])'
  BY <1>2 DEF SubjectRead, SubjectRow, CanAddSubject, CanAddVm, Owners, VmsOf
<1>4. RowWritten(req[r])'
  BY <1>2 DEF RowWritten
<1>5. RowRead(req[r])'
  BY <1>2 DEF RowRead, VmRow, VmsOf
<1>6. RowDeleted(req[r])'
  BY <1>2 DEF RowDeleted, SubjectRow, VmsOf
<1> QED BY <1>3, <1>4, <1>5, <1>6

(* The steps of a create, up to its row.                                    *)
LEMMA ReadsBeforeLock ==
  ASSUME TypeInv, RowsInv, NEW r \in Request, ReadsOK(req[r]),
         \/ SubjectExistsById(r) \/ GetSubjectVlan(r) \/ GetFirstAvailableVlan(r)
         \/ AddSubject(r) \/ GetVlanOwner(r)
         \/ GetFirstAvailableVmVlanIdentifier(r) \/ LockSource(r)
  PROVE  ReadsOK(req[r])'
<1> USE DEF At
<1>0. /\ req[r] \in RequestRecord /\ req \in [Request -> RequestRecord] /\ RequestsOK
      /\ vlanOf \in [Subject -> Nat]
      /\ req[r].pc \in CreatePoints => req[r].subject \in Subject
  BY DEF TypeInv, TypeOK, RequestsOK, RequestOK, RequestRecord
<1> DEFINE s == req[r].subject
           Same == /\ req'[r].vm = req[r].vm /\ req'[r].subject = req[r].subject
                   /\ UNCHANGED <<vlanOf, vmSubject, vmIdent>>
<1> USE DEF OwnVlanPoints, OwnRowPoints, RowReadPoints, RowGonePoints
<1>1. CASE SubjectExistsById(r)
  <2>1. /\ req'[r].pc = IF SubjectRow(s) THEN "cSubjectVlan" ELSE "cFreeVlan"
        /\ req'[r].subject = s /\ vlanOf' = vlanOf
    BY <1>0, <1>1 DEF SubjectExistsById, Goto, RequestRecord, db
  <2> QED BY <2>1 DEF ReadsOK, SubjectRead, RowWritten, RowRead, RowDeleted, SubjectRow
<1>2. CASE GetSubjectVlan(r)
  <2>1. CASE SubjectRow(s)
    <3>1. /\ req'[r].pc = "cOwner" /\ req'[r].configVlan = vlanOf[s]
          /\ req'[r].subject = s /\ vlanOf' = vlanOf
      BY <1>0, <1>2, <2>1 DEF GetSubjectVlan, RequestRecord, db
    <3> QED BY <2>1, <3>1 DEF ReadsOK, SubjectRead, RowWritten, RowRead, RowDeleted,
               SubjectRow
  <2>2. CASE ~SubjectRow(s)
    BY <1>0, <1>2, <2>2, ReadsAnswer DEF GetSubjectVlan
  <2> QED BY <2>1, <2>2
<1>3. CASE GetFirstAvailableVlan(r)
  <2>1. CASE Cardinality(UsedVlans) # MAX_VLANS
    <3> DEFINE vlan == FirstFree(UsedVlans, FIRST_VLAN)
    <3>1. /\ req'[r].pc = "cAddSubject" /\ req'[r].configVlan = vlan
          /\ req'[r].subject = s /\ vlanOf' = vlanOf
      BY <1>0, <1>3, <2>1 DEF GetFirstAvailableVlan, RequestRecord, db
    <3>2. UsedVlans \subseteq FIRST_VLAN .. FIRST_VLAN + MAX_VLANS - 1
      BY DEF UsedVlans, SubjectRow, TypeInv, ColumnsInRange, Vlan
    <3>3. vlan \notin UsedVlans
      BY <3>2, FirstFreeIsFree, BoundsAssumption
    <3>4. vlan \in Vlan
      BY <2>1, <3>2, FirstFreeInRange, BoundsAssumption DEF Vlan
    <3>5. vlan # NoVlan
      BY <3>4, BoundsAssumption DEF Vlan, NoVlan
    <3>6. Owners(vlan) = {}
      BY <3>3, <3>5 DEF Owners, UsedVlans, SubjectRow
    <3>7. ~SubjectRow(s)
      BY <1>3 DEF GetFirstAvailableVlan, ReadsOK, SubjectRead
    <3> HIDE DEF vlan
    <3>8. CanAddSubject(req[r].subject, req[r].configVlan)'
      BY <3>1, <3>6, <3>7 DEF CanAddSubject, Owners, SubjectRow
    <3> QED BY <3>1, <3>8 DEF ReadsOK, SubjectRead, RowWritten, RowRead, RowDeleted
  <2>2. CASE Cardinality(UsedVlans) = MAX_VLANS
    BY <1>0, <1>3, <2>2, ReadsAnswer DEF GetFirstAvailableVlan
  <2> QED BY <2>1, <2>2
<1>4. CASE AddSubject(r)
  <2>1. CanAddSubject(s, req[r].configVlan)
    BY <1>4 DEF AddSubject, ReadsOK, SubjectRead
  <2>2. /\ req'[r].pc = "cOwner" /\ req'[r].configVlan = req[r].configVlan
        /\ req'[r].subject = s
        /\ vlanOf' = [vlanOf EXCEPT ![s] = req[r].configVlan]
    BY <1>0, <1>4, <2>1 DEF AddSubject, Goto, RequestRecord
  <2>3. s \in Subject /\ req[r].configVlan # NoVlan
    BY <1>0, <1>4 DEF AddSubject, CreatePoints, TypeInv, RequestsOK, RequestOK
  <2>4. vlanOf'[s] = req[r].configVlan
    BY <1>0, <2>2, <2>3
  <2> QED BY <2>2, <2>3, <2>4 DEF ReadsOK, SubjectRead, RowWritten, RowRead, RowDeleted,
             SubjectRow
<1>5. CASE GetVlanOwner(r)
  <2>1. s \in Subject /\ SubjectRow(s) /\ vlanOf[s] = req[r].configVlan
    BY <1>0, <1>5 DEF GetVlanOwner, ReadsOK, SubjectRead, CreatePoints
  <2>2. Owners(req[r].configVlan) = {s}
    BY <2>1 DEF Owners, RowsInv, UniqueVlans
  <2>3. req' = [req EXCEPT ![r].pc = "cIdent", ![r].owner = s]
    BY <1>5, <2>2 DEF GetVlanOwner
  <2>4. /\ req'[r].pc = "cIdent" /\ req'[r].configVlan = req[r].configVlan
        /\ req'[r].subject = s /\ req'[r].owner = s
        /\ vlanOf' = vlanOf
    BY <1>0, <1>5, <2>3 DEF GetVlanOwner, RequestRecord, db
  <2> QED BY <2>1, <2>4 DEF ReadsOK, SubjectRead, RowWritten, RowRead, RowDeleted,
             SubjectRow
<1>6. CASE GetFirstAvailableVmVlanIdentifier(r)
  <2>1. s \in Subject /\ SubjectRow(s) /\ vlanOf[s] = req[r].configVlan
        /\ req[r].owner = s
    BY <1>0, <1>6 DEF GetFirstAvailableVmVlanIdentifier, ReadsOK, SubjectRead, CreatePoints
  <2>2. CASE Cardinality(UsedIdents(s)) # MAX_VMS_PER_VLAN
    <3> DEFINE ident == FirstFree(UsedIdents(s), 1)
    <3>1. /\ req'[r].pc = "cLock" /\ req'[r].configVlan = req[r].configVlan
          /\ req'[r].subject = s /\ req'[r].ident = ident
          /\ UNCHANGED <<vlanOf, vmSubject, vmIdent>>
      BY <1>0, <1>6, <2>1, <2>2 DEF GetFirstAvailableVmVlanIdentifier, RequestRecord, db
    <3>2. UsedIdents(s) \subseteq 1 .. 1 + MAX_VMS_PER_VLAN - 1
      <4>1. \A v \in VmsOf(s) : vmIdent[v] \in Ident
        BY <2>1, NoneAssumption DEF VmsOf, VmRow, RowsInv, IdentsSet, TypeInv,
           ColumnsInRange
      <4> QED BY <4>1, BoundsAssumption DEF UsedIdents, Ident
    <3>3. ident \notin UsedIdents(s)
      BY <3>2, FirstFreeIsFree, BoundsAssumption
    <3> HIDE DEF ident
    <3>4. CanAddVm(req[r].subject, req[r].ident)'
      BY <2>1, <3>1, <3>3 DEF CanAddVm, UsedIdents, VmsOf, SubjectRow
    <3> QED BY <2>1, <3>1, <3>4 DEF ReadsOK, SubjectRead, RowWritten, RowRead,
               RowDeleted, SubjectRow
  <2>3. CASE Cardinality(UsedIdents(s)) = MAX_VMS_PER_VLAN
    BY <1>0, <1>6, <2>1, <2>3, ReadsAnswer DEF GetFirstAvailableVmVlanIdentifier
  <2> QED BY <2>2, <2>3
<1>7. CASE LockSource(r)
  BY <1>7, ReadsGoto DEF LockSource, Moves, db
<1> QED BY <1>1, <1>2, <1>3, <1>4, <1>5, <1>6, <1>7

(* From the agent to the row.                                               *)
LEMMA ReadsRow ==
  ASSUME TypeInv, RowsInv, NEW r \in Request, ReadsOK(req[r]),
         AgentCreate(r) \/ AddVm(r) \/ (GetVlanByVmId(r) /\ req[r].pc \in CreatePoints)
  PROVE  ReadsOK(req[r])'
<1> USE DEF At
<1>0. /\ req[r] \in RequestRecord /\ req \in [Request -> RequestRecord] /\ RequestsOK
      /\ vlanOf \in [Subject -> Nat]
      /\ vmSubject \in [Vm -> Subject \cup {None}]
      /\ vmIdent \in [Vm -> Nat]
      /\ domain \in [Vm -> Nat \X Nat]
      /\ req[r].pc \in CreatePoints => req[r].subject \in Subject /\ req[r].vm \in Vm
  BY DEF TypeInv, TypeOK, RequestsOK, RequestOK, RequestRecord
<1> DEFINE s == req[r].subject  v == req[r].vm
<1> USE DEF OwnVlanPoints, OwnRowPoints, RowReadPoints, RowGonePoints
<1>1. CASE AgentCreate(r)
  <2>1. /\ req'[r].pc = "cAddVm" /\ req'[r].configVlan = req[r].configVlan
        /\ req'[r].subject = s /\ req'[r].ident = req[r].ident /\ req'[r].vm = v
        /\ UNCHANGED <<vlanOf, vmSubject, vmIdent>>
        /\ domain'[v] = <<req[r].configVlan, req[r].ident>>
    BY <1>0, <1>1 DEF AgentCreate, Goto, RequestRecord, db, CreatePoints
  <2>2. CanAddVm(s, req[r].ident) /\ SubjectRow(s) /\ vlanOf[s] = req[r].configVlan
    BY <1>1 DEF AgentCreate, ReadsOK, SubjectRead
  <2> QED BY <2>1, <2>2 DEF ReadsOK, SubjectRead, RowWritten, RowRead, RowDeleted,
             SubjectRow, CanAddVm, VmsOf
<1>2. CASE AddVm(r)
  <2>1. CanAddVm(s, req[r].ident) /\ SubjectRow(s) /\ vlanOf[s] = req[r].configVlan
        /\ domain[v] = <<req[r].configVlan, req[r].ident>>
    BY <1>2 DEF AddVm, ReadsOK, SubjectRead, RowWritten
  <2>2. /\ req'[r].pc = "cRow" /\ req'[r].configVlan = req[r].configVlan
        /\ req'[r].subject = s /\ req'[r].ident = req[r].ident /\ req'[r].vm = v
        /\ vlanOf' = vlanOf /\ domain' = domain
        /\ vmSubject'[v] = s /\ vmIdent'[v] = req[r].ident
    BY <1>0, <1>2, <2>1 DEF AddVm, Goto, RequestRecord, CreatePoints
  <2> QED BY <2>1, <2>2 DEF ReadsOK, SubjectRead, RowWritten, RowRead, RowDeleted,
             SubjectRow
<1>3. CASE GetVlanByVmId(r) /\ req[r].pc \in CreatePoints
  <2>1. /\ req[r].pc \in {"cRow", "cVlan"}
        /\ UNCHANGED <<vlanOf, vmSubject, vmIdent, configured, domain>>
    BY <1>3 DEF GetVlanByVmId, CreatePoints, db
  <2>2. /\ SubjectRow(s) /\ vlanOf[s] = req[r].configVlan
        /\ domain[v] = <<req[r].configVlan, req[r].ident>>
        /\ vmSubject[v] = s /\ vmIdent[v] = req[r].ident
    BY <2>1 DEF ReadsOK, SubjectRead, RowWritten
  <2>3. VmRow(v)
    BY <1>0, <2>1, <2>2, NoneAssumption DEF VmRow, CreatePoints
  <2>4. /\ req'[r].pc \in {"cVlan", "vcCheck"}
        /\ req'[r].configVlan = req[r].configVlan
        /\ req'[r].subject = s /\ req'[r].ident = req[r].ident /\ req'[r].vm = v
        /\ req'[r].pc = "vcCheck" => req'[r].vlan = vlanOf[s]
    BY <1>0, <1>3, <2>1, <2>2, <2>3 DEF GetVlanByVmId, ReadVmSubject, ReadSubjectVlan,
       RequestRecord
  <2> QED BY <2>1, <2>2, <2>4 DEF ReadsOK, SubjectRead, RowWritten, RowRead,
             RowDeleted, SubjectRow
<1> QED BY <1>1, <1>2, <1>3

(* The VLAN's configuration and the peer.                                   *)
LEMMA ReadsConfigure ==
  ASSUME TypeInv, RowsInv, NEW r \in Request, ReadsOK(req[r]),
         \/ CheckVlanConfigured(r) \/ ApplyVlanConfig(r) \/ SetVlanAsConfigured(r)
         \/ GetWireguardPublicKey(r) \/ ApplyVmConfig(r) \/ RelockSource(r)
  PROVE  ReadsOK(req[r])'
<1> USE DEF At
<1>0. /\ req[r] \in RequestRecord /\ req \in [Request -> RequestRecord] /\ RequestsOK
      /\ req[r].pc \in CreatePoints => req[r].subject \in Subject
  BY DEF TypeInv, TypeOK, RequestsOK, RequestOK, RequestRecord
<1> DEFINE s == req[r].subject  v == req[r].vm
           Moved(p) == /\ req'[r].pc = p /\ req'[r].configVlan = req[r].configVlan
                       /\ req'[r].subject = s /\ req'[r].ident = req[r].ident
                       /\ req'[r].vm = v /\ req'[r].vlan = req[r].vlan
                       /\ UNCHANGED <<vlanOf, vmSubject, vmIdent, domain>>
<1> USE DEF OwnVlanPoints, OwnRowPoints, RowReadPoints, RowGonePoints
<1>1. ASSUME NEW p, Goto(r, p), UNCHANGED <<vlanOf, vmSubject, vmIdent, domain>>
      PROVE  Moved(p)
  BY <1>0, <1>1 DEF Goto, RequestRecord
<1>2. CASE /\ Rollback(r)
           /\ \/ CheckVlanConfigured(r) \/ ApplyVlanConfig(r)
              \/ GetWireguardPublicKey(r) \/ ApplyVmConfig(r)
  <2>1. req[r].pc \in OwnRowPoints /\ UNCHANGED vmSubject
    BY <1>2 DEF CheckVlanConfigured, ApplyVlanConfig, GetWireguardPublicKey,
       ApplyVmConfig, db
  <2> QED BY <1>2, <2>1, ReadsRollback
<1>3. CASE CheckVlanConfigured(r) /\ ~Rollback(r)
  <2>1. /\ SubjectRow(s) /\ vlanOf[s] = req[r].configVlan /\ s \in Subject
        /\ domain[v] = <<req[r].configVlan, req[r].ident>>
        /\ vmSubject[v] = s /\ vmIdent[v] = req[r].ident
        /\ req[r].vlan = req[r].configVlan
    BY <1>0, <1>3 DEF CheckVlanConfigured, ReadsOK, SubjectRead, RowWritten, CreatePoints
  <2>2. Owners(req[r].vlan) = {s}
    BY <2>1 DEF Owners, RowsInv, UniqueVlans
  <2>3. /\ Goto(r, IF s \in configured THEN "cKey" ELSE "vcApply")
        /\ UNCHANGED <<vlanOf, vmSubject, vmIdent, domain>> /\ configured' = configured
    BY <1>3, <2>2 DEF CheckVlanConfigured, db
  <2>4. Moved(IF s \in configured THEN "cKey" ELSE "vcApply")
    BY <1>1, <2>3
  <2> QED BY <2>1, <2>3, <2>4 DEF ReadsOK, SubjectRead, RowWritten, RowRead,
             RowDeleted, SubjectRow
<1>4. CASE ApplyVlanConfig(r) /\ ~Rollback(r)
  BY <1>4, ReadsGoto DEF ApplyVlanConfig, Moves, db
<1>5. CASE SetVlanAsConfigured(r)
  <2>1. /\ SubjectRow(s) /\ vlanOf[s] = req[r].configVlan /\ s \in Subject
        /\ domain[v] = <<req[r].configVlan, req[r].ident>>
        /\ vmSubject[v] = s /\ vmIdent[v] = req[r].ident
        /\ req[r].vlan = req[r].configVlan
    BY <1>0, <1>5 DEF SetVlanAsConfigured, ReadsOK, SubjectRead, RowWritten, CreatePoints
  <2>2. s \in configured'
    BY <1>5, <2>1 DEF SetVlanAsConfigured, Owners
  <2>3. Moved("cKey")
    BY <1>1, <1>5 DEF SetVlanAsConfigured
  <2> QED BY <2>1, <2>2, <2>3 DEF ReadsOK, SubjectRead, RowWritten, RowRead,
             RowDeleted, SubjectRow
<1>6. CASE GetWireguardPublicKey(r) /\ ~Rollback(r)
  BY <1>6, ReadsGoto DEF GetWireguardPublicKey, Moves, db
<1>7. CASE ApplyVmConfig(r) /\ ~Rollback(r)
  BY <1>0, <1>7, ReadsAnswer DEF ApplyVmConfig
<1>8. CASE RelockSource(r)
  BY <1>0, <1>8, ReadsAnswer DEF RelockSource
<1> QED BY <1>2, <1>3, <1>4, <1>5, <1>6, <1>7, <1>8

(* A delete, up to the critical section ...                                 *)
LEMMA ReadsBeforeDelete ==
  ASSUME TypeInv, RowsInv, NEW r \in Request, ReadsOK(req[r]),
         \/ CheckDeletable(r) \/ (GetVlanByVmId(r) /\ req[r].pc \in DeletePoints)
         \/ VmIsLastInstanceInSubject(r) \/ GetVmMutex(r) \/ LockInstance(r)
         \/ AgentsDelete(r) \/ ReadSubjectAndIdent(r)
  PROVE  ReadsOK(req[r])'
<1> USE DEF At
<1>0. /\ req[r] \in RequestRecord /\ req \in [Request -> RequestRecord] /\ RequestsOK
      /\ vmSubject \in [Vm -> Subject \cup {None}]
      /\ req[r].pc \in DeletePoints => req[r].vm \in Vm
      /\ req[r].pc \in RowReadPoints => req[r].subject \in Subject
  BY DEF TypeInv, TypeOK, RequestsOK, RequestOK, RequestRecord, RowReadPoints,
     InstanceHeld
<1> DEFINE s == req[r].subject  v == req[r].vm
<1> USE DEF OwnVlanPoints, OwnRowPoints, RowReadPoints, RowGonePoints
<1>1. CASE CheckDeletable(r)
  <2>1. CASE Answer(r)
    BY <1>0, <2>1, ReadsAnswer
  <2>2. CASE VmRow(v) /\ Goto(r, "dSubject")
    <3>1. req'[r].pc = "dSubject" /\ req'[r].vm = v /\ vmSubject' = vmSubject
      BY <1>0, <1>1, <2>2 DEF CheckDeletable, Goto, RequestRecord, db
    <3> QED BY <2>2, <3>1 DEF ReadsOK, SubjectRead, RowWritten, RowRead, RowDeleted,
               VmRow
  <2> QED BY <1>1, <2>1, <2>2 DEF CheckDeletable
<1>2. CASE GetVlanByVmId(r) /\ req[r].pc = "dSubject"
  <2>1. VmRow(v)
    BY <1>2 DEF ReadsOK, RowRead
  <2>2. /\ req'[r].pc = "dVlan" /\ req'[r].subject = vmSubject[v]
        /\ req'[r].vm = v /\ vmSubject' = vmSubject
    BY <1>0, <1>2, <2>1 DEF GetVlanByVmId, ReadVmSubject, RequestRecord, db
  <2> QED BY <2>1, <2>2 DEF ReadsOK, SubjectRead, RowWritten, RowRead, RowDeleted
<1>3. CASE GetVlanByVmId(r) /\ req[r].pc = "dVlan"
  <2>1. vmSubject[v] = s
    BY <1>3 DEF ReadsOK, RowRead
  <2>2. SubjectRow(s)
    BY <1>0, <1>3, <2>1, NoneAssumption DEF DeletePoints, RowsInv, ForeignKey, VmRow
  <2>3. /\ req'[r].pc = "dLastSubject" /\ req'[r].subject = s
        /\ req'[r].vlan = vlanOf[s]
        /\ req'[r].vm = v /\ vmSubject' = vmSubject /\ vlanOf' = vlanOf
    BY <1>0, <1>3, <2>2 DEF GetVlanByVmId, ReadSubjectVlan, RequestRecord, db
  <2> QED BY <2>1, <2>3 DEF ReadsOK, SubjectRead, RowWritten, RowRead, RowDeleted
<1>4. CASE VmIsLastInstanceInSubject(r) /\ req[r].pc = "dLastSubject"
  <2>1. vmSubject[v] = s /\ req[r].vlan = vlanOf[s]
    BY <1>4 DEF ReadsOK, RowRead
  <2>2. VmRow(v)
    BY <1>0, <1>4, <2>1, NoneAssumption DEF DeletePoints, VmRow
  <2>3. /\ req'[r].pc = "dLastCount" /\ req'[r].subject = s
        /\ req'[r].vlan = req[r].vlan
        /\ req'[r].vm = v /\ vmSubject' = vmSubject /\ vlanOf' = vlanOf
    BY <1>0, <1>4, <2>1, <2>2 DEF VmIsLastInstanceInSubject, ReadVmSubject,
       RequestRecord, db
  <2> QED BY <2>1, <2>3 DEF ReadsOK, SubjectRead, RowWritten, RowRead, RowDeleted
<1>5. CASE VmIsLastInstanceInSubject(r) /\ req[r].pc = "dLastCount"
  <2>1. vmSubject[v] = s /\ req[r].vlan = vlanOf[s]
    BY <1>5 DEF ReadsOK, RowRead
  <2>2. VmRow(v) /\ v \in Vm
    BY <1>0, <1>5, <2>1, NoneAssumption DEF DeletePoints, VmRow
  <2>3. /\ req'[r].pc = "dMutex" /\ req'[r].subject = s
        /\ req'[r].vlan = req[r].vlan /\ req'[r].last = IsLast(s)
        /\ req'[r].vm = v /\ vmSubject' = vmSubject /\ vlanOf' = vlanOf
    BY <1>0, <1>5 DEF VmIsLastInstanceInSubject, RequestRecord, db
  <2>4. IsLast(s) <=> VmsOf(s) = {v}
    BY <2>1, <2>2, LastIsOnly
  <2>5. req'[r].last <=> VmsOf(s)' = {v}
    BY <2>3, <2>4 DEF VmsOf
  <2>6. VmsOf(req[r].subject)' = VmsOf(s)'
    BY <2>3 DEF VmsOf
  <2> QED BY <2>1, <2>3, <2>5, <2>6 DEF ReadsOK, SubjectRead, RowWritten, RowRead,
             RowDeleted
<1>6. CASE GetVmMutex(r) \/ LockInstance(r)
  BY <1>6, ReadsGoto DEF GetVmMutex, LockInstance, Moves, db
<1>7. CASE AgentsDelete(r)
  <2>1. /\ req'[r].pc = "dRow" /\ req'[r].subject = s /\ req'[r].vlan = req[r].vlan
        /\ req'[r].last = req[r].last /\ req'[r].vm = v
        /\ UNCHANGED <<vlanOf, vmSubject>>
    BY <1>0, <1>7 DEF AgentsDelete, Goto, RequestRecord, db
  <2>2. /\ vmSubject[v] = s /\ req[r].vlan = vlanOf[s]
        /\ req[r].last <=> VmsOf(s) = {v}
    BY <1>7 DEF AgentsDelete, ReadsOK, RowRead
  <2> QED BY <2>1, <2>2 DEF ReadsOK, SubjectRead, RowWritten, RowRead, RowDeleted, VmsOf
<1>8. CASE ReadSubjectAndIdent(r)
  <2>1. /\ vmSubject[v] = s /\ req[r].vlan = vlanOf[s]
        /\ req[r].last <=> VmsOf(s) = {v}
    BY <1>8 DEF ReadSubjectAndIdent, ReadsOK, RowRead
  <2>2. VmRow(v)
    BY <1>0, <1>8, <2>1, NoneAssumption DEF ReadSubjectAndIdent, DeletePoints, VmRow
  <2>3. /\ req'[r].pc = "dDelete" /\ req'[r].subject = s /\ req'[r].vlan = req[r].vlan
        /\ req'[r].last = req[r].last /\ req'[r].vm = v /\ req'[r].ident = vmIdent[v]
        /\ UNCHANGED <<vlanOf, vmSubject, vmIdent>>
    BY <1>0, <1>8, <2>1, <2>2 DEF ReadSubjectAndIdent, RequestRecord, db
  <2> QED BY <2>1, <2>3 DEF ReadsOK, SubjectRead, RowWritten, RowRead, RowDeleted, VmsOf
<1>9. CASE GetVlanByVmId(r) /\ req[r].pc \in DeletePoints
  BY <1>2, <1>3, <1>9 DEF GetVlanByVmId, DeletePoints
<1> QED BY <1>1, <1>4, <1>5, <1>6, <1>7, <1>8, <1>9 DEF VmIsLastInstanceInSubject

(* The peer is gone or not: the last instance of a subject is followed up.   *)
LEMMA ReadsPeerHandled ==
  ASSUME TypeInv, NEW r \in Request, ReadsOK(req[r]), At(r, "dPeer"), PeerHandled(r),
         UNCHANGED <<vlanOf, vmSubject, vmIdent>>
  PROVE  ReadsOK(req[r])'
<1>0. req[r] \in RequestRecord /\ req \in [Request -> RequestRecord] /\ RequestsOK
  BY DEF TypeInv, TypeOK, RequestsOK
<1>1. CASE ~req[r].last
  BY <1>0, <1>1, ReadsAnswer DEF PeerHandled
<1>2. CASE req[r].last
  <2>1. /\ SubjectRow(req[r].subject) /\ req[r].vlan = vlanOf[req[r].subject]
        /\ VmsOf(req[r].subject) = {}
    BY <1>2 DEF At, ReadsOK, RowDeleted, RowGonePoints
  <2>2. /\ req'[r].pc = "vdCheck" /\ req'[r].subject = req[r].subject
        /\ req'[r].vlan = req[r].vlan
    BY <1>0, <1>2 DEF PeerHandled, Goto, RequestRecord
  <2> QED BY <2>1, <2>2 DEF ReadsOK, SubjectRead, RowWritten, RowRead, RowDeleted,
             SubjectRow, VmsOf, OwnVlanPoints, OwnRowPoints, RowReadPoints,
             RowGonePoints
<1> QED BY <1>1, <1>2

(* ... and past it.                                                         *)
LEMMA ReadsAfterDelete ==
  ASSUME TypeInv, RowsInv, NEW r \in Request, ReadsOK(req[r]),
         \/ DeleteVm(r) \/ DeleteVmMutex(r) \/ RemoveVmConfig(r)
         \/ CheckVlanRemovable(r) \/ RemoveVlanConfig(r) \/ DeleteSubject(r)
  PROVE  ReadsOK(req[r])'
<1> USE DEF At
<1>0. /\ req[r] \in RequestRecord /\ req \in [Request -> RequestRecord] /\ RequestsOK
      /\ vmSubject \in [Vm -> Subject \cup {None}]
      /\ vmIdent \in [Vm -> Nat]
      /\ req[r].pc \in DeletePoints => req[r].vm \in Vm
      /\ req[r].pc \in InstanceHeld => req[r].subject \in Subject
  BY DEF TypeInv, TypeOK, RequestsOK, RequestOK, RequestRecord, InstanceHeld
<1> DEFINE s == req[r].subject  v == req[r].vm
<1> USE DEF OwnVlanPoints, OwnRowPoints, RowReadPoints, RowGonePoints
<1>1. CASE DeleteVm(r)
  <2>1. /\ vmSubject[v] = s /\ req[r].vlan = vlanOf[s] /\ req[r].ident = vmIdent[v]
        /\ req[r].last <=> VmsOf(s) = {v}
    BY <1>1 DEF DeleteVm, ReadsOK, RowRead
  <2>2. v \in Vm /\ s \in Subject /\ VmRow(v) /\ SubjectRow(s) /\ s # None
    BY <1>0, <1>1, <2>1, NoneAssumption DEF DeleteVm, DeletePoints, InstanceHeld,
       VmRow, RowsInv, ForeignKey
  <2>3. /\ req'[r].pc = "dForget" /\ req'[r].subject = s /\ req'[r].vlan = req[r].vlan
        /\ req'[r].last = req[r].last /\ req'[r].vm = v /\ req'[r].ident = req[r].ident
        /\ vlanOf' = vlanOf
        /\ vmSubject' = [vmSubject EXCEPT ![v] = None]
        /\ vmIdent' = [vmIdent EXCEPT ![v] = NoIdent]
    BY <1>0, <1>1 DEF DeleteVm, Goto, RequestRecord
  <2>4. VmsOf(req[r].subject)' = VmsOf(s) \ {v}
    BY <1>0, <2>2, <2>3 DEF VmsOf
  <2>5. v \in VmsOf(s)
    BY <2>1, <2>2 DEF VmsOf
  <2>6. \A w \in VmsOf(req[r].subject)' : vmIdent'[w] # req'[r].ident
    BY <1>0, <2>1, <2>2, <2>3, <2>4 DEF VmsOf, RowsInv, UniqueIdents
  <2>7. req'[r].last <=> VmsOf(req[r].subject)' = {}
    BY <2>1, <2>3, <2>4, <2>5
  <2>8. SubjectRow(req[r].subject)'
    BY <2>2, <2>3 DEF SubjectRow
  <2> QED BY <2>1, <2>3, <2>6, <2>7, <2>8 DEF ReadsOK, SubjectRead, RowWritten, RowRead,
             RowDeleted
<1>2. CASE DeleteVmMutex(r)
  <2>1. /\ SubjectRow(s) /\ req[r].vlan = vlanOf[s]
        /\ \A w \in VmsOf(s) : vmIdent[w] # req[r].ident
        /\ req[r].last <=> VmsOf(s) = {}
    BY <1>2 DEF DeleteVmMutex, ReadsOK, RowDeleted
  <2>2. /\ req'[r].pc = "dPeer" /\ req'[r].subject = s /\ req'[r].vlan = req[r].vlan
        /\ req'[r].last = req[r].last /\ req'[r].ident = req[r].ident
        /\ UNCHANGED <<vlanOf, vmSubject, vmIdent>>
    BY <1>0, <1>2 DEF DeleteVmMutex, RequestRecord, db
  <2> QED BY <2>1, <2>2 DEF ReadsOK, SubjectRead, RowWritten, RowRead, RowDeleted,
             SubjectRow, VmsOf
<1>3. CASE RemoveVmConfig(r)
  BY <1>0, <1>3, ReadsPeerHandled DEF RemoveVmConfig, db
<1>4. CASE CheckVlanRemovable(r)
  <2>1. /\ Goto(r, "vdRemove") \/ Goto(r, "dDelSubject")
        /\ req[r].pc = "vdCheck"
        /\ UNCHANGED <<vlanOf, vmSubject, vmIdent, configured, domain>>
    BY <1>4 DEF CheckVlanRemovable, db
  <2> QED BY <2>1, ReadsGoto DEF Moves
<1>5. CASE RemoveVlanConfig(r)
  BY <1>5, ReadsGoto DEF RemoveVlanConfig, Moves, db
<1>6. CASE DeleteSubject(r)
  <2>1. CanDeleteSubject(s)
    BY <1>6 DEF DeleteSubject, ReadsOK, RowDeleted, CanDeleteSubject
  <2> QED BY <1>0, <1>6, <2>1, ReadsAnswer DEF DeleteSubject
<1> QED BY <1>1, <1>2, <1>3, <1>4, <1>5, <1>6

(* What fails ends the handler, undoes the create or is passed over.        *)
LEMMA ReadsFault ==
  ASSUME TypeInv, RowsInv, NEW r \in Request, ReadsOK(req[r]),
         DbFails(r) \/ AgentFails(r) \/ RouterFails(r)
  PROVE  ReadsOK(req[r])'
<1> USE DEF At
<1>0. RequestsOK
  BY DEF TypeInv
<1>1. CASE Answer(r)
  BY <1>0, <1>1, ReadsAnswer
<1>2. UNCHANGED <<vlanOf, vmSubject, vmIdent, configured>>
  BY DEF DbFails, AgentFails, RouterFails, db
<1>3. CASE DbFails(r) /\ ~Answer(r)
  <2>1. CASE Rollback(r) /\ req[r].pc \in {"vcCheck", "vcSet"}
    BY <1>2, <2>1, ReadsRollback DEF OwnRowPoints
  <2>2. CASE req[r].pc = "vdCheck" /\ Goto(r, "dDelSubject")
    BY <1>2, <1>3, <2>2, ReadsGoto DEF DbFails, Moves
  <2> QED BY <1>3, <2>1, <2>2 DEF DbFails
<1>4. CASE AgentFails(r) /\ ~Answer(r)
  BY <1>4 DEF AgentFails, SweepIncomplete
<1>5. CASE RouterFails(r) /\ ~Answer(r)
  <2>1. CASE Rollback(r) /\ req[r].pc \in {"vcApply", "cKey", "cPeer"}
    BY <1>2, <2>1, ReadsRollback DEF OwnRowPoints
  <2>2. CASE req[r].pc = "vdRemove" /\ Goto(r, "dDelSubject")
    BY <1>2, <1>5, <2>2, ReadsGoto DEF RouterFails, Moves
  <2>3. CASE req[r].pc = "dPeer" /\ PeerHandled(r)
    BY <1>2, <2>3, ReadsPeerHandled
  <2> QED BY <1>5, <2>1, <2>2, <2>3 DEF RouterFails
<1> QED BY <1>1, <1>3, <1>4, <1>5

LEMMA ReadsWork ==
  ASSUME TypeInv, RowsInv, NEW r \in Request, ReadsOK(req[r]), Work(r) \/ Lock(r)
  PROVE  ReadsOK(req[r])'
<1>1. CASE \/ SubjectExistsById(r) \/ GetSubjectVlan(r) \/ GetFirstAvailableVlan(r)
           \/ AddSubject(r) \/ GetVlanOwner(r)
           \/ GetFirstAvailableVmVlanIdentifier(r) \/ LockSource(r)
  BY <1>1, ReadsBeforeLock
<1>2. CASE AgentCreate(r) \/ AddVm(r)
  BY <1>2, ReadsRow
<1>3. CASE GetVlanByVmId(r)
  BY <1>3, ReadsRow, ReadsBeforeDelete DEF GetVlanByVmId, At, CreatePoints, DeletePoints
<1>4. CASE \/ CheckVlanConfigured(r) \/ ApplyVlanConfig(r) \/ SetVlanAsConfigured(r)
           \/ GetWireguardPublicKey(r) \/ ApplyVmConfig(r) \/ RelockSource(r)
  BY <1>4, ReadsConfigure
<1>5. CASE \/ CheckDeletable(r) \/ VmIsLastInstanceInSubject(r) \/ GetVmMutex(r)
           \/ LockInstance(r) \/ AgentsDelete(r) \/ ReadSubjectAndIdent(r)
  BY <1>5, ReadsBeforeDelete
<1>6. CASE \/ DeleteVm(r) \/ DeleteVmMutex(r) \/ RemoveVmConfig(r)
           \/ CheckVlanRemovable(r) \/ RemoveVlanConfig(r) \/ DeleteSubject(r)
  BY <1>6, ReadsAfterDelete
<1>7. CASE DbFails(r) \/ AgentFails(r) \/ RouterFails(r)
  BY <1>7, ReadsFault
<1> QED BY <1>1, <1>2, <1>3, <1>4, <1>5, <1>6, <1>7 DEF Work, Lock

(* Nothing is read by those who are idle.                                   *)
LEMMA IdleReads ==
  ASSUME NEW q \in Request, req'[q].pc = "idle"
  PROVE  ReadsOK(req[q])'
BY DEF ReadsOK, SubjectRead, RowWritten, RowRead, RowDeleted, OwnVlanPoints,
   OwnRowPoints, RowReadPoints, RowGonePoints

LEMMA ReadsStep ==
  ASSUME TypeInv, RowsInv, OneAtATime, OneAtATime', ReadsHold, [Next]_vars
  PROVE  ReadsHold'
<1>0. RequestsOK /\ req \in [Request -> RequestRecord]
  BY DEF TypeInv, TypeOK
<1>1. CASE Crash
  <2>1. \A q \in Request : req'[q].pc = "idle"
    BY <1>1 DEF Crash, Idle
  <2> QED BY <2>1, IdleReads DEF ReadsHold
<1>2. CASE UNCHANGED vars
  BY <1>2 DEF vars, db, ReadsHold, ReadsOK, SubjectRead, RowWritten, RowRead,
     RowDeleted, SubjectRow, VmRow, VmsOf, Owners, CanAddSubject, CanAddVm
<1>3. ASSUME NEW r \in Request, CreateInstance(r) \/ DeleteInstance(r)
      PROVE  ReadsHold'
  <2>1. /\ req'[r].pc \in {"cSubject", "dExists"} /\ vmSubject' = vmSubject
        /\ req'[r].pc = "dExists" => VmRow(req'[r].vm)
    <3>1. CASE CreateInstance(r)
      BY <1>0, <3>1 DEF CreateInstance, Idle, db
    <3>2. CASE DeleteInstance(r)
      BY <1>0, <3>2 DEF DeleteInstance, Idle, db
    <3> QED BY <1>3, <3>1, <3>2
  <2>2. ReadsOK(req[r])'
    BY <2>1 DEF ReadsOK, SubjectRead, RowWritten, RowRead, RowDeleted, OwnVlanPoints,
       OwnRowPoints, RowReadPoints, RowGonePoints, VmRow
  <2>3. \A q \in Request : q # r => req'[q].pc = "idle"
    BY <2>1 DEF OneAtATime
  <2> QED BY <2>2, <2>3, IdleReads DEF ReadsHold
<1>4. ASSUME NEW r \in Request, Work(r) \/ Lock(r)
      PROVE  ReadsHold'
  <2>1. ReadsOK(req[r])'
    BY <1>4, ReadsWork DEF ReadsHold
  <2>2. \A q \in Request : q # r => req'[q].pc = "idle"
    BY <1>0, <1>4, Alone
  <2> QED BY <2>1, <2>2, IdleReads DEF ReadsHold
<1> QED BY <1>1, <1>2, <1>3, <1>4 DEF Next

(* With one request at a time, what a handler read before it waits for a    *)
(* mutex is still so when it has it.                                        *)
LEMMA ReadsInvariant == Spec /\ []OneAtATime => []ReadsHold
<1>1. Init => ReadsHold
  BY DEF Init, Idle, ReadsHold, ReadsOK, SubjectRead, RowWritten, RowRead, RowDeleted,
     OwnVlanPoints, OwnRowPoints, RowReadPoints, RowGonePoints
<1>2. /\ TypeInv /\ RowsInv /\ OneAtATime /\ OneAtATime' /\ ReadsHold /\ [Next]_vars
      => ReadsHold'
  BY ReadsStep
<1> QED BY <1>1, <1>2, TypeInvariant, PTL DEF Spec

(* The comments of addVmToDb and deleteSubjectFromDb are true of requests   *)
(* that do not overlap: what the two were checked for before still holds    *)
(* when they are tried, so that neither is ever refused.                    *)
THEOREM SerialWritesAccepted ==
  Spec /\ []OneAtATime
    => [](/\ AddVmCheckedBefore /\ DeleteSubjectCheckedBefore
          /\ \A r \in Request : ~Rejected(r))
<1>1. ReadsHold => /\ AddVmCheckedBefore /\ DeleteSubjectCheckedBefore
                   /\ \A r \in Request : ~Rejected(r)
  BY DEF ReadsHold, ReadsOK, SubjectRead, RowDeleted, AddVmCheckedBefore,
     DeleteSubjectCheckedBefore, CanDeleteSubject, Rejected, At
<1> QED BY <1>1, ReadsInvariant, PTL

(***************************************************************************)
(* 10. What is served can be reached.                                      *)
(***************************************************************************)
Reachable(v) ==
    /\ VmRow(v)
    /\ domain[v] = RowAddress(v)
    /\ RowAddress(v)[1] \in wireguards
    /\ Append(RowAddress(v), v) \in peers

(* An instance served can be reached, its VLAN is marked, and no request is *)
(* at work on it.                                                           *)
ServedInv ==
    /\ \A v \in served : Reachable(v) /\ vmSubject[v] \in configured
    /\ \A r \in Request : req[r].pc # "idle" => req[r].vm \notin served

(* An address and an instance make a peer.                                  *)
LEMMA PeerOf ==
  ASSUME NEW a, NEW b, NEW c
  PROVE  Append(<<a, b>>, c) = <<a, b, c>>
<1> DEFINE S == {a, b, c}
           s == Append(<<a, b>>, c)
           t == <<a, b, c>>
<1>1. <<a, b>> \in Seq(S) /\ s \in Seq(S) /\ t \in Seq(S)
  OBVIOUS
<1>2. Len(<<a, b>>) = 2 /\ Len(s) = 3 /\ Len(t) = 3
  BY <1>1
<1>3. s[1] = a /\ s[2] = b /\ s[3] = c
  BY <1>1
<1>4. \A i \in 1 .. Len(s) : s[i] = t[i]
  BY <1>2, <1>3
<1> HIDE DEF s, t
<1>5. s = t
  BY <1>1, <1>2, <1>4, SeqEqual
<1> QED BY <1>5 DEF s, t

(* A handler at work on one instance leaves the row of another.             *)
LEMMA OtherRowKept ==
  ASSUME TypeInv, RowsInv, ReadsHold, NEW r \in Request, Work(r) \/ Lock(r),
         NEW v \in Vm, VmRow(v), v # req[r].vm
  PROVE  /\ vmSubject'[v] = vmSubject[v] /\ vmIdent'[v] = vmIdent[v]
         /\ vlanOf'[vmSubject[v]] = vlanOf[vmSubject[v]]
         /\ VmRow(v)' /\ RowAddress(v)' = RowAddress(v)
<1>0. /\ vlanOf \in [Subject -> Nat]
      /\ vmSubject \in [Vm -> Subject \cup {None}]
      /\ vmIdent \in [Vm -> Nat]
  BY DEF TypeInv, TypeOK
<1>1. vmSubject'[v] = vmSubject[v] /\ vmIdent'[v] = vmIdent[v]
  BY <1>0, HandlerWrites DEF AddVm, DeleteVm
<1>2. vlanOf'[vmSubject[v]] = vlanOf[vmSubject[v]]
  <2>1. vmSubject[v] \in Subject /\ SubjectRow(vmSubject[v])
    BY <1>0 DEF VmRow, RowsInv, ForeignKey
  <2>2. CASE AddSubject(r)
    BY <1>0, <2>1, <2>2 DEF AddSubject, CanAddSubject
  <2>3. CASE DeleteSubject(r)
    BY <1>0, <2>1, <2>3 DEF DeleteSubject, CanDeleteSubject, VmsOf
  <2> QED BY <2>2, <2>3, HandlerWrites
<1> QED BY <1>1, <1>2 DEF VmRow, RowAddress

(* It leaves the domain, the mark, the VLAN and the peer of an instance     *)
(* whose VLAN is marked.                                                    *)
LEMMA OtherDomainKept ==
  ASSUME TypeInv, NEW r \in Request, Work(r) \/ Lock(r), NEW v \in Vm, v # req[r].vm
  PROVE  domain'[v] = domain[v]
<1>0. domain \in [Vm -> Nat \X Nat]
  BY DEF TypeInv, TypeOK
<1> QED BY <1>0, HandlerWrites DEF AgentCreate, AgentFails, AgentsDelete

LEMMA OtherMarkKept ==
  ASSUME TypeInv, RowsInv, NEW r \in Request, Work(r) \/ Lock(r),
         NEW v \in Vm, VmRow(v), vmSubject[v] \in configured
  PROVE  vmSubject[v] \in configured'
<1>1. SubjectRow(vmSubject[v])
  BY DEF RowsInv, ForeignKey
<1>2. CASE AddSubject(r)
  BY <1>1, <1>2 DEF AddSubject, CanAddSubject
<1>3. CASE DeleteSubject(r)
  BY <1>3 DEF DeleteSubject, CanDeleteSubject, VmsOf
<1>4. CASE SetVlanAsConfigured(r)
  BY <1>4 DEF SetVlanAsConfigured
<1> QED BY <1>2, <1>3, <1>4, HandlerWrites

LEMMA OtherVlanKept ==
  ASSUME TypeInv, RowsInv, ReadsHold, NEW r \in Request, Work(r) \/ Lock(r),
         NEW v \in Vm, VmRow(v), vmSubject[v] \in configured,
         RowAddress(v)[1] \in wireguards
  PROVE  RowAddress(v)[1] \in wireguards'
<1>0. /\ RowAddress(v)[1] = vlanOf[vmSubject[v]]
      /\ vmSubject[v] \in Subject /\ SubjectRow(vmSubject[v])
  BY DEF RowAddress, VmRow, TypeInv, TypeOK, RowsInv, ForeignKey
<1>1. req[r].pc \in RouterHeld =>
        /\ req[r].subject \in Subject /\ req[r].subject # vmSubject[v]
        /\ req[r].vlan = vlanOf[req[r].subject]
  <2>1. CASE req[r].pc \in {"vcApply", "vcSet"}
    <3>1. /\ req[r].subject \notin configured
          /\ req[r].vlan = vlanOf[req[r].subject]
      BY <2>1 DEF ReadsHold, ReadsOK, SubjectRead, RowWritten, OwnRowPoints
    <3>2. req[r].subject \in Subject
      BY <2>1 DEF TypeInv, RequestsOK, RequestOK, RequestRecord, CreatePoints
    <3> QED BY <3>1, <3>2
  <2>2. CASE req[r].pc = "vdRemove"
    <3>1. /\ VmsOf(req[r].subject) = {}
          /\ req[r].vlan = vlanOf[req[r].subject]
      BY <2>2 DEF ReadsHold, ReadsOK, RowDeleted, RowGonePoints
    <3>2. req[r].subject \in Subject
      BY <2>2 DEF TypeInv, RequestsOK, RequestOK, RequestRecord, InstanceHeld
    <3> QED BY <3>1, <3>2 DEF VmsOf
  <2> QED BY <2>1, <2>2 DEF RouterHeld
<1>2. req[r].pc \in RouterHeld => req[r].vlan # RowAddress(v)[1]
  BY <1>0, <1>1 DEF RowsInv, UniqueVlans
<1>3. CASE ApplyVlanConfig(r)
  BY <1>2, <1>3 DEF ApplyVlanConfig, At, RouterHeld
<1>4. CASE RemoveVlanConfig(r)
  BY <1>2, <1>4 DEF RemoveVlanConfig, At, RouterHeld
<1>5. CASE DbFails(r)
  BY <1>2, <1>5 DEF DbFails, VlanConfigCleared, At, RouterHeld
<1>6. CASE RouterFails(r)
  BY <1>2, <1>6 DEF RouterFails, VlanConfigCleared, router, At, RouterHeld
<1> QED BY <1>3, <1>4, <1>5, <1>6, HandlerWrites

LEMMA OtherPeerKept ==
  ASSUME TypeInv, RowsInv, ReadsHold, NEW r \in Request, Work(r) \/ Lock(r),
         NEW v \in Vm, VmRow(v), Append(RowAddress(v), v) \in peers
  PROVE  Append(RowAddress(v), v) \in peers'
<1> DEFINE peer == <<vlanOf[vmSubject[v]], vmIdent[v], v>>
<1>0. /\ Append(RowAddress(v), v) = peer
      /\ vmSubject[v] \in Subject /\ SubjectRow(vmSubject[v])
  BY PeerOf DEF RowAddress, VmRow, TypeInv, TypeOK, RowsInv, ForeignKey
<1>1. CASE RemoveVmConfig(r)
  <2>1. /\ req[r].vlan = vlanOf[req[r].subject] /\ SubjectRow(req[r].subject)
        /\ \A w \in VmsOf(req[r].subject) : vmIdent[w] # req[r].ident
    BY <1>1 DEF RemoveVmConfig, At, ReadsHold, ReadsOK, RowDeleted, RowGonePoints
  <2>2. req[r].subject \in Subject
    BY <1>1 DEF RemoveVmConfig, At, TypeInv, RequestsOK, RequestOK, RequestRecord,
       InstanceHeld
  <2>3. peer \notin PeersNamed(req[r].vlan, req[r].ident)
    <3> SUFFICES ASSUME peer[1] = req[r].vlan, peer[2] = req[r].ident
                 PROVE  FALSE
      BY DEF PeersNamed
    <3>1. vmSubject[v] = req[r].subject
      BY <1>0, <2>1, <2>2 DEF RowsInv, UniqueVlans
    <3> QED BY <2>1, <3>1 DEF VmsOf
  <2> QED BY <1>0, <1>1, <2>3 DEF RemoveVmConfig
<1>2. CASE ApplyVmConfig(r)
  BY <1>2 DEF ApplyVmConfig
<1>3. CASE RouterFails(r)
  <2>1. peers \subseteq peers'
    BY <1>3 DEF RouterFails, router
  <2> QED BY <2>1
<1> QED BY <1>1, <1>2, <1>3, HandlerWrites

(* What ApplyVmConfig serves has its row, its domain, its VLAN and its peer.*)
LEMMA NewlyServed ==
  ASSUME TypeInv, RowsInv, ReadsHold, NEW r \in Request, ApplyVmConfig(r),
         NEW v \in served', v \notin served
  PROVE  Reachable(v)' /\ vmSubject'[v] \in configured'
<1> USE DEF At
<1>0. /\ req[r].pc = "cPeer" /\ req[r].vlan \in wireguards
      /\ v = req[r].vm /\ VmRow(v)
      /\ <<req[r].vlan, req[r].ident, v>> \in peers'
      /\ UNCHANGED <<vlanOf, configured, vmSubject, vmIdent, domain, wireguards>>
  BY DEF ApplyVmConfig, db
<1>1. /\ vlanOf[req[r].subject] = req[r].vlan /\ req[r].subject \in configured
      /\ vmSubject[v] = req[r].subject /\ vmIdent[v] = req[r].ident
      /\ domain[v] = <<req[r].vlan, req[r].ident>>
  BY <1>0 DEF ReadsHold, ReadsOK, SubjectRead, RowWritten, OwnRowPoints
<1>2. RowAddress(v) = <<req[r].vlan, req[r].ident>>
  BY <1>0, <1>1 DEF RowAddress
<1>3. Append(<<req[r].vlan, req[r].ident>>, v) = <<req[r].vlan, req[r].ident, v>>
  BY PeerOf
<1>4. <<req[r].vlan, req[r].ident>>[1] = req[r].vlan
  OBVIOUS
<1>5. VmRow(v)' /\ RowAddress(v)' = <<req[r].vlan, req[r].ident>>
  BY <1>0, <1>2 DEF VmRow, RowAddress
<1> QED BY <1>0, <1>1, <1>3, <1>4, <1>5 DEF Reachable

LEMMA ServedWork ==
  ASSUME TypeInv, RowsInv, OneAtATime, ReadsHold, ServedInv, TypeInv',
         NEW r \in Request, Work(r) \/ Lock(r)
  PROVE  ServedInv'
<1>0. /\ req \in [Request -> RequestRecord] /\ RequestsOK
      /\ served \subseteq Vm /\ served' \subseteq Vm
  BY DEF TypeInv, TypeOK
<1>1. req[r].pc # "idle" /\ req[r].vm \notin served
  BY UnderWay DEF ServedInv
<1>2. ASSUME NEW v \in served', v \in served
      PROVE  Reachable(v)' /\ vmSubject'[v] \in configured'
  <2>1. v \in Vm /\ v # req[r].vm /\ Reachable(v) /\ vmSubject[v] \in configured
    BY <1>0, <1>1, <1>2 DEF ServedInv
  <2>2. VmRow(v)' /\ RowAddress(v)' = RowAddress(v) /\ vmSubject'[v] = vmSubject[v]
    BY <2>1, OtherRowKept DEF Reachable
  <2>3. domain'[v] = domain[v]
    BY <2>1, OtherDomainKept
  <2>4. vmSubject[v] \in configured'
    BY <2>1, OtherMarkKept DEF Reachable
  <2>5. RowAddress(v)[1] \in wireguards'
    BY <2>1, OtherVlanKept DEF Reachable
  <2>6. Append(RowAddress(v), v) \in peers'
    BY <2>1, OtherPeerKept DEF Reachable
  <2> QED BY <2>1, <2>2, <2>3, <2>4, <2>5, <2>6 DEF Reachable
<1>3. ASSUME NEW v \in served', v \notin served
      PROVE  ApplyVmConfig(r) /\ Answer(r)
  BY <1>3, HandlerWrites DEF ApplyVmConfig, DeleteVm
<1>4. ASSUME NEW q \in Request, req'[q].pc # "idle"
      PROVE  req'[q].vm \notin served'
  <2>1. q = r
    BY <1>0, <1>4, Alone
  <2>2. CASE req'[r].vm = None
    BY <1>0, <2>1, <2>2, NoneAssumption
  <2>3. CASE req'[r].vm = req[r].vm /\ req[r].vm # None
    <3> SUFFICES ASSUME req[r].vm \in served' PROVE FALSE
      BY <2>1, <2>3
    <3>1. Answer(r)
      BY <1>1, <1>3
    <3>2. req'[r].vm = None
      BY <1>0, <3>1 DEF Answer, Idle
    <3> QED BY <2>3, <3>2
  <2> QED BY <1>0, <2>2, <2>3, WorkOnward DEF Onward
<1>5. ASSUME NEW v \in served'
      PROVE  Reachable(v)' /\ vmSubject'[v] \in configured'
  BY <1>2, <1>3, NewlyServed
<1> QED BY <1>4, <1>5 DEF ServedInv

LEMMA ServedStep ==
  ASSUME TypeInv, RowsInv, OneAtATime, OneAtATime', ReadsHold, ServedInv, TypeInv',
         [Next]_vars
  PROVE  ServedInv'
<1>0. /\ req \in [Request -> RequestRecord]
      /\ served \subseteq Vm /\ served' \subseteq Vm
  BY DEF TypeInv, TypeOK
<1>1. ASSUME UNCHANGED <<db, domain, router>>, served' \subseteq served
      PROVE  \A v \in served' : Reachable(v)' /\ vmSubject'[v] \in configured'
  <2> TAKE v \in served'
  <2>1. Reachable(v) /\ vmSubject[v] \in configured
    BY <1>1 DEF ServedInv
  <2>2. UNCHANGED <<vlanOf, configured, vmSubject, vmIdent, domain, wireguards, peers>>
    BY <1>1 DEF db, router
  <2> QED BY <2>1, <2>2 DEF Reachable, RowAddress, VmRow
<1>2. CASE Crash \/ UNCHANGED vars
  <2>1. UNCHANGED <<db, domain, router>> /\ served' = served
    BY <1>2 DEF Crash, vars
  <2>2. \A q \in Request : req'[q] \in {req[q], Idle}
    BY <1>2 DEF Crash, vars
  <2>3. Idle.pc = "idle"
    BY DEF Idle
  <2> QED BY <1>1, <2>1, <2>2, <2>3 DEF ServedInv
<1>3. ASSUME NEW r \in Request, CreateInstance(r) \/ DeleteInstance(r)
      PROVE  ServedInv'
  <2>1. UNCHANGED <<db, domain, router>> /\ served' \subseteq served
    BY <1>3 DEF CreateInstance, DeleteInstance
  <2>2. req'[r].pc # "idle" /\ req'[r].vm \notin served'
    <3>1. CASE CreateInstance(r)
      <4>1. PICK v \in Vm : Fresh(v) /\ req'[r].vm = v /\ req'[r].pc = "cSubject"
        BY <1>0, <3>1 DEF CreateInstance, Idle
      <4> QED BY <2>1, <4>1 DEF ServedInv, Reachable, Fresh
    <3>2. CASE DeleteInstance(r)
      BY <1>0, <3>2 DEF DeleteInstance, Idle
    <3> QED BY <1>3, <3>1, <3>2
  <2>3. \A q \in Request : q # r => req'[q].pc = "idle"
    BY <2>2 DEF OneAtATime
  <2> QED BY <1>1, <2>1, <2>2, <2>3 DEF ServedInv
<1> QED BY <1>2, <1>3, ServedWork DEF Next

(* Requests that do not overlap: an instance whose client has been given    *)
(* its configuration goes on being reachable until it is deleted, whatever  *)
(* calls fail and wherever the service stops, in that create and in every   *)
(* request for another instance (ApplyVmConfig, RemoveVmConfig,             *)
(* addVlanConfigIfNotExists, deleteVlanConfigWhenAvailable).                *)
THEOREM SerialServedReachable == Spec /\ []OneAtATime => []ServedReachable
<1>1. Init => ServedInv
  BY DEF Init, Idle, ServedInv
<1>2. /\ TypeInv /\ RowsInv /\ OneAtATime /\ OneAtATime' /\ ReadsHold /\ ServedInv
      /\ TypeInv' /\ [Next]_vars
      => ServedInv'
  BY ServedStep
<1>3. ServedInv => ServedReachable
  BY DEF ServedInv, Reachable, ServedReachable
<1> QED BY <1>1, <1>2, <1>3, TypeInvariant, ReadsInvariant, PTL DEF Spec

(***************************************************************************)
(* 11. Nothing leaks.  Until something fails, the tables, the agents and   *)
(*     the router agree, but for what the request at work (q) is about to  *)
(*     bring into line.                                                    *)
(***************************************************************************)
DomainPoints == {"cAddVm", "dRow", "dDelete"}
MarkPoints   == {"cRow", "cVlan", "vcCheck", "vcApply", "vcSet"}

DomainsKept(q) ==
    \A v \in Vm : \/ domain[v] = RowAddress(v)
                  \/ q.pc \in DomainPoints /\ q.vm = v

SubjectsKept(q) ==
    \A s \in Subject : SubjectRow(s) /\ VmsOf(s) = {} =>
        q.pc \in OwnVlanPoints \cup RowGonePoints /\ q.subject = s

MarksKept(q) ==
    /\ \A s \in configured : SubjectRow(s)
    /\ \A s \in Subject : SubjectRow(s) /\ s \notin configured =>
          /\ q.subject = s
          /\ \/ q.pc \in MarkPoints
             \/ q.pc \in OwnVlanPoints /\ VmsOf(s) = {}

VlansKept(q) ==
    /\ \A n \in wireguards : \/ \E s \in configured : vlanOf[s] = n
                             \/ q.pc = "vcSet" /\ q.vlan = n
    /\ \A s \in configured : \/ vlanOf[s] \in wireguards
                             \/ q.pc = "dDelSubject" /\ q.subject = s
    /\ q.pc = "vcSet" => q.vlan \in wireguards
    /\ q.pc = "dDelSubject" => q.vlan \notin wireguards

PeerOfRow(v) == Append(RowAddress(v), v)

PeersKept(q) ==
    /\ \A p \in peers :
          \/ VmRow(p[3]) /\ p = PeerOfRow(p[3])
          \/ q.pc \in {"dForget", "dPeer"} /\ p = <<q.vlan, q.ident, q.vm>>
    /\ \A v \in Vm : VmRow(v) => \/ PeerOfRow(v) \in peers
                                 \/ q.pc \in OwnRowPoints /\ q.vm = v
    /\ q.pc \in CreatePoints => \A p \in peers : p[3] # q.vm

Tidy(q) ==
    /\ ~q.rollback /\ q.pc # "relock"
    /\ DomainsKept(q) /\ SubjectsKept(q) /\ MarksKept(q) /\ VlansKept(q) /\ PeersKept(q)

AtWork(q) == \A r \in Request : req[r].pc = "idle" \/ req[r] = q

TidyInv ==
    ~failed => \E q \in {req[r] : r \in Request} \cup {Idle} : AtWork(q) /\ Tidy(q)

(* A step that only reads leaves all that in place, if the handler goes on  *)
(* to bring it into line.                                                   *)
ReadMoves ==
    {<<"cSubjectVlan", "cOwner">>, <<"cOwner", "cIdent">>, <<"cIdent", "cLock">>,
     <<"cLock", "cAgent">>, <<"cRow", "cVlan">>, <<"cVlan", "vcCheck">>,
     <<"vcCheck", "vcApply">>, <<"cKey", "cPeer">>, <<"dRow", "dDelete">>,
     <<"dForget", "dPeer">>, <<"vdCheck", "vdRemove">>}

WatchedPoints == OwnVlanPoints \cup OwnRowPoints \cup {"dRow", "dDelete"} \cup RowGonePoints

MovesTidily(r) ==
    /\ <<req[r].pc, req'[r].pc>> \in ReadMoves
    /\ req'[r].vm = req[r].vm /\ req'[r].subject = req[r].subject
    /\ req[r].pc = "dForget" =>
          req'[r].vlan = req[r].vlan /\ req'[r].ident = req[r].ident

Unwatched(r) ==
    /\ {req[r].pc, req'[r].pc} \cap WatchedPoints = {}
    /\ req'[r].pc # "relock"
    /\ req'[r].pc \in CreatePoints =>
          req[r].pc \in CreatePoints /\ req'[r].vm = req[r].vm

LEMMA TidyKept ==
  ASSUME NEW r \in Request, Tidy(req[r]), UNCHANGED <<db, domain, router>>,
         ~req'[r].rollback, MovesTidily(r) \/ Unwatched(r)
  PROVE  Tidy(req[r])'
<1>0. UNCHANGED <<vlanOf, configured, vmSubject, vmIdent, domain, wireguards, peers>>
  BY DEF db, router
<1> USE DEF MovesTidily, Unwatched, ReadMoves, WatchedPoints, OwnVlanPoints, OwnRowPoints,
            RowGonePoints, DomainPoints, MarkPoints
<1>1. req'[r].pc # "relock"
  OBVIOUS
<1>2. DomainsKept(req[r])'
  <2>1. req[r].pc \in DomainPoints => req'[r].pc \in DomainPoints /\ req'[r].vm = req[r].vm
    OBVIOUS
  <2>2. \A v : RowAddress(v)' = RowAddress(v)
    BY <1>0 DEF RowAddress, VmRow
  <2> QED BY <1>0, <2>1, <2>2 DEF Tidy, DomainsKept
<1>3. SubjectsKept(req[r])'
  <2>1. req[r].pc \in OwnVlanPoints \cup RowGonePoints =>
           req'[r].pc \in OwnVlanPoints \cup RowGonePoints /\ req'[r].subject = req[r].subject
    OBVIOUS
  <2> QED BY <1>0, <2>1 DEF Tidy, SubjectsKept, SubjectRow, VmsOf
<1>4. MarksKept(req[r])'
  <2>1. /\ req[r].pc \in MarkPoints =>
             req'[r].pc \in MarkPoints /\ req'[r].subject = req[r].subject
        /\ req[r].pc \in OwnVlanPoints =>
             req'[r].pc \in OwnVlanPoints /\ req'[r].subject = req[r].subject
    OBVIOUS
  <2> QED BY <1>0, <2>1 DEF Tidy, MarksKept, SubjectRow, VmsOf
<1>5. VlansKept(req[r])'
  <2>1. /\ req[r].pc \notin {"vcSet", "dDelSubject"}
        /\ req'[r].pc \notin {"vcSet", "dDelSubject"}
    OBVIOUS
  <2> QED BY <1>0, <2>1 DEF Tidy, VlansKept
<1>6. PeersKept(req[r])'
  <2>1. /\ req[r].pc \in {"dForget", "dPeer"} =>
             /\ req'[r].pc \in {"dForget", "dPeer"} /\ req'[r].vm = req[r].vm
             /\ req'[r].vlan = req[r].vlan /\ req'[r].ident = req[r].ident
        /\ req[r].pc \in OwnRowPoints =>
             req'[r].pc \in OwnRowPoints /\ req'[r].vm = req[r].vm
    OBVIOUS
  <2>2. \A v : VmRow(v)' = VmRow(v) /\ PeerOfRow(v)' = PeerOfRow(v)
    BY <1>0 DEF RowAddress, VmRow, PeerOfRow
  <2>3. req'[r].pc \in CreatePoints => req[r].pc \in CreatePoints /\ req'[r].vm = req[r].vm
    BY DEF CreatePoints
  <2> QED BY <1>0, <2>1, <2>2, <2>3 DEF Tidy, PeersKept
<1> QED BY <1>1, <1>2, <1>3, <1>4, <1>5, <1>6 DEF Tidy

(* A handler that has nothing to undo ends idle.                            *)
LEMMA AnswerIdle ==
  ASSUME RequestsOK, NEW r \in Request, Answer(r), ~req[r].rollback
  PROVE  req'[r].pc = "idle" /\ ~req'[r].rollback
BY DEF RequestsOK, Answer, Idle

LEMMA TidyAnswer ==
  ASSUME RequestsOK, NEW r \in Request, Tidy(req[r]), UNCHANGED <<db, domain, router>>,
         Answer(r), req[r].pc \notin WatchedPoints
  PROVE  Tidy(req[r])'
<1>1. ~req[r].rollback
  BY DEF Tidy
<1>2. req'[r].pc = "idle" /\ ~req'[r].rollback
  BY <1>1, AnswerIdle
<1>3. Unwatched(r)
  BY <1>2 DEF Unwatched, WatchedPoints, OwnVlanPoints, OwnRowPoints, RowGonePoints,
     CreatePoints
<1> QED BY <1>2, <1>3, TidyKept

(* No identifier is left in a subject's VLAN: it has instances.             *)
LEMMA TidyExhausted ==
  ASSUME TypeInv, NEW r \in Request, ReadsOK(req[r]), Tidy(req[r]),
         UNCHANGED <<db, domain, router>>,
         At(r, "cIdent"), Answer(r), Cardinality(UsedIdents(req[r].owner)) = MAX_VMS_PER_VLAN
  PROVE  Tidy(req[r])'
<1>0. UNCHANGED <<vlanOf, configured, vmSubject, vmIdent, domain, wireguards, peers>>
  BY DEF db, router
<1>1. req'[r].pc = "idle" /\ ~req'[r].rollback
  BY AnswerIdle DEF Tidy, TypeInv
<1>2. req[r].pc = "cIdent" /\ req[r].owner = req[r].subject
  BY DEF At, ReadsOK, SubjectRead
<1>3. VmsOf(req[r].subject) # {}
  <2>1. CASE UsedIdents(req[r].owner) = {}
    BY <2>1, FS_EmptySet, BoundsAssumption
  <2>2. CASE UsedIdents(req[r].owner) # {}
    BY <1>2, <2>2 DEF UsedIdents
  <2> QED BY <2>1, <2>2
<1>4. DomainsKept(req[r])'
  BY <1>0, <1>2 DEF Tidy, DomainsKept, DomainPoints, RowAddress, VmRow
<1>5. SubjectsKept(req[r])'
  BY <1>0, <1>2, <1>3 DEF Tidy, SubjectsKept, SubjectRow, VmsOf
<1>6. MarksKept(req[r])'
  BY <1>0, <1>2, <1>3 DEF Tidy, MarksKept, MarkPoints, SubjectRow, VmsOf
<1>7. VlansKept(req[r])'
  BY <1>0, <1>1, <1>2 DEF Tidy, VlansKept
<1>8. PeersKept(req[r])'
  BY <1>0, <1>1, <1>2 DEF Tidy, PeersKept, PeerOfRow, RowAddress, VmRow, OwnRowPoints,
     CreatePoints
<1> QED BY <1>1, <1>4, <1>5, <1>6, <1>7, <1>8 DEF Tidy

(* The VLAN has been marked already.                                        *)
LEMMA TidyMarked ==
  ASSUME NEW r \in Request, Tidy(req[r]), UNCHANGED <<db, domain, router>>,
         At(r, "vcCheck"), req'[r].pc = "cKey", req[r].subject \in configured,
         ~req'[r].rollback, req'[r].vm = req[r].vm
  PROVE  Tidy(req[r])'
<1>0. UNCHANGED <<vlanOf, configured, vmSubject, vmIdent, domain, wireguards, peers>>
  BY DEF db, router
<1>2. req[r].pc = "vcCheck"
  BY DEF At
<1>4. DomainsKept(req[r])'
  BY <1>0, <1>2 DEF Tidy, DomainsKept, DomainPoints, RowAddress, VmRow
<1>5. SubjectsKept(req[r])'
  BY <1>0, <1>2 DEF Tidy, SubjectsKept, SubjectRow, VmsOf, OwnVlanPoints, RowGonePoints
<1>6. MarksKept(req[r])'
  BY <1>0, <1>2 DEF Tidy, MarksKept, SubjectRow
<1>7. VlansKept(req[r])'
  BY <1>0, <1>2 DEF Tidy, VlansKept
<1>8. PeersKept(req[r])'
  BY <1>0, <1>2 DEF Tidy, PeersKept, PeerOfRow, RowAddress, VmRow, OwnRowPoints,
     CreatePoints
<1> QED BY <1>2, <1>4, <1>5, <1>6, <1>7, <1>8 DEF Tidy

(* The VLAN of the subject a request works for is nobody else's.            *)
LEMMA OwnVlan ==
  ASSUME TypeInv, RowsInv, NEW r \in Request, ReadsOK(req[r]),
         req[r].pc \in (OwnRowPoints \ {"cRow", "cVlan"}) \cup RowGonePoints
  PROVE  /\ req[r].subject \in Subject /\ SubjectRow(req[r].subject)
         /\ req[r].vlan = vlanOf[req[r].subject]
         /\ Owners(req[r].vlan) = {req[r].subject}
<1>1. req[r].subject \in Subject
  BY DEF TypeInv, RequestsOK, RequestOK, RequestRecord, OwnRowPoints, RowGonePoints,
     CreatePoints, InstanceHeld
<1>2. SubjectRow(req[r].subject) /\ req[r].vlan = vlanOf[req[r].subject]
  BY DEF ReadsOK, SubjectRead, RowWritten, RowDeleted, OwnRowPoints, RowGonePoints
<1> QED BY <1>1, <1>2 DEF Owners, RowsInv, UniqueVlans

(* The steps of a handler that only read, or wait for a mutex.              *)
LEMMA TidyCreateReads ==
  ASSUME TypeInv, RowsInv, NEW r \in Request, ReadsOK(req[r]), Tidy(req[r]),
         \/ SubjectExistsById(r) \/ GetSubjectVlan(r) \/ GetFirstAvailableVlan(r)
         \/ GetVlanOwner(r) \/ GetFirstAvailableVmVlanIdentifier(r) \/ LockSource(r)
         \/ CheckVlanConfigured(r) \/ GetWireguardPublicKey(r)
  PROVE  Tidy(req[r])'
<1> USE DEF At
<1>0. /\ req[r] \in RequestRecord /\ req \in [Request -> RequestRecord] /\ RequestsOK
      /\ ~req[r].rollback
      /\ req[r].pc \in CreatePoints => req[r].subject \in Subject
  BY DEF TypeInv, TypeOK, RequestsOK, RequestOK, RequestRecord, Tidy
<1>1. UNCHANGED <<db, domain, router>>
  BY DEF SubjectExistsById, GetSubjectVlan, GetFirstAvailableVlan, GetVlanOwner,
     GetFirstAvailableVmVlanIdentifier, LockSource, CheckVlanConfigured,
     GetWireguardPublicKey
<1>2. ASSUME NEW p, Goto(r, p)
      PROVE  /\ req'[r].pc = p /\ req'[r].vm = req[r].vm /\ ~req'[r].rollback
             /\ req'[r].subject = req[r].subject
  BY <1>0, <1>2 DEF Goto, RequestRecord
<1> USE DEF WatchedPoints, OwnVlanPoints, OwnRowPoints, RowGonePoints, ReadMoves
<1>3. CASE SubjectExistsById(r)
  <2>1. req[r].pc = "cSubject" /\ req'[r].pc \in {"cSubjectVlan", "cFreeVlan"}
        /\ req'[r].vm = req[r].vm /\ ~req'[r].rollback
    BY <1>2, <1>3 DEF SubjectExistsById
  <2>2. Unwatched(r)
    BY <2>1 DEF Unwatched, CreatePoints
  <2> QED BY <1>1, <2>1, <2>2, TidyKept
<1>4. CASE GetSubjectVlan(r)
  <2>1. SubjectRow(req[r].subject) /\ req[r].pc = "cSubjectVlan"
    BY <1>4 DEF GetSubjectVlan, ReadsOK, SubjectRead
  <2>2. /\ req'[r].pc = "cOwner" /\ req'[r].vm = req[r].vm
        /\ req'[r].subject = req[r].subject /\ ~req'[r].rollback
    BY <1>0, <1>4, <2>1 DEF GetSubjectVlan, RequestRecord
  <2>3. MovesTidily(r)
    BY <2>1, <2>2 DEF MovesTidily
  <2> QED BY <1>1, <2>2, <2>3, TidyKept
<1>5. CASE GetFirstAvailableVlan(r)
  <2>1. CASE Answer(r)
    BY <1>0, <1>1, <1>5, <2>1, TidyAnswer DEF GetFirstAvailableVlan
  <2>2. CASE ~Answer(r)
    <3>1. req[r].pc = "cFreeVlan" /\ req'[r].pc = "cAddSubject"
          /\ req'[r].vm = req[r].vm /\ ~req'[r].rollback
      BY <1>0, <1>5, <2>2 DEF GetFirstAvailableVlan, RequestRecord
    <3>2. Unwatched(r)
      BY <3>1 DEF Unwatched, CreatePoints
    <3> QED BY <1>1, <3>1, <3>2, TidyKept
  <2> QED BY <2>1, <2>2
<1>6. CASE GetVlanOwner(r)
  <2>1. /\ req[r].pc = "cOwner" /\ req[r].subject \in Subject
        /\ vlanOf[req[r].subject] = req[r].configVlan
    BY <1>0, <1>6 DEF GetVlanOwner, ReadsOK, SubjectRead, CreatePoints
  <2>2. Owners(req[r].configVlan) # {}
    BY <2>1 DEF Owners
  <2>3. /\ req'[r].pc = "cIdent" /\ req'[r].vm = req[r].vm
        /\ req'[r].subject = req[r].subject /\ ~req'[r].rollback
    BY <1>0, <1>6, <2>2 DEF GetVlanOwner, RequestRecord
  <2>4. MovesTidily(r)
    BY <2>1, <2>3 DEF MovesTidily
  <2> QED BY <1>1, <2>3, <2>4, TidyKept
<1>7. CASE GetFirstAvailableVmVlanIdentifier(r)
  <2>1. CASE Cardinality(UsedIdents(req[r].owner)) = MAX_VMS_PER_VLAN
    BY <1>1, <1>7, <2>1, TidyExhausted DEF GetFirstAvailableVmVlanIdentifier
  <2>2. CASE Cardinality(UsedIdents(req[r].owner)) # MAX_VMS_PER_VLAN
    <3>1. /\ req'[r].pc = "cLock" /\ req'[r].vm = req[r].vm
          /\ req'[r].subject = req[r].subject /\ ~req'[r].rollback
      BY <1>0, <1>7, <2>2 DEF GetFirstAvailableVmVlanIdentifier, RequestRecord
    <3>2. MovesTidily(r)
      BY <1>7, <3>1 DEF MovesTidily, GetFirstAvailableVmVlanIdentifier
    <3> QED BY <1>1, <3>1, <3>2, TidyKept
  <2> QED BY <2>1, <2>2
<1>8. CASE LockSource(r)
  <2>1. MovesTidily(r) /\ ~req'[r].rollback
    BY <1>2, <1>8 DEF LockSource, MovesTidily
  <2> QED BY <1>1, <2>1, TidyKept
<1>9. CASE CheckVlanConfigured(r)
  <2>1. req[r].pc = "vcCheck" /\ Owners(req[r].vlan) = {req[r].subject}
    BY <1>9, OwnVlan DEF CheckVlanConfigured
  <2>2. Goto(r, IF req[r].subject \in configured THEN "cKey" ELSE "vcApply")
    BY <1>9, <2>1 DEF CheckVlanConfigured
  <2>3. CASE req[r].subject \in configured
    BY <1>1, <1>2, <2>1, <2>2, <2>3, TidyMarked
  <2>4. CASE req[r].subject \notin configured
    <3>1. MovesTidily(r) /\ ~req'[r].rollback
      BY <1>2, <2>1, <2>2, <2>4 DEF MovesTidily
    <3> QED BY <1>1, <3>1, TidyKept
  <2> QED BY <2>3, <2>4
<1>10. CASE GetWireguardPublicKey(r)
  <2>1. /\ req[r].pc = "cKey" /\ req[r].subject \in configured
        /\ req[r].vlan = vlanOf[req[r].subject]
    BY <1>10, OwnVlan DEF GetWireguardPublicKey, ReadsOK, RowWritten
  <2>2. req[r].vlan \in wireguards
    BY <2>1 DEF Tidy, VlansKept
  <2>3. MovesTidily(r) /\ ~req'[r].rollback
    BY <1>2, <1>10, <2>2 DEF GetWireguardPublicKey, MovesTidily
  <2> QED BY <1>1, <2>3, TidyKept
<1> QED BY <1>3, <1>4, <1>5, <1>6, <1>7, <1>8, <1>9, <1>10

LEMMA TidyDeleteReads ==
  ASSUME TypeInv, RowsInv, NEW r \in Request, ReadsOK(req[r]), Tidy(req[r]),
         \/ GetVlanByVmId(r) \/ CheckDeletable(r) \/ VmIsLastInstanceInSubject(r)
         \/ GetVmMutex(r) \/ LockInstance(r) \/ ReadSubjectAndIdent(r)
         \/ DeleteVmMutex(r) \/ CheckVlanRemovable(r) \/ RelockSource(r)
  PROVE  Tidy(req[r])'
<1> USE DEF At
<1>0. /\ req[r] \in RequestRecord /\ req \in [Request -> RequestRecord] /\ RequestsOK
      /\ ~req[r].rollback
      /\ req[r].pc \in CreatePoints => req[r].subject \in Subject
      /\ req[r].pc \in RowReadPoints => req[r].subject \in Subject
  BY DEF TypeInv, TypeOK, RequestsOK, RequestOK, RequestRecord, Tidy, RowReadPoints,
     InstanceHeld
<1>1. UNCHANGED <<db, domain, router>>
  BY DEF GetVlanByVmId, CheckDeletable, VmIsLastInstanceInSubject, GetVmMutex,
     LockInstance, ReadSubjectAndIdent, DeleteVmMutex, CheckVlanRemovable, RelockSource
<1>2. ASSUME NEW p, Goto(r, p)
      PROVE  /\ req'[r].pc = p /\ req'[r].vm = req[r].vm /\ ~req'[r].rollback
             /\ req'[r].subject = req[r].subject
  BY <1>0, <1>2 DEF Goto, RequestRecord
<1> USE DEF WatchedPoints, OwnVlanPoints, OwnRowPoints, RowGonePoints, ReadMoves
<1>3. CASE GetVlanByVmId(r) /\ req[r].pc = "cRow"
  <2>1. /\ vmSubject[req[r].vm] = req[r].subject /\ VmRow(req[r].vm)
    BY <1>0, <1>3, NoneAssumption DEF ReadsOK, RowWritten, CreatePoints, VmRow
  <2>2. /\ req'[r].pc = "cVlan" /\ req'[r].vm = req[r].vm
        /\ req'[r].subject = req[r].subject /\ ~req'[r].rollback
    BY <1>0, <1>3, <2>1 DEF GetVlanByVmId, ReadVmSubject, RequestRecord
  <2>3. MovesTidily(r)
    BY <1>3, <2>2 DEF MovesTidily
  <2> QED BY <1>1, <2>2, <2>3, TidyKept
<1>4. CASE GetVlanByVmId(r) /\ req[r].pc = "cVlan"
  <2>1. SubjectRow(req[r].subject)
    BY <1>4 DEF ReadsOK, SubjectRead
  <2>2. /\ req'[r].pc = "vcCheck" /\ req'[r].vm = req[r].vm
        /\ req'[r].subject = req[r].subject /\ ~req'[r].rollback
    BY <1>0, <1>4, <2>1 DEF GetVlanByVmId, ReadSubjectVlan, RequestRecord
  <2>3. MovesTidily(r)
    BY <1>4, <2>2 DEF MovesTidily
  <2> QED BY <1>1, <2>2, <2>3, TidyKept
<1>5. CASE /\ Answer(r)
           /\ \/ CheckDeletable(r)
              \/ GetVlanByVmId(r) /\ req[r].pc \notin {"cRow", "cVlan"}
              \/ VmIsLastInstanceInSubject(r)
  <2>1. req[r].pc \notin WatchedPoints
    BY <1>5 DEF CheckDeletable, GetVlanByVmId, VmIsLastInstanceInSubject
  <2> QED BY <1>0, <1>1, <1>5, <2>1, TidyAnswer
<1>6. CASE /\ ~Answer(r)
           /\ \/ CheckDeletable(r)
              \/ GetVlanByVmId(r) /\ req[r].pc \notin {"cRow", "cVlan"}
              \/ VmIsLastInstanceInSubject(r)
  <2>1. /\ req[r].pc \in {"dExists", "dSubject", "dVlan", "dLastSubject", "dLastCount"}
        /\ req'[r].pc \in {"dSubject", "dVlan", "dLastSubject", "dLastCount", "dMutex"}
        /\ ~req'[r].rollback
    <3>1. CASE CheckDeletable(r)
      BY <1>2, <1>6, <3>1 DEF CheckDeletable
    <3>2. CASE GetVlanByVmId(r) /\ req[r].pc \notin {"cRow", "cVlan"}
      BY <1>0, <1>6, <3>2 DEF GetVlanByVmId, ReadVmSubject, ReadSubjectVlan, RequestRecord
    <3>3. CASE VmIsLastInstanceInSubject(r)
      BY <1>0, <1>6, <3>3 DEF VmIsLastInstanceInSubject, ReadVmSubject, RequestRecord
    <3> QED BY <1>6, <3>1, <3>2, <3>3
  <2>2. Unwatched(r)
    BY <2>1 DEF Unwatched, CreatePoints
  <2> QED BY <1>1, <2>1, <2>2, TidyKept
<1>7. CASE GetVmMutex(r) \/ LockInstance(r)
  <2>1. /\ req[r].pc \in {"dMutex", "dLock"} /\ req'[r].pc \in {"dLock", "dAgents"}
        /\ ~req'[r].rollback
    BY <1>2, <1>7 DEF GetVmMutex, LockInstance
  <2>2. Unwatched(r)
    BY <2>1 DEF Unwatched, CreatePoints
  <2> QED BY <1>1, <2>1, <2>2, TidyKept
<1>8. CASE ReadSubjectAndIdent(r)
  <2>1. req[r].pc = "dRow" /\ vmSubject[req[r].vm] = req[r].subject /\ VmRow(req[r].vm)
    BY <1>0, <1>8, NoneAssumption DEF ReadSubjectAndIdent, ReadsOK, RowRead,
       RowReadPoints, VmRow
  <2>2. /\ req'[r].pc = "dDelete" /\ req'[r].vm = req[r].vm
        /\ req'[r].subject = req[r].subject /\ ~req'[r].rollback
    BY <1>0, <1>8, <2>1 DEF ReadSubjectAndIdent, RequestRecord
  <2>3. MovesTidily(r)
    BY <2>1, <2>2 DEF MovesTidily
  <2> QED BY <1>1, <2>2, <2>3, TidyKept
<1>9. CASE DeleteVmMutex(r)
  <2>1. /\ req[r].pc = "dForget" /\ req'[r] = [req[r] EXCEPT !.pc = "dPeer", !.stale = TRUE]
    BY <1>0, <1>9 DEF DeleteVmMutex
  <2>2. /\ req'[r].pc = "dPeer" /\ req'[r].vm = req[r].vm
        /\ req'[r].vlan = req[r].vlan /\ req'[r].ident = req[r].ident
        /\ req'[r].subject = req[r].subject /\ ~req'[r].rollback
    BY <1>0, <2>1 DEF RequestRecord
  <2>3. MovesTidily(r)
    BY <2>1, <2>2 DEF MovesTidily
  <2> QED BY <1>1, <2>2, <2>3, TidyKept
<1>10. CASE CheckVlanRemovable(r)
  <2>1. /\ req[r].pc = "vdCheck" /\ Owners(req[r].vlan) = {req[r].subject}
        /\ req[r].subject \in Subject /\ SubjectRow(req[r].subject)
    BY <1>10, OwnVlan DEF CheckVlanRemovable
  <2>2. req[r].subject \in configured
    BY <2>1 DEF Tidy, MarksKept, MarkPoints
  <2>3. Goto(r, "vdRemove")
    BY <1>10, <2>1, <2>2 DEF CheckVlanRemovable
  <2>4. MovesTidily(r) /\ ~req'[r].rollback
    BY <1>2, <2>1, <2>3 DEF MovesTidily
  <2> QED BY <1>1, <2>4, TidyKept
<1>11. CASE RelockSource(r)
  BY <1>11 DEF RelockSource, Tidy
<1> QED BY <1>3, <1>4, <1>5, <1>6, <1>7, <1>8, <1>9, <1>10, <1>11

(* A subject without instances comes and goes: the rows' addresses stay.    *)
LEMMA AddressesStay ==
  ASSUME TypeInv, RowsInv, NEW r \in Request,
         \/ AddSubject(r) /\ ~SubjectRow(req[r].subject)
         \/ DeleteSubject(r) /\ VmsOf(req[r].subject) = {}
  PROVE  \A v \in Vm : /\ VmRow(v)' = VmRow(v)
                       /\ RowAddress(v)' = RowAddress(v)
                       /\ PeerOfRow(v)' = PeerOfRow(v)
<1> TAKE v \in Vm
<1>0. vlanOf \in [Subject -> Nat] /\ vmSubject \in [Vm -> Subject \cup {None}]
  BY DEF TypeInv, TypeOK
<1>1. vmSubject' = vmSubject /\ vmIdent' = vmIdent
  BY DEF AddSubject, DeleteSubject
<1>2. VmRow(v) => vmSubject[v] \in Subject /\ SubjectRow(vmSubject[v])
  BY <1>0 DEF VmRow, RowsInv, ForeignKey
<1>3. VmRow(v) => vmSubject[v] # req[r].subject
  BY <1>2 DEF VmsOf
<1>4. VmRow(v) => vlanOf'[vmSubject[v]] = vlanOf[vmSubject[v]]
  BY <1>0, <1>2, <1>3 DEF AddSubject, DeleteSubject
<1>5. VmRow(v)' = VmRow(v) /\ RowAddress(v)' = RowAddress(v)
  BY <1>1, <1>4 DEF VmRow, RowAddress
<1> QED BY <1>5 DEF PeerOfRow

LEMMA TidyAddSubject ==
  ASSUME TypeInv, RowsInv, NEW r \in Request, ReadsOK(req[r]), Tidy(req[r]), AddSubject(r)
  PROVE  Tidy(req[r])'
<1> DEFINE s == req[r].subject
<1>0. /\ req[r] \in RequestRecord /\ req \in [Request -> RequestRecord]
      /\ req[r].pc = "cAddSubject" /\ s \in Subject
      /\ vlanOf \in [Subject -> Nat]
  BY DEF TypeInv, TypeOK, RequestsOK, RequestOK, RequestRecord, CreatePoints, AddSubject, At
<1>1. CanAddSubject(s, req[r].configVlan) /\ ~SubjectRow(s)
  BY <1>0 DEF ReadsOK, SubjectRead, CanAddSubject
<1>2. /\ req'[r].pc = "cOwner" /\ req'[r].vm = req[r].vm
      /\ req'[r].subject = s /\ ~req'[r].rollback
      /\ vlanOf' = [vlanOf EXCEPT ![s] = req[r].configVlan]
      /\ configured' = configured \ {s}
      /\ UNCHANGED <<vmSubject, vmIdent, domain, wireguards, peers>>
  BY <1>0, <1>1 DEF AddSubject, Goto, RequestRecord, Tidy, router
<1>3. s \notin configured /\ VmsOf(s) = {}
  <2>1. \A v \in VmsOf(s) : VmRow(v)
    BY <1>0, NoneAssumption DEF VmsOf, VmRow
  <2> QED BY <1>1, <2>1 DEF Tidy, MarksKept, VmsOf, RowsInv, ForeignKey
<1>4. \A t \in Subject \ {s} : vlanOf'[t] = vlanOf[t] /\ SubjectRow(t)' = SubjectRow(t)
  BY <1>0, <1>2 DEF SubjectRow
<1>5. \A t : VmsOf(t)' = VmsOf(t)
  BY <1>2 DEF VmsOf
<1>6. DomainsKept(req[r])'
  BY <1>0, <1>1, <1>2, AddressesStay DEF Tidy, DomainsKept, DomainPoints
<1>7. SubjectsKept(req[r])'
  BY <1>0, <1>2, <1>4, <1>5 DEF Tidy, SubjectsKept, OwnVlanPoints, RowGonePoints
<1>8. MarksKept(req[r])'
  <2>1. \A t \in configured' : SubjectRow(t)'
    BY <1>0, <1>2, <1>4 DEF Tidy, MarksKept, TypeInv, TypeOK
  <2>2. ASSUME NEW t \in Subject, SubjectRow(t)', t \notin configured'
        PROVE  t = s
    BY <1>0, <1>2, <1>4, <2>2 DEF Tidy, MarksKept, MarkPoints, OwnVlanPoints
  <2> QED BY <1>2, <1>3, <1>5, <2>1, <2>2 DEF MarksKept, OwnVlanPoints
<1>9. VlansKept(req[r])'
  <2>1. configured' = configured /\ configured \subseteq Subject \ {s}
    BY <1>2, <1>3 DEF TypeInv, TypeOK
  <2> QED BY <1>0, <1>2, <1>4, <2>1 DEF Tidy, VlansKept
<1>10. PeersKept(req[r])'
  <2>1. \A p \in peers : p[3] \in Vm
    BY DEF TypeInv, TypeOK
  <2> QED BY <1>0, <1>1, <1>2, <2>1, AddressesStay DEF Tidy, PeersKept, OwnRowPoints,
             CreatePoints
<1> QED BY <1>2, <1>6, <1>7, <1>8, <1>9, <1>10 DEF Tidy

(* The agents' domain comes before the row ...                              *)
LEMMA TidyAgentCreate ==
  ASSUME TypeInv, NEW r \in Request, Tidy(req[r]), AgentCreate(r)
  PROVE  Tidy(req[r])'
<1>0. /\ req[r] \in RequestRecord /\ req \in [Request -> RequestRecord]
      /\ req[r].pc = "cAgent" /\ domain \in [Vm -> Nat \X Nat]
  BY DEF TypeInv, TypeOK, AgentCreate, At
<1>1. /\ req'[r].pc = "cAddVm" /\ req'[r].vm = req[r].vm
      /\ req'[r].subject = req[r].subject /\ ~req'[r].rollback
      /\ \A v \in Vm : v # req[r].vm => domain'[v] = domain[v]
      /\ UNCHANGED <<vlanOf, configured, vmSubject, vmIdent, wireguards, peers>>
  BY <1>0 DEF AgentCreate, Goto, RequestRecord, Tidy, db, router
<1>2. DomainsKept(req[r])'
  BY <1>0, <1>1 DEF Tidy, DomainsKept, DomainPoints, RowAddress, VmRow
<1>3. SubjectsKept(req[r])'
  BY <1>0, <1>1 DEF Tidy, SubjectsKept, SubjectRow, VmsOf, OwnVlanPoints
<1>4. MarksKept(req[r])'
  BY <1>0, <1>1 DEF Tidy, MarksKept, SubjectRow, VmsOf, OwnVlanPoints, MarkPoints
<1>5. VlansKept(req[r])'
  BY <1>0, <1>1 DEF Tidy, VlansKept
<1>6. PeersKept(req[r])'
  BY <1>0, <1>1 DEF Tidy, PeersKept, PeerOfRow, RowAddress, VmRow, OwnRowPoints,
     CreatePoints
<1> QED BY <1>1, <1>2, <1>3, <1>4, <1>5, <1>6 DEF Tidy

(* ... and agrees with it when it is there.                                 *)
LEMMA TidyAddVm ==
  ASSUME TypeInv, Newborn, NEW r \in Request, ReadsOK(req[r]), Tidy(req[r]), AddVm(r)
  PROVE  Tidy(req[r])'
<1> DEFINE s == req[r].subject  v == req[r].vm
<1>0. /\ req[r] \in RequestRecord /\ req \in [Request -> RequestRecord]
      /\ req[r].pc = "cAddVm" /\ s \in Subject /\ v \in Vm
      /\ vmSubject \in [Vm -> Subject \cup {None}] /\ vmIdent \in [Vm -> Nat]
      /\ peers \subseteq Nat \X Nat \X Vm
  BY DEF TypeInv, TypeOK, RequestsOK, RequestOK, RequestRecord, CreatePoints, AddVm, At
<1>1. /\ CanAddVm(s, req[r].ident) /\ vlanOf[s] = req[r].configVlan
      /\ domain[v] = <<req[r].configVlan, req[r].ident>>
  BY <1>0 DEF ReadsOK, SubjectRead, RowWritten, OwnVlanPoints
<1>2. /\ req'[r].pc = "cRow" /\ req'[r].vm = v
      /\ req'[r].subject = s /\ ~req'[r].rollback
      /\ vmSubject' = [vmSubject EXCEPT ![v] = s]
      /\ vmIdent' = [vmIdent EXCEPT ![v] = req[r].ident]
      /\ UNCHANGED <<vlanOf, configured, domain, wireguards, peers>>
  BY <1>0, <1>1 DEF AddVm, Goto, RequestRecord, Tidy, router
<1>3. \A w \in Vm \ {v} : /\ VmRow(w)' = VmRow(w) /\ RowAddress(w)' = RowAddress(w)
                          /\ PeerOfRow(w)' = PeerOfRow(w)
  <2> TAKE w \in Vm \ {v}
  <2>1. vmSubject'[w] = vmSubject[w] /\ vmIdent'[w] = vmIdent[w]
    BY <1>0, <1>2
  <2>2. VmRow(w)' = VmRow(w) /\ RowAddress(w)' = RowAddress(w)
    BY <1>2, <2>1 DEF VmRow, RowAddress
  <2> QED BY <2>2 DEF PeerOfRow
<1>4. VmRow(v)' /\ RowAddress(v)' = domain[v]
  <2>1. vmSubject'[v] = s /\ vmIdent'[v] = req[r].ident
    BY <1>0, <1>2
  <2> QED BY <1>0, <1>1, <1>2, <2>1, NoneAssumption DEF VmRow, RowAddress
<1>5. VmsOf(s)' # {} /\ \A t \in Subject \ {s} : VmsOf(t)' = {} => VmsOf(t) = {}
  <2>1. v \in VmsOf(s)'
    BY <1>0, <1>2 DEF VmsOf
  <2>2. ASSUME NEW t \in Subject \ {s}, NEW w \in VmsOf(t), VmsOf(t)' = {}
        PROVE  FALSE
    <3>1. v # w => w \in VmsOf(t)'
      BY <1>0, <1>2 DEF VmsOf
    <3>2. v = w
      BY <2>2, <3>1
    <3> QED BY <1>0, <3>2, NoneAssumption DEF VmsOf, VmRow, Newborn, NewbornPoints
  <2> QED BY <2>1, <2>2
<1>6. DomainsKept(req[r])'
  BY <1>0, <1>2, <1>3, <1>4 DEF Tidy, DomainsKept
<1>7. SubjectsKept(req[r])'
  BY <1>0, <1>2, <1>5 DEF Tidy, SubjectsKept, SubjectRow
<1>8. MarksKept(req[r])'
  BY <1>0, <1>2 DEF Tidy, MarksKept, SubjectRow, MarkPoints
<1>9. VlansKept(req[r])'
  BY <1>0, <1>2 DEF Tidy, VlansKept
<1>10. PeersKept(req[r])'
  <2>1. \A p \in peers : p[3] \in Vm \ {v}
    BY <1>0 DEF Tidy, PeersKept, CreatePoints
  <2> QED BY <1>0, <1>2, <1>3, <2>1 DEF Tidy, PeersKept, OwnRowPoints
<1> QED BY <1>2, <1>6, <1>7, <1>8, <1>9, <1>10 DEF Tidy

(* The VLAN is on the router, and then marked.                              *)
LEMMA TidyApplyVlan ==
  ASSUME TypeInv, RowsInv, NEW r \in Request, ReadsOK(req[r]), Tidy(req[r]),
         ApplyVlanConfig(r)
  PROVE  Tidy(req[r])'
<1>0. /\ req[r] \in RequestRecord /\ req \in [Request -> RequestRecord]
      /\ req[r].pc = "vcApply" /\ req[r].subject \notin configured
      /\ configured \subseteq Subject
  BY DEF TypeInv, TypeOK, ApplyVlanConfig, At, ReadsOK, RowWritten
<1>1. req[r].vlan \notin wireguards
  <2>1. req[r].vlan = vlanOf[req[r].subject] /\ req[r].subject \in Subject
    BY <1>0, OwnVlan DEF OwnRowPoints
  <2>2. \A s \in configured : vlanOf[s] # req[r].vlan
    BY <1>0, <2>1 DEF Tidy, MarksKept, RowsInv, UniqueVlans
  <2> QED BY <1>0, <2>2 DEF Tidy, VlansKept
<1>2. /\ req'[r].pc = "vcSet" /\ req'[r].vm = req[r].vm /\ req'[r].vlan = req[r].vlan
      /\ req'[r].subject = req[r].subject /\ ~req'[r].rollback
      /\ wireguards' = wireguards \cup {req[r].vlan}
      /\ UNCHANGED <<vlanOf, configured, vmSubject, vmIdent, domain, peers>>
  BY <1>0, <1>1 DEF ApplyVlanConfig, Goto, RequestRecord, Tidy, db
<1>3. DomainsKept(req[r])'
  BY <1>0, <1>2 DEF Tidy, DomainsKept, DomainPoints, RowAddress, VmRow
<1>4. SubjectsKept(req[r])'
  BY <1>0, <1>2 DEF Tidy, SubjectsKept, SubjectRow, VmsOf, OwnVlanPoints, RowGonePoints
<1>5. MarksKept(req[r])'
  BY <1>0, <1>2 DEF Tidy, MarksKept, SubjectRow, VmsOf, OwnVlanPoints, MarkPoints
<1>6. VlansKept(req[r])'
  BY <1>0, <1>2 DEF Tidy, VlansKept
<1>7. PeersKept(req[r])'
  BY <1>0, <1>2 DEF Tidy, PeersKept, PeerOfRow, RowAddress, VmRow, OwnRowPoints,
     CreatePoints
<1> QED BY <1>2, <1>3, <1>4, <1>5, <1>6, <1>7 DEF Tidy

LEMMA TidySetVlan ==
  ASSUME TypeInv, RowsInv, NEW r \in Request, ReadsOK(req[r]), Tidy(req[r]),
         SetVlanAsConfigured(r)
  PROVE  Tidy(req[r])'
<1>0. /\ req[r] \in RequestRecord /\ req \in [Request -> RequestRecord]
      /\ req[r].pc = "vcSet"
  BY DEF TypeInv, TypeOK, SetVlanAsConfigured, At
<1>1. /\ SubjectRow(req[r].subject) /\ req[r].vlan = vlanOf[req[r].subject]
      /\ Owners(req[r].vlan) = {req[r].subject}
  BY <1>0, OwnVlan DEF OwnRowPoints
<1>2. /\ req'[r].pc = "cKey" /\ req'[r].vm = req[r].vm
      /\ req'[r].subject = req[r].subject /\ ~req'[r].rollback
      /\ configured' = configured \cup {req[r].subject}
      /\ UNCHANGED <<vlanOf, vmSubject, vmIdent, domain, wireguards, peers>>
  BY <1>0, <1>1 DEF SetVlanAsConfigured, Goto, RequestRecord, Tidy, router
<1>3. DomainsKept(req[r])'
  BY <1>0, <1>2 DEF Tidy, DomainsKept, DomainPoints, RowAddress, VmRow
<1>4. SubjectsKept(req[r])'
  BY <1>0, <1>2 DEF Tidy, SubjectsKept, SubjectRow, VmsOf, OwnVlanPoints, RowGonePoints
<1>5. MarksKept(req[r])'
  BY <1>0, <1>1, <1>2 DEF Tidy, MarksKept, SubjectRow
<1>6. VlansKept(req[r])'
  BY <1>0, <1>1, <1>2 DEF Tidy, VlansKept
<1>7. PeersKept(req[r])'
  BY <1>0, <1>2 DEF Tidy, PeersKept, PeerOfRow, RowAddress, VmRow, OwnRowPoints,
     CreatePoints
<1> QED BY <1>2, <1>3, <1>4, <1>5, <1>6, <1>7 DEF Tidy

(* The peer of a recorded instance, and of nobody else, has its name.       *)
LEMMA NamedByRow ==
  ASSUME TypeInv, RowsInv, NEW r \in Request, ReadsOK(req[r]), Tidy(req[r]),
         req[r].pc \in {"cPeer", "dPeer"},
         NEW p \in PeersNamed(req[r].vlan, req[r].ident)
  PROVE  req[r].pc = "dPeer" /\ p = <<req[r].vlan, req[r].ident, req[r].vm>>
<1> DEFINE s == req[r].subject  v == p[3]
<1>1. p \in peers /\ v \in Vm /\ p[1] = req[r].vlan /\ p[2] = req[r].ident
  BY DEF PeersNamed, TypeInv, TypeOK
<1>2. s \in Subject /\ req[r].vlan = vlanOf[s]
  BY OwnVlan DEF OwnRowPoints, RowGonePoints
<1> SUFFICES ASSUME VmRow(v), p = PeerOfRow(v) PROVE FALSE
  BY <1>1 DEF Tidy, PeersKept
<1>3. p = <<vlanOf[vmSubject[v]], vmIdent[v], v>>
  BY PeerOf DEF PeerOfRow, RowAddress
<1>4. vlanOf[vmSubject[v]] = vlanOf[s] /\ vmIdent[v] = req[r].ident
  BY <1>1, <1>2, <1>3
<1>5. vmSubject[v] \in Subject /\ SubjectRow(vmSubject[v])
  BY <1>1 DEF TypeInv, TypeOK, VmRow, RowsInv, ForeignKey
<1>6. vmSubject[v] = s
  BY <1>2, <1>4, <1>5 DEF RowsInv, UniqueVlans
<1>7. CASE req[r].pc = "cPeer"
  <2>1. /\ vmSubject[req[r].vm] = s /\ vmIdent[req[r].vm] = req[r].ident
        /\ req[r].vm \in Vm
    BY <1>7 DEF ReadsOK, RowWritten, OwnRowPoints, CreatePoints, TypeInv, RequestsOK,
       RequestOK, RequestRecord
  <2>2. v = req[r].vm
    BY <1>1, <1>4, <1>6, <2>1 DEF RowsInv, UniqueIdents
  <2> QED BY <1>1, <1>7, <2>2 DEF Tidy, PeersKept, CreatePoints
<1>8. CASE req[r].pc = "dPeer"
  BY <1>1, <1>4, <1>6, <1>8 DEF ReadsOK, RowDeleted, VmsOf
<1> QED BY <1>7, <1>8

LEMMA TidyApplyVm ==
  ASSUME TypeInv, RowsInv, NEW r \in Request, ReadsOK(req[r]), Tidy(req[r]),
         ApplyVmConfig(r)
  PROVE  Tidy(req[r])'
<1> DEFINE v == req[r].vm
<1>0. /\ RequestsOK /\ req[r].pc = "cPeer" /\ v \in Vm /\ ~req[r].rollback
      /\ peers \subseteq Nat \X Nat \X Vm
  BY DEF TypeInv, TypeOK, RequestsOK, RequestOK, RequestRecord, CreatePoints, ApplyVmConfig,
     At, Tidy
<1>1. PeersNamed(req[r].vlan, req[r].ident) = {}
  BY <1>0, NamedByRow
<1>2. /\ req[r].subject \in configured /\ vmSubject[v] = req[r].subject
      /\ vmIdent[v] = req[r].ident /\ req[r].vlan = vlanOf[req[r].subject]
      /\ req[r].subject \in Subject
  BY <1>0, OwnVlan DEF ReadsOK, RowWritten, OwnRowPoints
<1>3. req[r].vlan \in wireguards
  BY <1>0, <1>2 DEF Tidy, VlansKept
<1>4. /\ Answer(r)
      /\ peers' = peers \cup {<<req[r].vlan, req[r].ident, v>>}
      /\ UNCHANGED <<vlanOf, configured, vmSubject, vmIdent, domain, wireguards>>
  BY <1>1, <1>3 DEF ApplyVmConfig, db
<1>5. req'[r].pc = "idle" /\ ~req'[r].rollback
  BY <1>0, <1>4, AnswerIdle
<1>6. DomainsKept(req[r])'
  BY <1>0, <1>4 DEF Tidy, DomainsKept, DomainPoints, RowAddress, VmRow
<1>7. SubjectsKept(req[r])'
  BY <1>0, <1>4 DEF Tidy, SubjectsKept, SubjectRow, VmsOf, OwnVlanPoints, RowGonePoints
<1>8. MarksKept(req[r])'
  BY <1>0, <1>4 DEF Tidy, MarksKept, SubjectRow, OwnVlanPoints, MarkPoints
<1>9. VlansKept(req[r])'
  BY <1>0, <1>4, <1>5 DEF Tidy, VlansKept
<1>10. PeersKept(req[r])'
  <2>1. \A w : VmRow(w)' = VmRow(w) /\ PeerOfRow(w)' = PeerOfRow(w)
    BY <1>4 DEF VmRow, RowAddress, PeerOfRow
  <2>2. VmRow(v) /\ PeerOfRow(v) = <<req[r].vlan, req[r].ident, v>>
    BY <1>2, NoneAssumption, PeerOf DEF VmRow, PeerOfRow, RowAddress
  <2>3. \A p \in peers : VmRow(p[3]) /\ p = PeerOfRow(p[3])
    BY <1>0 DEF Tidy, PeersKept
  <2>4. <<req[r].vlan, req[r].ident, v>>[3] = v
    OBVIOUS
  <2>5. \A w \in Vm : VmRow(w) => PeerOfRow(w) \in peers'
    BY <1>0, <1>4, <2>2 DEF Tidy, PeersKept
  <2>6. \A p \in peers' : VmRow(p[3])' /\ p = PeerOfRow(p[3])'
    BY <1>4, <2>1, <2>2, <2>3, <2>4
  <2> QED BY <1>5, <2>1, <2>5, <2>6 DEF PeersKept, CreatePoints
<1> QED BY <1>5, <1>6, <1>7, <1>8, <1>9, <1>10 DEF Tidy

(* A delete takes the domain, then the row ...                              *)
LEMMA TidyAgentsDelete ==
  ASSUME TypeInv, NEW r \in Request, Tidy(req[r]), AgentsDelete(r)
  PROVE  Tidy(req[r])'
<1>0. /\ req[r] \in RequestRecord /\ req \in [Request -> RequestRecord]
      /\ req[r].pc = "dAgents" /\ domain \in [Vm -> Nat \X Nat]
  BY DEF TypeInv, TypeOK, AgentsDelete, At
<1>1. /\ req'[r].pc = "dRow" /\ req'[r].vm = req[r].vm /\ ~req'[r].rollback
      /\ \A v \in Vm : v # req[r].vm => domain'[v] = domain[v]
      /\ UNCHANGED <<vlanOf, configured, vmSubject, vmIdent, wireguards, peers>>
  BY <1>0 DEF AgentsDelete, Goto, RequestRecord, Tidy, db, router
<1>2. DomainsKept(req[r])'
  BY <1>0, <1>1 DEF Tidy, DomainsKept, DomainPoints, RowAddress, VmRow
<1>3. SubjectsKept(req[r])'
  BY <1>0, <1>1 DEF Tidy, SubjectsKept, SubjectRow, VmsOf, OwnVlanPoints, RowGonePoints
<1>4. MarksKept(req[r])'
  BY <1>0, <1>1 DEF Tidy, MarksKept, SubjectRow, OwnVlanPoints, MarkPoints
<1>5. VlansKept(req[r])'
  BY <1>0, <1>1 DEF Tidy, VlansKept
<1>6. PeersKept(req[r])'
  BY <1>0, <1>1 DEF Tidy, PeersKept, PeerOfRow, RowAddress, VmRow, OwnRowPoints,
     CreatePoints
<1> QED BY <1>1, <1>2, <1>3, <1>4, <1>5, <1>6 DEF Tidy

LEMMA TidyDeleteVm ==
  ASSUME TypeInv, RowsInv, Swept, NEW r \in Request, ReadsOK(req[r]), Tidy(req[r]),
         DeleteVm(r)
  PROVE  Tidy(req[r])'
<1> DEFINE s == req[r].subject  v == req[r].vm
<1>0. /\ req[r] \in RequestRecord /\ req \in [Request -> RequestRecord]
      /\ req[r].pc = "dDelete" /\ s \in Subject /\ v \in Vm
      /\ vmSubject \in [Vm -> Subject \cup {None}] /\ vmIdent \in [Vm -> Nat]
      /\ peers \subseteq Nat \X Nat \X Vm
  BY DEF TypeInv, TypeOK, RequestsOK, RequestOK, RequestRecord, DeletePoints,
     InstanceHeld, DeleteVm, At
<1>1. /\ vmSubject[v] = s /\ req[r].vlan = vlanOf[s] /\ req[r].ident = vmIdent[v]
      /\ VmRow(v) /\ domain[v] = NoAddress
  BY <1>0, NoneAssumption DEF ReadsOK, RowRead, RowReadPoints, VmRow, Swept
<1>2. /\ req'[r].pc = "dForget" /\ req'[r].vm = v /\ req'[r].subject = s
      /\ req'[r].vlan = req[r].vlan /\ req'[r].ident = req[r].ident /\ ~req'[r].rollback
      /\ vmSubject' = [vmSubject EXCEPT ![v] = None]
      /\ vmIdent' = [vmIdent EXCEPT ![v] = NoIdent]
      /\ UNCHANGED <<vlanOf, configured, domain, wireguards, peers>>
  BY <1>0 DEF DeleteVm, Goto, RequestRecord, Tidy, router
<1>3. \A w \in Vm \ {v} : /\ VmRow(w)' = VmRow(w) /\ RowAddress(w)' = RowAddress(w)
                          /\ PeerOfRow(w)' = PeerOfRow(w)
  <2> TAKE w \in Vm \ {v}
  <2>1. vmSubject'[w] = vmSubject[w] /\ vmIdent'[w] = vmIdent[w]
    BY <1>0, <1>2
  <2>2. VmRow(w)' = VmRow(w) /\ RowAddress(w)' = RowAddress(w)
    BY <1>2, <2>1 DEF VmRow, RowAddress
  <2> QED BY <2>2 DEF PeerOfRow
<1>4. ~VmRow(v)' /\ RowAddress(v)' = NoAddress
  BY <1>0, <1>2 DEF VmRow, RowAddress
<1>5. DomainsKept(req[r])'
  BY <1>0, <1>1, <1>2, <1>3, <1>4 DEF Tidy, DomainsKept
<1>6. SubjectsKept(req[r])'
  <2> SUFFICES ASSUME NEW t \in Subject, SubjectRow(t), VmsOf(t)' = {} PROVE t = s
    BY <1>2 DEF SubjectsKept, SubjectRow, RowGonePoints
  <2>1. PICK w \in VmsOf(t) : TRUE
    BY <1>0 DEF Tidy, SubjectsKept, OwnVlanPoints, RowGonePoints
  <2>2. w \in Vm /\ vmSubject[w] = t /\ w \notin VmsOf(t)'
    BY <2>1 DEF VmsOf
  <2>3. w = v
    BY <1>0, <1>2, <2>2 DEF VmsOf
  <2> QED BY <1>1, <2>2, <2>3
<1>7. MarksKept(req[r])'
  BY <1>0, <1>2 DEF Tidy, MarksKept, SubjectRow, OwnVlanPoints, MarkPoints
<1>8. VlansKept(req[r])'
  BY <1>0, <1>2 DEF Tidy, VlansKept
<1>9. PeersKept(req[r])'
  <2>1. PeerOfRow(v) = <<req[r].vlan, req[r].ident, v>>
    BY <1>1, PeerOf DEF PeerOfRow, RowAddress
  <2>2. ASSUME NEW p \in peers
        PROVE  \/ VmRow(p[3])' /\ p = PeerOfRow(p[3])'
               \/ p = <<req[r].vlan, req[r].ident, v>>
    <3>1. p[3] \in Vm /\ VmRow(p[3]) /\ p = PeerOfRow(p[3])
      BY <1>0 DEF Tidy, PeersKept
    <3>2. CASE p[3] = v
      BY <2>1, <3>1, <3>2
    <3>3. CASE p[3] # v
      BY <1>3, <3>1, <3>3
    <3> QED BY <3>2, <3>3
  <2>3. ASSUME NEW w \in Vm, VmRow(w)'
        PROVE  PeerOfRow(w)' \in peers
    <3>1. w # v
      BY <1>0, <1>2, <2>3 DEF VmRow
    <3>2. VmRow(w) /\ PeerOfRow(w)' = PeerOfRow(w)
      BY <1>3, <2>3, <3>1
    <3> QED BY <1>0, <3>2 DEF Tidy, PeersKept, OwnRowPoints
  <2> QED BY <1>2, <2>2, <2>3 DEF PeersKept, CreatePoints
<1> QED BY <1>2, <1>5, <1>6, <1>7, <1>8, <1>9 DEF Tidy

(* ... and the peer, which had its name to itself.                          *)
LEMMA TidyRemoveVm ==
  ASSUME TypeInv, RowsInv, NEW r \in Request, ReadsOK(req[r]), Tidy(req[r]),
         RemoveVmConfig(r)
  PROVE  Tidy(req[r])'
<1> DEFINE peer == <<req[r].vlan, req[r].ident, req[r].vm>>
<1>0. /\ req[r] \in RequestRecord /\ req \in [Request -> RequestRecord] /\ RequestsOK
      /\ req[r].pc = "dPeer" /\ ~req[r].rollback
      /\ peers \subseteq Nat \X Nat \X Vm
      /\ UNCHANGED <<vlanOf, configured, vmSubject, vmIdent, domain, wireguards>>
  BY DEF TypeInv, TypeOK, RequestsOK, RemoveVmConfig, At, Tidy, db
<1>1. peers' = peers \ {peer}
  <2>1. \A p \in PeersNamed(req[r].vlan, req[r].ident) : p = peer
    BY <1>0, NamedByRow
  <2>2. CASE PeersNamed(req[r].vlan, req[r].ident) = {}
    <3>1. peer[1] = req[r].vlan /\ peer[2] = req[r].ident
      OBVIOUS
    <3>2. peer \notin peers
      BY <2>2, <3>1 DEF PeersNamed
    <3> QED BY <2>2, <3>2 DEF RemoveVmConfig
  <2>3. CASE PeersNamed(req[r].vlan, req[r].ident) # {}
    BY <2>1, <2>3 DEF RemoveVmConfig
  <2> QED BY <2>2, <2>3
<1>2. \/ req[r].last /\ req'[r].pc = "vdCheck" /\ req'[r].subject = req[r].subject
         /\ ~req'[r].rollback
      \/ ~req[r].last /\ req'[r].pc = "idle" /\ ~req'[r].rollback
  BY <1>0, AnswerIdle DEF RemoveVmConfig, PeerHandled, Goto, RequestRecord
<1>3. ~req[r].last => VmsOf(req[r].subject) # {}
  BY <1>0 DEF ReadsOK, RowDeleted
<1>4. DomainsKept(req[r])'
  BY <1>0 DEF Tidy, DomainsKept, DomainPoints, RowAddress, VmRow
<1>5. SubjectsKept(req[r])'
  BY <1>0, <1>2, <1>3 DEF Tidy, SubjectsKept, SubjectRow, VmsOf, RowGonePoints
<1>6. MarksKept(req[r])'
  BY <1>0 DEF Tidy, MarksKept, SubjectRow, OwnVlanPoints, MarkPoints
<1>7. VlansKept(req[r])'
  BY <1>0, <1>2 DEF Tidy, VlansKept
<1>8. PeersKept(req[r])'
  <2>1. \A v : VmRow(v)' = VmRow(v) /\ PeerOfRow(v)' = PeerOfRow(v)
    BY <1>0 DEF VmRow, RowAddress, PeerOfRow
  <2>2. \A p \in peers' : p \in peers /\ VmRow(p[3]) /\ p = PeerOfRow(p[3])
    BY <1>0, <1>1 DEF Tidy, PeersKept
  <2>3. ASSUME NEW v \in Vm, VmRow(v)
        PROVE  PeerOfRow(v) \in peers'
    <3>1. PeerOfRow(v) \in peers
      BY <1>0, <2>3 DEF Tidy, PeersKept, OwnRowPoints
    <3>2. PeerOfRow(v) # peer
      <4>1. PeerOfRow(v) = <<vlanOf[vmSubject[v]], vmIdent[v], v>>
        BY <2>3, PeerOf DEF PeerOfRow, RowAddress
      <4> SUFFICES ASSUME vlanOf[vmSubject[v]] = req[r].vlan, vmIdent[v] = req[r].ident
                   PROVE  FALSE
        BY <4>1
      <4>2. req[r].subject \in Subject /\ req[r].vlan = vlanOf[req[r].subject]
        BY <1>0, OwnVlan DEF RowGonePoints
      <4>3. vmSubject[v] = req[r].subject
        BY <2>3, <4>2 DEF RowsInv, UniqueVlans, ForeignKey, TypeInv, TypeOK, VmRow
      <4> QED BY <1>0, <4>3 DEF ReadsOK, RowDeleted, VmsOf
    <3> QED BY <1>1, <3>1, <3>2
  <2> QED BY <1>2, <2>1, <2>2, <2>3 DEF PeersKept, CreatePoints
<1> QED BY <1>2, <1>4, <1>5, <1>6, <1>7, <1>8 DEF Tidy

(* With the last instance go the VLAN and the subject.                      *)
LEMMA TidyRemoveVlan ==
  ASSUME TypeInv, RowsInv, NEW r \in Request, ReadsOK(req[r]), Tidy(req[r]),
         RemoveVlanConfig(r)
  PROVE  Tidy(req[r])'
<1>0. /\ req[r] \in RequestRecord /\ req \in [Request -> RequestRecord]
      /\ req[r].pc = "vdRemove" /\ configured \subseteq Subject
  BY DEF TypeInv, TypeOK, RemoveVlanConfig, At
<1>1. /\ req'[r].pc = "dDelSubject" /\ req'[r].subject = req[r].subject
      /\ req'[r].vlan = req[r].vlan /\ ~req'[r].rollback
      /\ wireguards' = wireguards \ {req[r].vlan}
      /\ UNCHANGED <<vlanOf, configured, vmSubject, vmIdent, domain, peers>>
  BY <1>0 DEF RemoveVlanConfig, Goto, RequestRecord, Tidy, db
<1>2. DomainsKept(req[r])'
  BY <1>0, <1>1 DEF Tidy, DomainsKept, DomainPoints, RowAddress, VmRow
<1>3. SubjectsKept(req[r])'
  BY <1>0, <1>1 DEF Tidy, SubjectsKept, SubjectRow, VmsOf, OwnVlanPoints, RowGonePoints
<1>4. MarksKept(req[r])'
  BY <1>0, <1>1 DEF Tidy, MarksKept, SubjectRow, OwnVlanPoints, MarkPoints
<1>5. VlansKept(req[r])'
  <2>1. req[r].subject \in Subject /\ req[r].vlan = vlanOf[req[r].subject]
    BY <1>0, OwnVlan DEF RowGonePoints
  <2>2. \A s \in configured : s # req[r].subject => vlanOf[s] # req[r].vlan
    BY <1>0, <2>1 DEF Tidy, MarksKept, RowsInv, UniqueVlans
  <2> QED BY <1>0, <1>1, <2>2 DEF Tidy, VlansKept
<1>6. PeersKept(req[r])'
  BY <1>0, <1>1 DEF Tidy, PeersKept, PeerOfRow, RowAddress, VmRow, OwnRowPoints,
     CreatePoints
<1> QED BY <1>1, <1>2, <1>3, <1>4, <1>5, <1>6 DEF Tidy

LEMMA TidyDeleteSubject ==
  ASSUME TypeInv, RowsInv, NEW r \in Request, ReadsOK(req[r]), Tidy(req[r]),
         DeleteSubject(r)
  PROVE  Tidy(req[r])'
<1> DEFINE s == req[r].subject
<1>0. /\ RequestsOK /\ req[r].pc = "dDelSubject" /\ ~req[r].rollback
      /\ vlanOf \in [Subject -> Nat] /\ configured \subseteq Subject
      /\ peers \subseteq Nat \X Nat \X Vm
  BY DEF TypeInv, TypeOK, DeleteSubject, At, Tidy
<1>1. VmsOf(s) = {} /\ s \in Subject /\ req[r].vlan = vlanOf[s]
  BY <1>0, OwnVlan DEF ReadsOK, RowDeleted, RowGonePoints
<1>2. /\ Answer(r)
      /\ vlanOf' = [vlanOf EXCEPT ![s] = NoVlan]
      /\ configured' = configured \ {s}
      /\ UNCHANGED <<vmSubject, vmIdent, domain, wireguards, peers>>
  BY <1>1 DEF DeleteSubject, CanDeleteSubject, router
<1>3. req'[r].pc = "idle" /\ ~req'[r].rollback
  BY <1>0, <1>2, AnswerIdle
<1>4. /\ \A t \in Subject : SubjectRow(t)' => t # s
      /\ \A t \in Subject \ {s} : vlanOf'[t] = vlanOf[t] /\ SubjectRow(t)' = SubjectRow(t)
      /\ \A t : VmsOf(t)' = VmsOf(t)
  BY <1>0, <1>1, <1>2 DEF SubjectRow, VmsOf
<1>5. DomainsKept(req[r])'
  BY <1>0, <1>1, <1>2, AddressesStay DEF Tidy, DomainsKept, DomainPoints
<1>6. SubjectsKept(req[r])'
  BY <1>0, <1>4 DEF Tidy, SubjectsKept
<1>7. MarksKept(req[r])'
  BY <1>0, <1>2, <1>4 DEF Tidy, MarksKept, OwnVlanPoints, MarkPoints
<1>8. VlansKept(req[r])'
  <2>1. \A n \in wireguards : \E t \in configured : vlanOf[t] = n /\ t # s
    BY <1>0, <1>1 DEF Tidy, VlansKept
  <2>2. \A n \in wireguards' : \E t \in configured' : vlanOf'[t] = n
    BY <1>0, <1>2, <1>4, <2>1
  <2>3. \A t \in configured' : vlanOf'[t] \in wireguards'
    BY <1>0, <1>2, <1>4 DEF Tidy, VlansKept
  <2> QED BY <1>3, <2>2, <2>3 DEF VlansKept
<1>9. PeersKept(req[r])'
  BY <1>0, <1>1, <1>2, <1>3, AddressesStay DEF Tidy, PeersKept, OwnRowPoints, CreatePoints
<1> QED BY <1>3, <1>5, <1>6, <1>7, <1>8, <1>9 DEF Tidy

(* Every step of a handler that does not fail.                              *)
LEMMA TidyWork ==
  ASSUME TypeInv, RowsInv, Newborn, Swept, NEW r \in Request, ReadsOK(req[r]),
         Tidy(req[r]), Work(r) \/ Lock(r), ~failed'
  PROVE  Tidy(req[r])'
<1>1. CASE \/ SubjectExistsById(r) \/ GetSubjectVlan(r) \/ GetFirstAvailableVlan(r)
           \/ GetVlanOwner(r) \/ GetFirstAvailableVmVlanIdentifier(r) \/ LockSource(r)
           \/ CheckVlanConfigured(r) \/ GetWireguardPublicKey(r)
  BY <1>1, TidyCreateReads
<1>2. CASE \/ GetVlanByVmId(r) \/ CheckDeletable(r) \/ VmIsLastInstanceInSubject(r)
           \/ GetVmMutex(r) \/ LockInstance(r) \/ ReadSubjectAndIdent(r)
           \/ DeleteVmMutex(r) \/ CheckVlanRemovable(r) \/ RelockSource(r)
  BY <1>2, TidyDeleteReads
<1>3. CASE AddSubject(r)
  BY <1>3, TidyAddSubject
<1>4. CASE AgentCreate(r)
  BY <1>4, TidyAgentCreate
<1>5. CASE AddVm(r)
  BY <1>5, TidyAddVm
<1>6. CASE ApplyVlanConfig(r)
  BY <1>6, TidyApplyVlan
<1>7. CASE SetVlanAsConfigured(r)
  BY <1>7, TidySetVlan
<1>8. CASE ApplyVmConfig(r)
  BY <1>8, TidyApplyVm
<1>9. CASE AgentsDelete(r)
  BY <1>9, TidyAgentsDelete
<1>10. CASE DeleteVm(r)
  BY <1>10, TidyDeleteVm
<1>11. CASE RemoveVmConfig(r)
  BY <1>11, TidyRemoveVm
<1>12. CASE RemoveVlanConfig(r)
  BY <1>12, TidyRemoveVlan
<1>13. CASE DeleteSubject(r)
  BY <1>13, TidyDeleteSubject
<1>14. ~(DbFails(r) \/ AgentFails(r) \/ RouterFails(r))
  BY DEF DbFails, AgentFails, RouterFails
<1> QED BY <1>1, <1>2, <1>3, <1>4, <1>5, <1>6, <1>7, <1>8, <1>9, <1>10, <1>11, <1>12,
           <1>13, <1>14 DEF Work, Lock

(* A request begins when all is settled.                                    *)
LEMMA TidyBegin ==
  ASSUME TypeInv, NEW r \in Request, NEW q, q.pc = "idle", Tidy(q),
         CreateInstance(r) \/ DeleteInstance(r)
  PROVE  Tidy(req[r])'
<1>0. /\ req \in [Request -> RequestRecord]
      /\ UNCHANGED <<vlanOf, configured, vmSubject, vmIdent, domain, wireguards, peers>>
  BY DEF TypeInv, TypeOK, CreateInstance, DeleteInstance, db, router
<1>1. /\ req'[r].pc \in {"cSubject", "dExists"} /\ ~req'[r].rollback
      /\ req'[r].pc = "cSubject" => \A p \in peers : p[3] # req'[r].vm
  <2>1. CASE CreateInstance(r)
    <3>1. PICK v \in Vm, s \in Subject, src \in Source :
              Fresh(v) /\ req' = [req EXCEPT ![r] = [Idle EXCEPT
                  !.pc = "cSubject", !.vm = v, !.subject = s, !.source = src]]
      BY <2>1 DEF CreateInstance
    <3>2. req'[r].pc = "cSubject" /\ req'[r].vm = v /\ ~req'[r].rollback
      BY <1>0, <3>1 DEF Idle
    <3> QED BY <3>1, <3>2 DEF Fresh
  <2>2. CASE DeleteInstance(r)
    BY <1>0, <2>2 DEF DeleteInstance, Idle
  <2> QED BY <2>1, <2>2
<1>2. DomainsKept(req[r])'
  BY <1>0 DEF Tidy, DomainsKept, DomainPoints, RowAddress, VmRow
<1>3. SubjectsKept(req[r])'
  BY <1>0 DEF Tidy, SubjectsKept, SubjectRow, VmsOf, OwnVlanPoints, RowGonePoints
<1>4. MarksKept(req[r])'
  BY <1>0 DEF Tidy, MarksKept, SubjectRow, OwnVlanPoints, MarkPoints
<1>5. VlansKept(req[r])'
  BY <1>0, <1>1 DEF Tidy, VlansKept
<1>6. PeersKept(req[r])'
  BY <1>0, <1>1 DEF Tidy, PeersKept, PeerOfRow, RowAddress, VmRow, OwnRowPoints,
     CreatePoints
<1> QED BY <1>1, <1>2, <1>3, <1>4, <1>5, <1>6 DEF Tidy

LEMMA TidyStep ==
  ASSUME TypeInv, RowsInv, Newborn, Swept, OneAtATime, OneAtATime', ReadsHold, TidyInv,
         [Next]_vars
  PROVE  TidyInv'
<1> SUFFICES ASSUME ~failed' PROVE TidyInv'
  BY DEF TidyInv
<1>0. RequestsOK /\ req \in [Request -> RequestRecord]
  BY DEF TypeInv, TypeOK
<1>1. ASSUME NEW r \in Request, Tidy(req[r])',
             \A q \in Request : q # r => req'[q].pc = "idle"
      PROVE  TidyInv'
  BY <1>1 DEF TidyInv, AtWork
<1>2. CASE UNCHANGED vars
  <2>1. PICK q \in {req[r] : r \in Request} \cup {Idle} : AtWork(q) /\ Tidy(q)
    BY <1>2 DEF TidyInv, vars
  <2>2. UNCHANGED <<vlanOf, configured, vmSubject, vmIdent, domain, wireguards, peers, req>>
    BY <1>2 DEF vars, db, router
  <2>3. DomainsKept(q)' /\ PeersKept(q)'
    BY <2>1, <2>2 DEF Tidy, DomainsKept, PeersKept, PeerOfRow, RowAddress, VmRow
  <2>4. SubjectsKept(q)' /\ MarksKept(q)' /\ VlansKept(q)'
    BY <2>1, <2>2 DEF Tidy, SubjectsKept, MarksKept, VlansKept, SubjectRow, VmsOf
  <2>5. AtWork(q)' /\ Tidy(q)'
    BY <2>1, <2>2, <2>3, <2>4 DEF Tidy, AtWork
  <2> QED BY <2>1, <2>2, <2>5 DEF TidyInv
<1>3. ASSUME NEW r \in Request, CreateInstance(r) \/ DeleteInstance(r)
      PROVE  TidyInv'
  <2>1. /\ failed' = failed /\ req[r].pc = "idle" /\ req'[r].pc # "idle"
        /\ \A q \in Request : q # r => req'[q] = req[q]
    <3>1. CASE CreateInstance(r)
      BY <1>0, <3>1 DEF CreateInstance, At, Idle
    <3>2. CASE DeleteInstance(r)
      BY <1>0, <3>2 DEF DeleteInstance, At, Idle
    <3> QED BY <1>3, <3>1, <3>2
  <2>2. \A q \in Request : q # r => req'[q].pc = "idle"
    BY <2>1 DEF OneAtATime
  <2>3. PICK q \in {req[p] : p \in Request} \cup {Idle} : Tidy(q)
    BY <2>1 DEF TidyInv
  <2>4. q.pc = "idle"
    BY <2>1, <2>2, <2>3 DEF Idle
  <2>5. Tidy(req[r])'
    BY <1>3, <2>3, <2>4, TidyBegin
  <2> QED BY <1>1, <2>2, <2>5
<1>4. ASSUME NEW r \in Request, Work(r) \/ Lock(r)
      PROVE  TidyInv'
  <2>1. ~failed
    BY <1>4, HandlerWrites DEF DbFails, AgentFails, RouterFails
  <2>2. req[r].pc # "idle"
    BY <1>4, UnderWay
  <2>3. Tidy(req[r])
    <3>1. PICK q \in {req[p] : p \in Request} \cup {Idle} : AtWork(q) /\ Tidy(q)
      BY <2>1 DEF TidyInv
    <3>2. req[r] = q
      BY <2>2, <3>1 DEF AtWork
    <3> QED BY <3>1, <3>2
  <2>4. Tidy(req[r])'
    BY <1>4, <2>3, TidyWork DEF ReadsHold
  <2>5. \A q \in Request : q # r => req'[q].pc = "idle"
    BY <1>0, <1>4, Alone
  <2> QED BY <1>1, <2>4, <2>5
<1>5. ~Crash
  BY DEF Crash
<1> QED BY <1>2, <1>3, <1>4, <1>5 DEF Next

(* All is settled between requests.                                         *)
LEMMA TidySettled ==
  ASSUME TypeInv, RowsInv, TidyInv
  PROVE  NothingLeaked
<1> SUFFICES ASSUME ~failed, \A r \in Request : req[r] = Idle
             PROVE  /\ {s \in Subject : SubjectRow(s)}
                          = {vmSubject[v] : v \in {w \in Vm : VmRow(w)}}
                    /\ wireguards = UsedVlans
                    /\ configured = {s \in Subject : SubjectRow(s)}
                    /\ \A v \in Vm : domain[v] = RowAddress(v)
                    /\ peers = {Append(RowAddress(v), v) : v \in {w \in Vm : VmRow(w)}}
  BY DEF NothingLeaked
<1>0. /\ vmSubject \in [Vm -> Subject \cup {None}] /\ configured \subseteq Subject
      /\ peers \subseteq Nat \X Nat \X Vm
  BY DEF TypeInv, TypeOK
<1>1. Tidy(Idle) /\ Idle.pc = "idle"
  BY DEF TidyInv, Idle
<1>2. {s \in Subject : SubjectRow(s)} = {vmSubject[v] : v \in {w \in Vm : VmRow(w)}}
  <2>1. ASSUME NEW s \in Subject, SubjectRow(s)
        PROVE  \E v \in Vm : VmRow(v) /\ vmSubject[v] = s
    <3>1. VmsOf(s) # {}
      BY <1>1, <2>1 DEF Tidy, SubjectsKept, OwnVlanPoints, RowGonePoints
    <3> QED BY <3>1, NoneAssumption DEF VmsOf, VmRow
  <2>2. \A v \in Vm : VmRow(v) => vmSubject[v] \in Subject /\ SubjectRow(vmSubject[v])
    BY <1>0 DEF VmRow, RowsInv, ForeignKey
  <2> QED BY <2>1, <2>2
<1>3. configured = {s \in Subject : SubjectRow(s)}
  BY <1>0, <1>1 DEF Tidy, MarksKept, OwnVlanPoints, MarkPoints
<1>4. wireguards = UsedVlans
  <2>1. \A n \in wireguards : \E s \in configured : vlanOf[s] = n
    BY <1>1 DEF Tidy, VlansKept
  <2>2. \A s \in configured : vlanOf[s] \in wireguards
    BY <1>1 DEF Tidy, VlansKept
  <2> QED BY <1>3, <2>1, <2>2 DEF UsedVlans
<1>5. \A v \in Vm : domain[v] = RowAddress(v)
  BY <1>1 DEF Tidy, DomainsKept, DomainPoints
<1>6. peers = {Append(RowAddress(v), v) : v \in {w \in Vm : VmRow(w)}}
  <2>1. \A p \in peers : p[3] \in Vm /\ VmRow(p[3]) /\ p = PeerOfRow(p[3])
    BY <1>0, <1>1 DEF Tidy, PeersKept
  <2>2. \A v \in Vm : VmRow(v) => PeerOfRow(v) \in peers
    BY <1>1 DEF Tidy, PeersKept, OwnRowPoints
  <2> QED BY <2>1, <2>2 DEF PeerOfRow
<1> QED BY <1>2, <1>3, <1>4, <1>5, <1>6

(* Requests that do not overlap, and no failure so far: between requests    *)
(* the subjects, the domains, the VLAN configurations and the peers are     *)
(* those of the recorded instances.  The steps of CreateInstance and        *)
(* DeleteInstance match: nothing is left behind and nothing is missing.     *)
THEOREM SerialNothingLeaked == Spec /\ []OneAtATime => []NothingLeaked
<1>1. Init => TidyInv
  <2> SUFFICES ASSUME Init PROVE AtWork(Idle) /\ Tidy(Idle)
    BY DEF TidyInv
  <2>1. AtWork(Idle)
    BY DEF Init, AtWork
  <2>2. ~Idle.rollback /\ Idle.pc = "idle"
    BY DEF Idle
  <2>3. \A v \in Vm : ~VmRow(v) /\ RowAddress(v) = NoAddress
    BY DEF Init, VmRow, RowAddress
  <2>4. \A s \in Subject : ~SubjectRow(s)
    BY DEF Init, SubjectRow
  <2>5. DomainsKept(Idle) /\ SubjectsKept(Idle) /\ MarksKept(Idle)
    BY <2>3, <2>4 DEF Init, DomainsKept, SubjectsKept, MarksKept
  <2>6. VlansKept(Idle) /\ PeersKept(Idle)
    BY <2>2, <2>3 DEF Init, VlansKept, PeersKept, CreatePoints
  <2> QED BY <2>1, <2>2, <2>5, <2>6 DEF Tidy
<1>2. /\ TypeInv /\ RowsInv /\ Newborn /\ Swept /\ OneAtATime /\ OneAtATime'
      /\ ReadsHold /\ TidyInv /\ [Next]_vars
      => TidyInv'
  BY TidyStep
<1>3. TypeInv /\ RowsInv /\ TidyInv => NothingLeaked
  BY TidySettled
<1> QED BY <1>1, <1>2, <1>3, TypeInvariant, NewbornInvariant, SweptInvariant,
           ReadsInvariant, PTL DEF Spec

(* With a single request they never overlap.                                *)
THEOREM OneRequestAtATime ==
  ASSUME NEW r, Request = {r}
  PROVE  Spec => [](ServedReachable /\ NothingLeaked)
<1>1. OneAtATime
  BY DEF OneAtATime
<1> QED BY <1>1, SerialServedReachable, SerialNothingLeaked, PTL

(***************************************************************************)
(* 12. The mutexes of sources, of instances and of the router.             *)
(***************************************************************************)
SourceExclusive ==
    \A q, r \in Request :
        /\ q # r
        /\ req[q].source = req[r].source
        => ~({req[q].pc, req[r].pc} \subseteq SourceHeld)

(* A source's critical section is entered by one step.                      *)
LEMMA SourceEntered ==
  ASSUME RequestsOK, NEW r \in Request, Work(r) \/ Lock(r),
         req'[r].pc \in SourceHeld
  PROVE  \/ LockSource(r)
         \/ req[r].pc \in SourceHeld /\ req'[r].source = req[r].source
<1>0. req \in [Request -> RequestRecord]
  BY DEF RequestsOK
<1> USE DEF At
<1>1. ASSUME Answer(r) PROVE FALSE
  BY <1>0, <1>1 DEF Answer, Idle, SourceHeld
<1>2. ASSUME Rollback(r) PROVE FALSE
  BY <1>0, <1>2 DEF Rollback, Idle, SourceHeld
<1>3. ASSUME NEW p, Goto(r, p)
      PROVE  p \in SourceHeld /\ req'[r].source = req[r].source
  BY <1>0, <1>3 DEF Goto, RequestRecord
<1>4. CASE SubjectExistsById(r) \/ AddSubject(r) \/ AgentCreate(r) \/ AddVm(r)
           \/ RelockSource(r) \/ LockInstance(r)
           \/ CheckDeletable(r) \/ GetVmMutex(r) \/ AgentsDelete(r) \/ DeleteVm(r)
  BY <1>1, <1>3, <1>4 DEF SubjectExistsById, AddSubject, AgentCreate, AddVm,
     RelockSource, LockInstance, CheckDeletable, GetVmMutex, AgentsDelete, DeleteVm,
     SourceHeld
<1>5. CASE GetSubjectVlan(r) \/ GetFirstAvailableVlan(r) \/ GetVlanOwner(r)
           \/ GetFirstAvailableVmVlanIdentifier(r)
  BY <1>0, <1>1, <1>5 DEF GetSubjectVlan, GetFirstAvailableVlan, GetVlanOwner,
     GetFirstAvailableVmVlanIdentifier, SourceHeld, RequestRecord
<1>6. CASE GetVlanByVmId(r) \/ VmIsLastInstanceInSubject(r) \/ ReadSubjectAndIdent(r)
  BY <1>0, <1>1, <1>6 DEF GetVlanByVmId, VmIsLastInstanceInSubject, ReadVmSubject,
     ReadSubjectVlan, ReadSubjectAndIdent, SourceHeld, RequestRecord
<1>7. CASE DeleteVmMutex(r)
  BY <1>0, <1>7 DEF DeleteVmMutex, RequestRecord, SourceHeld
<1>8. CASE CheckVlanConfigured(r) \/ ApplyVlanConfig(r) \/ SetVlanAsConfigured(r)
           \/ GetWireguardPublicKey(r) \/ ApplyVmConfig(r)
  BY <1>1, <1>2, <1>3, <1>8 DEF CheckVlanConfigured, ApplyVlanConfig,
     SetVlanAsConfigured, GetWireguardPublicKey, ApplyVmConfig, SourceHeld
<1>9. CASE RemoveVmConfig(r) \/ CheckVlanRemovable(r) \/ RemoveVlanConfig(r)
           \/ DeleteSubject(r)
  BY <1>1, <1>3, <1>9 DEF RemoveVmConfig, PeerHandled, CheckVlanRemovable,
     RemoveVlanConfig, DeleteSubject, SourceHeld
<1>10. CASE DbFails(r) \/ AgentFails(r) \/ RouterFails(r)
  BY <1>1, <1>2, <1>3, <1>10 DEF DbFails, AgentFails, RouterFails, SweepIncomplete,
     PeerHandled, SourceHeld
<1> QED BY <1>4, <1>5, <1>6, <1>7, <1>8, <1>9, <1>10 DEF Work, Lock

LEMMA SourceStep ==
  ASSUME RequestsOK, SourceExclusive, [Next]_vars, "forgotten" \notin Faults
  PROVE  SourceExclusive'
<1>0. req \in [Request -> RequestRecord]
  BY DEF RequestsOK
<1>1. CASE Crash \/ UNCHANGED vars
  BY <1>1 DEF Crash, vars, Idle, SourceHeld, SourceExclusive
<1>2. ASSUME NEW r \in Request, CreateInstance(r) \/ DeleteInstance(r)
      PROVE  SourceExclusive'
  <2>1. req'[r].pc \in {"cSubject", "dExists"}
    <3>1. CASE CreateInstance(r)
      BY <1>0, <3>1 DEF CreateInstance, Idle
    <3>2. CASE DeleteInstance(r)
      BY <1>0, <3>2 DEF DeleteInstance, Idle
    <3> QED BY <1>2, <3>1, <3>2
  <2>2. \A q \in Request : q # r => req'[q] = req[q]
    BY <1>0, <1>2 DEF CreateInstance, DeleteInstance
  <2> QED BY <2>1, <2>2 DEF SourceExclusive, SourceHeld
<1>3. ASSUME NEW r \in Request, Work(r) \/ Lock(r)
      PROVE  SourceExclusive'
  <2>1. \A q \in Request : q # r => req'[q].pc = req[q].pc /\ req'[q].source = req[q].source
    <3>1. CASE Ordinary(r)
      BY <3>1 DEF Ordinary
    <3>2. CASE AddVm(r) \/ LockInstance(r) \/ AgentsDelete(r) \/ DeleteVm(r)
      BY <1>0, <3>2 DEF AddVm, LockInstance, AgentsDelete, DeleteVm, Goto
    <3>3. CASE DeleteVmMutex(r)
      BY <1>0, <3>3 DEF DeleteVmMutex, RequestRecord
    <3> QED BY <1>3, <3>1, <3>2, <3>3, HandlerStep
  <2>2. CASE req'[r].pc \notin SourceHeld
    BY <2>1, <2>2 DEF SourceExclusive
  <2>3. CASE req[r].pc \in SourceHeld /\ req'[r].source = req[r].source
    BY <2>1, <2>3 DEF SourceExclusive
  <2>4. CASE LockSource(r)
    <3>1. req'[r].source = req[r].source
      BY <1>0, <2>4 DEF LockSource, Goto, RequestRecord
    <3>2. \A q \in Request : req[q].source = req[r].source => req[q].pc \notin SourceHeld
      BY <2>4 DEF LockSource, SourceLockable, SourceFree
    <3> QED BY <2>1, <3>1, <3>2 DEF SourceExclusive
  <2> QED BY <1>3, <2>2, <2>3, <2>4, SourceEntered
<1> QED BY <1>1, <1>2, <1>3 DEF Next

(* Unless a DeleteTemplate makes it forgotten.                              *)
SourceKept == "forgotten" \in Faults \/ SourceExclusive

(* However creates and deletes interleave, fail or are undone, one request  *)
(* at most is at work on the router's VLAN configuration                    *)
(* (routerVlanConfMutex), and one creates from a source, as long as no      *)
(* deleteVmMutex of DeleteTemplate takes the source's mutex from those that *)
(* call getVmMutex later.                                                   *)
THEOREM MutexesExclude == Spec => [](RouterExclusive /\ SourceKept)
<1>1. Init => SourceKept
  BY DEF Init, Idle, SourceExclusive, SourceHeld, SourceKept
<1>2. TypeInv /\ SourceKept /\ [Next]_vars => SourceKept'
  BY SourceStep DEF TypeInv, SourceKept
<1>3. RouterInv => RouterExclusive
  BY DEF RouterInv
<1> QED BY <1>1, <1>2, <1>3, TypeInvariant, RouterInvariant, PTL DEF Spec

(* Waiting.  A source's mutex comes before an instance's, and both come     *)
(* before the router's: whoever is waited for waits, if at all, for a later *)
(* one.                                                                     *)
WaitsForInstance(r) == At(r, "dLock") /\ ~InstanceFree(req[r].vm, req[r].stale)
WaitsForRouter(r)   == req[r].pc \in {"vcCheck", "vdCheck"} /\ ~RouterFree

Waits(r) == WaitsForSource(r) \/ WaitsForInstance(r) \/ WaitsForRouter(r)

NotAllWait ==
    (\E r \in Request : req[r].pc # "idle") =>
        \E r \in Request : req[r].pc # "idle" /\ ~Waits(r)

LEMMA RouterLast ==
  ASSUME NEW r \in Request, WaitsForRouter(r)
  PROVE  \E q \in Request : req[q].pc # "idle" /\ ~Waits(q)
<1>1. PICK q \in Request : req[q].pc \in RouterHeld
  BY DEF WaitsForRouter, RouterFree
<1> QED BY <1>1 DEF RouterHeld, Waits, WaitsForSource, WaitsForInstance, WaitsForRouter, At

LEMMA InstanceBeforeRouter ==
  ASSUME NEW r \in Request, WaitsForInstance(r)
  PROVE  \E q \in Request : req[q].pc # "idle" /\ ~Waits(q)
<1>1. PICK q \in Request : req[q].pc \in InstanceHeld
  BY DEF WaitsForInstance, InstanceFree
<1>2. ~WaitsForSource(q) /\ ~WaitsForInstance(q) /\ req[q].pc # "idle"
  BY <1>1 DEF InstanceHeld, WaitsForSource, WaitsForInstance, At
<1> QED BY <1>2, RouterLast DEF Waits

LEMMA SourceBeforeRouter ==
  ASSUME NEW r \in Request, WaitsForSource(r)
  PROVE  \E q \in Request : req[q].pc # "idle" /\ ~Waits(q)
<1>1. PICK q \in Request : req[q].pc \in SourceHeld
  BY DEF WaitsForSource, SourceFree
<1>2. ~WaitsForSource(q) /\ ~WaitsForInstance(q) /\ req[q].pc # "idle"
  BY <1>1 DEF SourceHeld, WaitsForSource, WaitsForInstance, At
<1> QED BY <1>2, RouterLast DEF Waits

(* Requests in progress never all wait for mutexes of each other's: the     *)
(* source's mutex is given back before an undone create calls               *)
(* DeleteInstance and taken again after it, so that it is never waited for  *)
(* with an instance's or the router's in hand.                              *)
THEOREM NoMutexDeadlock == Spec => []NotAllWait
<1>1. NotAllWait
  BY RouterLast, InstanceBeforeRouter, SourceBeforeRouter DEF NotAllWait, Waits
<1> QED BY <1>1, PTL
=============================================================================
