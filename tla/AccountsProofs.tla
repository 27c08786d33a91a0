---------------------------- MODULE AccountsProofs ----------------------------
(***************************************************************************)
(* Theorems about Accounts for any addresses and pages, any number of      *)
(* UUIDs, and whatever fails.                                              *)
(***************************************************************************)
EXTENDS Accounts, TLAPS

(***************************************************************************)
(* 1. The inductive invariant, part by part.                               *)
(***************************************************************************)

(* What was given out is behind made, wherever it is kept.                  *)
GivenOut ==
    /\ \A m \in Mail : pending[m] # None => pending[m].id <= made
    /\ \A m \in Mail : Verified(m) /\ users[m].reset # None => users[m].reset <= made
    /\ \A l \in links : l.token <= made
    /\ created \subseteq 1..made /\ used \subseteq 1..made

(* A row of unverified_users has an id of its own, and the accounts are     *)
(* among those there have ever been.                                        *)
IdsDistinct ==
    /\ \A m, n \in Mail : pending[m] # None /\ pending[n] # None /\ m # n
                              => pending[m].id # pending[n].id
    /\ \A m \in Mail : Verified(m) => users[m].id \in created

(* A token is that of one account.                                          *)
TokensDistinct ==
    \A m, n \in Mail : Verified(m) /\ Verified(n) /\ users[m].reset # None
                           /\ users[m].reset = users[n].reset => m = n

(* A page has what its step needs.  One that has checked its token knows    *)
(* whose it is: while it waits, no other account is given that token.  What *)
(* it has been told stays true, for no account comes back.                  *)
PageKnows(g) ==
    /\ pages[g].token # None => pages[g].token <= made
    /\ pages[g].kind = "reset" \/ At(g, "forgot", "stored") => pages[g].token # None
    /\ pages[g].kind \in {"forgot", "professor"} => pages[g].mail # None
    /\ At(g, "reset", "valid") =>
           \A m \in ResetBy(pages[g].token) : users[m].id = pages[g].id
    /\ pages[g].kind = "verify" /\ pages[g].step \in {"yes", "success"} =>
           pages[g].id \in created
    /\ pages[g].kind = "reset" /\ pages[g].step \in {"valid", "yes", "success"} =>
           pages[g].id \in created
    /\ pages[g].kind = "reset" /\ pages[g].step \in {"yes", "success"} =>
           pages[g].token \in used \/ pages[g].id \notin Ids

PagesKnow == \A g \in Page : PageKnows(g)

IInv ==
    /\ TypeOK
    /\ GivenOut /\ IdsDistinct /\ TokensDistinct /\ PagesKnow
    /\ VerifiedOnce /\ ResetLinksDie /\ UsersKept

(***************************************************************************)
(* 2. What the parts of a step do.                                         *)
(***************************************************************************)

(* What is drawn is an id nobody has, and None is none. *)
LEMMA FreshId ==
  ASSUME TypeOK, Draw
  PROVE  Fresh \in Id /\ Fresh # None /\ Fresh > made /\ made' = Fresh /\ made' \in 0..MaxMade
BY MadeAssumption DEF TypeOK, Draw, Fresh, Id

(* Where a page goes on to another step, the rest of it is as it was. *)
LEMMA PageMoves ==
  ASSUME TypeOK, NEW g \in Page, NEW s \in Step, Steps(g, s)
  PROVE  /\ pages' \in [Page -> PageOf]
         /\ pages'[g].kind = pages[g].kind /\ pages'[g].token = pages[g].token
         /\ pages'[g].mail = pages[g].mail /\ pages'[g].id = pages[g].id
         /\ pages'[g].step = s
         /\ \A h \in Page \ {g} : pages'[h] = pages[h]
BY DEF TypeOK, Steps, PageOf

(* A step of a page alone, which still knows what it needs. *)
LEMMA PageStep ==
  ASSUME IInv, NEW g \in Page, UNCHANGED <<database, history, manager>>,
         pages' \in [Page -> PageOf], PageKnows(g)',
         \A h \in Page \ {g} : pages'[h] = pages[h]
  PROVE  IInv'
<1>1. TypeOK'
  BY DEF IInv, TypeOK, database, history, manager
<1>2. PagesKnow'
  <2> SUFFICES ASSUME NEW h \in Page PROVE PageKnows(h)'
    BY DEF PagesKnow
  <2>1. CASE h = g
    BY <2>1
  <2>2. CASE h # g
    <3>1. pages'[h] = pages[h] /\ PageKnows(h)
      BY <2>2 DEF IInv, PagesKnow
    <3> QED
      BY <3>1 DEF PageKnows, At, ResetBy, Ids, Verified, database, history
  <2> QED
    BY <2>1, <2>2
<1>3. /\ GivenOut' /\ IdsDistinct' /\ TokensDistinct'
      /\ VerifiedOnce' /\ ResetLinksDie' /\ UsersKept'
  BY DEF IInv, GivenOut, IdsDistinct, TokensDistinct, VerifiedOnce, ResetLinksDie, UsersKept,
         Verified, Ids, database, history
<1> QED
  BY <1>1, <1>2, <1>3 DEF IInv

LEMMA NoneUnused ==
  ASSUME TypeOK
  PROVE  None \notin used
<1>1. used \subseteq Id /\ Id \subseteq Nat
  BY DEF TypeOK, Id
<1> QED
  BY <1>1, MadeAssumption

(* A page that goes on to a step of which nothing more is asked. *)
LEMMA PlainStep ==
  ASSUME IInv, NEW g \in Page, NEW s \in Step, Steps(g, s),
         UNCHANGED <<database, history, manager>>,
         ~(pages[g].kind = "reset" /\ s = "valid"),
         ~(pages[g].kind = "forgot" /\ s = "stored"),
         pages[g].kind \in {"verify", "reset"} /\ s \in {"yes", "success"} =>
             pages[g].step = "yes"
  PROVE  IInv'
<1>1. /\ pages' \in [Page -> PageOf]
      /\ pages'[g].kind = pages[g].kind /\ pages'[g].token = pages[g].token
      /\ pages'[g].mail = pages[g].mail /\ pages'[g].id = pages[g].id /\ pages'[g].step = s
      /\ \A h \in Page \ {g} : pages'[h] = pages[h]
  BY PageMoves DEF IInv
<1>2. PageKnows(g)
  BY DEF IInv, PagesKnow
<1>3. PageKnows(g)'
  BY <1>1, <1>2 DEF PageKnows, At, Ids, Verified, database, history
<1> QED
  BY <1>1, <1>3, PageStep

(* A step of the manager alone. *)
LEMMA ManagerStep ==
  ASSUME IInv, UNCHANGED <<database, history, pages>>, TypeOK'
  PROVE  IInv'
BY DEF IInv, GivenOut, IdsDistinct, TokensDistinct, PagesKnow, PageKnows, At, ResetBy, Ids,
       VerifiedOnce, ResetLinksDie, UsersKept, Verified, Ids, database, history

(***************************************************************************)
(* 3. The initial state, and the manager's steps.                          *)
(***************************************************************************)

LEMMA InitIInv == Init => IInv
<1> SUFFICES ASSUME Init PROVE IInv
  OBVIOUS
<1>1. NoPage \in PageOf /\ NoPage.kind = "none" /\ NoPage.token = None
  BY DEF NoPage, NewPage, PageOf, PageKind, Step
<1>2. TypeOK
  <2>1. pages \in [Page -> PageOf]
    BY <1>1 DEF Init
  <2>2. NoDeletion \in [step : {"none", "dialog", "asked", "checked", "yes", "no", "listing"},
                        id : Id \cup {None}]
    BY DEF NoDeletion
  <2>3. made \in 0..MaxMade
    BY MadeAssumption DEF Init
  <2> QED
    BY <2>1, <2>2, <2>3 DEF Init, TypeOK
<1>3. PagesKnow
  BY <1>1 DEF Init, PagesKnow, PageKnows, At
<1>4. GivenOut /\ IdsDistinct /\ TokensDistinct /\ VerifiedOnce /\ ResetLinksDie /\ UsersKept
  BY DEF Init, GivenOut, IdsDistinct, TokensDistinct, VerifiedOnce, ResetLinksDie, UsersKept,
         Verified, Ids
<1> QED
  BY <1>2, <1>3, <1>4 DEF IInv

(* What the manager fetches for is an id. *)
LEMMA FetchTyped ==
  ASSUME NEW rest \in SUBSET Fetch, NEW id \in Id, NEW by \in {"click", "refresh"},
         FetchFor(rest, id, by)
  PROVE  fetches' \subseteq Fetch /\ loading' \in BOOLEAN
BY DEF FetchFor, Fetch

(* Every step of the manager but two leaves the database alone. *)
LEMMA ManagerKeepsDatabase ==
  ASSUME IInv, UserManager
  PROVE  \/ UNCHANGED <<database, history, pages>> /\ TypeOK'
         \/ DeleteRow
         \/ \E id \in acts : ActionEnds(id)
<1> USE DEF IInv
<1>1. CASE OpenUserManager
  BY <1>1 DEF OpenUserManager, TypeOK, NoDeletion, database, history
<1>2. CASE Deselect
  BY <1>2 DEF Deselect, NoInstances, Crosses, TypeOK, database, history
<1>3. CASE Refresh
  <2>1. fetches' \subseteq Fetch /\ loading' \in BOOLEAN
    <3>1. CASE selected = None
      BY <1>3, <3>1 DEF Refresh, TypeOK
    <3>2. CASE selected # None
      BY <1>3, <3>2, FetchTyped DEF Refresh, TypeOK
    <3> QED
      BY <3>1, <3>2
  <2> QED
    BY <1>3, <2>1 DEF Refresh, TypeOK, database, history
<1>4. CASE ActOnInstance
  BY <1>4 DEF ActOnInstance, TypeOK, database, history
<1>5. CASE AnswerDialog
  BY <1>5 DEF AnswerDialog, NoDeletion, TypeOK, database, history
<1>6. CASE CheckDeletion
  BY <1>6 DEF CheckDeletion, TypeOK, database, history
<1>7. CASE \E outcome \in Outcome : FinishUsers(outcome)
  <2>1. Listed \subseteq Id
    BY DEF Listed, Ids, Verified, TypeOK, Account
  <2>2. NoDeletion \in [step : {"none", "dialog", "asked", "checked", "yes", "no", "listing"},
                        id : Id \cup {None}]
    BY DEF NoDeletion
  <2> QED
    BY <1>7, <2>1, <2>2 DEF FinishUsers, TypeOK, database, history
<1>8. CASE \E outcome \in Outcome : FinishDelete(outcome)
  BY <1>8 DEF FinishDelete, NoDeletion, TypeOK, database, history
<1>9. CASE \E outcome \in Outcome : \E f \in fetches : FinishInstances(f, outcome)
  BY <1>9 DEF FinishInstances, Fetch, TypeOK, database, history
<1>10. CASE \E id \in table : SelectUser(id)
  <2>1. PICK id \in table : SelectUser(id)
    BY <1>10
  <2>2. id \in Id /\ fetches \in SUBSET Fetch /\ FetchFor(fetches, id, "click")
    BY <2>1 DEF SelectUser, TypeOK
  <2>3. fetches' \subseteq Fetch /\ loading' \in BOOLEAN
    BY <2>2, FetchTyped
  <2> QED
    BY <2>1, <2>2, <2>3 DEF SelectUser, Crosses, TypeOK, database, history
<1>11. CASE \E id \in table : OpenDialog(id)
  BY <1>11 DEF OpenDialog, TypeOK, database, history
<1> QED
  BY <1>1, <1>2, <1>3, <1>4, <1>5, <1>6, <1>7, <1>8, <1>9, <1>10, <1>11 DEF UserManager

(* A button's action may take the user's last instance. *)
LEMMA ActionEndsStep ==
  ASSUME IInv, NEW id \in acts, ActionEnds(id)
  PROVE  IInv'
<1>1. id \in Id /\ fetches \in SUBSET Fetch /\ owners' \subseteq owners
  BY DEF IInv, TypeOK, ActionEnds
<1>2. fetches' \subseteq Fetch /\ loading' \in BOOLEAN
  BY <1>1, FetchTyped DEF ActionEnds
<1>3. TypeOK'
  BY <1>1, <1>2 DEF IInv, TypeOK, ActionEnds, history
<1>4. UsersKept'
  BY <1>1 DEF IInv, UsersKept, Ids, Verified, ActionEnds
<1>5. /\ GivenOut' /\ IdsDistinct' /\ TokensDistinct' /\ PagesKnow'
      /\ VerifiedOnce' /\ ResetLinksDie'
  BY DEF IInv, ActionEnds, history, GivenOut, IdsDistinct, TokensDistinct, PagesKnow, PageKnows,
         At, ResetBy, Ids, VerifiedOnce, ResetLinksDie, Verified
<1> QED
  BY <1>3, <1>4, <1>5 DEF IInv

(* DeleteUser removes no row but the one nothing refers to. *)
LEMMA DeleteRowStep ==
  ASSUME IInv, DeleteRow
  PROVE  IInv'
<1> USE DEF IInv
<1>1. /\ UNCHANGED <<pending, enrolled, owners, made, links, history, pages>>
      /\ UNCHANGED <<view, table, selected, shown, loading, fetches, acts, crossed>>
      /\ deletion' \in [step : {"none", "dialog", "asked", "checked", "yes", "no", "listing"},
                        id : Id \cup {None}]
  BY DEF DeleteRow, TypeOK
<1>2. \A m \in Mail : users'[m] \in {users[m], None}
  BY DEF DeleteRow
<1>3. users' \in [Mail -> Account \cup {None}]
  BY <1>2 DEF DeleteRow, TypeOK
<1>4. TypeOK'
  BY <1>1, <1>3 DEF TypeOK, history
<1>5. UsersKept'
  <2>1. CASE Referenced(deletion.id)
    BY <1>1, <2>1 DEF DeleteRow, UsersKept, Ids, Verified
  <2>2. CASE ~Referenced(deletion.id)
    <3> SUFFICES ASSUME NEW id \in enrolled \cup owners PROVE id \in Ids'
      BY <1>1 DEF UsersKept
    <3>1. PICK m \in Mail : Verified(m) /\ users[m].id = id
      BY DEF UsersKept, Ids
    <3>2. id # deletion.id
      BY <2>2 DEF Referenced
    <3>3. users'[m] = users[m]
      BY <2>2, <3>1, <3>2 DEF DeleteRow
    <3> QED
      BY <3>1, <3>3 DEF Ids, Verified
  <2> QED
    BY <2>1, <2>2
<1>6. GivenOut' /\ IdsDistinct' /\ TokensDistinct' /\ VerifiedOnce' /\ ResetLinksDie'
  BY <1>1, <1>2 DEF GivenOut, IdsDistinct, TokensDistinct, VerifiedOnce, ResetLinksDie, Verified,
                    history
<1>7. PagesKnow'
  BY <1>1, <1>2 DEF PagesKnow, PageKnows, At, ResetBy, Ids, Verified, history
<1> QED
  BY <1>4, <1>5, <1>6, <1>7

(***************************************************************************)
(* 4. The tables' steps.                                                   *)
(***************************************************************************)

(* The pages that stay as they are know as much when more has been given    *)
(* out, as long as no account is given the token of one.                    *)
LEMMA PagesStillKnow ==
  ASSUME IInv, made' \in Nat, made <= made',
         created \subseteq created', used \subseteq used', Ids' \cap created \subseteq Ids,
         \A g \in Page : pages'[g] = pages[g] \/ PageKnows(g)',
         \A m \in Mail : users'[m] # None =>
             \/ users'[m].reset = None \/ users'[m].reset > made
             \/ users[m] # None /\ users'[m] = users[m]
  PROVE  PagesKnow'
<1> SUFFICES ASSUME NEW g \in Page, pages'[g] = pages[g] PROVE PageKnows(g)'
  BY DEF PagesKnow
<1>1. PageKnows(g) /\ pages[g] \in PageOf /\ made \in Nat
  BY DEF IInv, PagesKnow, TypeOK
<1>2. pages[g].token # None => pages[g].token \in Nat /\ pages[g].token <= made
  BY <1>1 DEF PageKnows, PageOf, Id
<1>3. ASSUME pages[g].token # None PROVE ResetBy(pages[g].token)' \subseteq ResetBy(pages[g].token)
  BY <1>1, <1>2, <1>3 DEF ResetBy, Verified
<1>4. ASSUME pages[g].token # None, NEW m \in ResetBy(pages[g].token)'
      PROVE  m \in ResetBy(pages[g].token) /\ users'[m] = users[m]
  BY <1>1, <1>2, <1>4 DEF ResetBy, Verified
<1> QED
  BY <1>1, <1>2, <1>4 DEF PageKnows, At

(* What was given out stays behind made, if what is new is. *)
LEMMA GivenOutGrows ==
  ASSUME IInv, made' \in Nat, made <= made',
         \A m \in Mail : pending'[m] # None =>
             \/ pending'[m].id <= made'
             \/ pending[m] # None /\ pending'[m].id = pending[m].id,
         \A m \in Mail : users'[m] # None =>
             \/ users'[m].reset = None \/ users'[m].reset <= made'
             \/ users[m] # None /\ users'[m].reset = users[m].reset,
         \A l \in links' : l \in links \/ l.token <= made',
         created' \subseteq created \cup 1..made', used' \subseteq used \cup 1..made'
  PROVE  GivenOut'
<1>1. /\ made \in Nat
      /\ \A m \in Mail : pending[m] # None => pending[m].id \in Nat
      /\ \A m \in Mail : users[m] # None /\ users[m].reset # None => users[m].reset \in Nat
      /\ \A l \in links : l.token \in Nat
  BY DEF IInv, TypeOK, Pending, Account, Link, Id
<1>2. GivenOut
  BY DEF IInv
<1> QED
  BY <1>1, <1>2 DEF GivenOut, Verified

LEMMA RegisterStep ==
  ASSUME IInv, NEW m \in Mail, Register(m)
  PROVE  IInv'
<1> USE DEF IInv
<1>1. Fresh \in Id /\ Fresh # None /\ Fresh > made /\ made' = Fresh /\ made' \in 0..MaxMade
  BY FreshId DEF Register
<1>2. /\ UNCHANGED <<users, enrolled, owners, history, pages, manager>>
      /\ links' = links \cup {[kind |-> "verify", token |-> Fresh]}
      /\ pending' = [pending EXCEPT ![m] = [id |-> Fresh, token |-> Fresh]]
      /\ made \in Nat /\ made' \in Nat /\ made <= made'
  BY <1>1 DEF Register, Mailed, TypeOK
<1>3. TypeOK'
  BY <1>1, <1>2 DEF TypeOK, Pending, Link, history, manager
<1>4. /\ pending'[m].id = Fresh
      /\ \A n \in Mail \ {m} : pending'[n] = pending[n]
  BY <1>2 DEF TypeOK
<1>5. GivenOut'
  BY <1>1, <1>2, <1>4, GivenOutGrows DEF history
<1>6. IdsDistinct' /\ VerifiedOnce'
  <2>1. Fresh \notin created
    BY <1>1, <1>2 DEF GivenOut
  <2>2. \A n \in Mail : pending[n] # None => pending[n].id # Fresh
    BY <1>1, <1>2 DEF GivenOut, TypeOK, Pending, Id
  <2> QED
    BY <1>2, <1>4, <2>1, <2>2 DEF IdsDistinct, VerifiedOnce, Verified, history
<1>7. PagesKnow'
  <2>1. Ids' = Ids
    BY <1>2 DEF Ids, Verified
  <2> QED
    BY <1>2, <2>1, PagesStillKnow DEF history
<1>8. TokensDistinct' /\ ResetLinksDie' /\ UsersKept'
  BY <1>2 DEF TokensDistinct, ResetLinksDie, UsersKept, Verified, Ids, history
<1> QED
  BY <1>3, <1>5, <1>6, <1>7, <1>8

LEMMA ResendVerificationStep ==
  ASSUME IInv, NEW m \in Mail, ResendVerification(m)
  PROVE  IInv'
<1> USE DEF IInv
<1>1. Fresh \in Id /\ Fresh # None /\ Fresh > made /\ made' = Fresh /\ made' \in 0..MaxMade
  BY FreshId DEF ResendVerification
<1>2. /\ UNCHANGED <<users, enrolled, owners, history, pages, manager>>
      /\ links' = links \cup {[kind |-> "verify", token |-> Fresh]}
      /\ made \in Nat /\ made' \in Nat /\ made <= made'
  BY <1>1 DEF ResendVerification, Mailed, TypeOK
<1>3. /\ pending' \in [Mail -> Pending \cup {None}]
      /\ \A n \in Mail : (pending'[n] # None) <=> (pending[n] # None)
      /\ \A n \in Mail : pending[n] # None => pending'[n].id = pending[n].id
  <2>1. CASE pending[m] = None
    BY <2>1 DEF ResendVerification, TypeOK
  <2>2. CASE pending[m] # None
    <3>1. pending' = [pending EXCEPT ![m] = [pending[m] EXCEPT !.token = Fresh]]
      BY <2>2 DEF ResendVerification
    <3>2. pending[m] \in Pending
      BY <2>2 DEF TypeOK
    <3>3. [pending[m] EXCEPT !.token = Fresh] = [id |-> pending[m].id, token |-> Fresh]
      BY <3>2 DEF Pending
    <3>4. pending[m].id \in Id /\ [id |-> pending[m].id, token |-> Fresh] # None
      BY <1>1, <3>2, RowAssumption DEF Pending
    <3> QED
      BY <1>1, <2>2, <3>1, <3>3, <3>4 DEF TypeOK, Pending
  <2> QED
    BY <2>1, <2>2
<1>4. TypeOK'
  BY <1>1, <1>2, <1>3 DEF TypeOK, Link, history, manager
<1>5. GivenOut'
  BY <1>1, <1>2, <1>3, GivenOutGrows DEF history
<1>6. IdsDistinct' /\ VerifiedOnce'
  BY <1>2, <1>3 DEF IdsDistinct, VerifiedOnce, Verified, history
<1>7. PagesKnow'
  <2>1. Ids' = Ids
    BY <1>2 DEF Ids, Verified
  <2> QED
    BY <1>2, <2>1, PagesStillKnow DEF history
<1>8. TokensDistinct' /\ ResetLinksDie' /\ UsersKept'
  BY <1>2 DEF TokensDistinct, ResetLinksDie, UsersKept, Verified, Ids, history
<1> QED
  BY <1>4, <1>5, <1>6, <1>7, <1>8

(* A row that moves to users keeps its id, which nobody had. *)
LEMMA MoveRowStep ==
  ASSUME IInv, NEW g \in Page, NEW m \in Mail,
         pending[m] # None, ~Verified(m), MoveRow(m),
         At(g, "verify", "asked"),
         pages' = [pages EXCEPT ![g].step = "yes", ![g].id = pending[m].id],
         UNCHANGED <<enrolled, owners, made, links, used, manager>>
  PROVE  IInv'
<1> USE DEF IInv
<1>1. /\ users' = [users EXCEPT ![m] = [id |-> pending[m].id, reset |-> None]]
      /\ pending' = [pending EXCEPT ![m] = None]
      /\ created' = created \cup {pending[m].id}
      /\ users[m] = None
  BY DEF MoveRow, Verified
<1>2. pending[m] \in Pending /\ pending[m].id \in Id /\ pending[m].id <= made /\ made \in Nat
  BY DEF TypeOK, Pending, GivenOut
<1>3. /\ users'[m].id = pending[m].id /\ users'[m].reset = None
      /\ \A n \in Mail \ {m} : users'[n] = users[n] /\ pending'[n] = pending[n]
      /\ pending'[m] = None
  BY <1>1 DEF TypeOK
<1>4. [id |-> pending[m].id, reset |-> None] \in Account
  BY <1>2 DEF Account
<1>5. /\ pages' \in [Page -> PageOf] /\ \A h \in Page \ {g} : pages'[h] = pages[h]
      /\ pages'[g].kind = "verify" /\ pages'[g].token = pages[g].token
      /\ pages'[g].id = pending[m].id
  <2>1. pages'[g] = [kind |-> pages[g].kind, step |-> "yes", token |-> pages[g].token,
                     mail |-> pages[g].mail, id |-> pending[m].id]
    BY DEF TypeOK, PageOf
  <2> QED
    BY <1>2, <2>1 DEF TypeOK, PageOf, Step, At
<1>6. TypeOK'
  BY <1>1, <1>2, <1>4, <1>5 DEF TypeOK, manager
<1>7. GivenOut'
  BY <1>1, <1>2, <1>3, GivenOutGrows DEF Id
<1>8. IdsDistinct' /\ VerifiedOnce' /\ TokensDistinct'
  BY <1>1, <1>3 DEF IdsDistinct, VerifiedOnce, TokensDistinct, Verified
<1>9. ResetLinksDie'
  <2>1. None \notin used
    BY NoneUnused
  <2> QED
    BY <1>3, <2>1 DEF ResetLinksDie, Verified
<1>10. PagesKnow'
  <2>1. PageKnows(g)'
    BY <1>1, <1>5 DEF PagesKnow, PageKnows, At
  <2>2. Ids' \cap created \subseteq Ids
    BY <1>3 DEF VerifiedOnce, Ids, Verified
  <2> QED
    BY <1>1, <1>2, <1>3, <1>5, <2>1, <2>2, PagesStillKnow
<1>11. UsersKept'
  <2>1. Ids \subseteq Ids'
    BY <1>1, <1>3 DEF Ids, Verified
  <2> QED
    BY <2>1 DEF UsersKept
<1> QED
  BY <1>6, <1>7, <1>8, <1>9, <1>10, <1>11

(* An account keeps its id and loses at most its token. *)
LEMMA TokenTaken ==
  ASSUME IInv, UNCHANGED <<pending, enrolled, owners, made, links, created, manager>>,
         users' \in [Mail -> Account \cup {None}],
         pages' \in [Page -> PageOf],
         used \subseteq used', used' \subseteq used \cup 1..made,
         \A g \in Page : pages'[g] = pages[g] \/ PageKnows(g)',
         \A m \in Mail :
             /\ (users'[m] # None) <=> (users[m] # None)
             /\ users[m] # None => /\ users'[m].id = users[m].id
                                   /\ users'[m] = users[m] \/ users'[m].reset = None
  PROVE  /\ TypeOK' /\ GivenOut' /\ IdsDistinct' /\ TokensDistinct' /\ PagesKnow'
         /\ VerifiedOnce' /\ UsersKept'
<1> USE DEF IInv
<1>1. made \in Nat /\ 1..made \subseteq Id
  BY MadeAssumption DEF TypeOK, Id
<1>2. TypeOK'
  BY <1>1 DEF TypeOK, manager
<1>3. GivenOut'
  BY <1>1, GivenOutGrows
<1>4. IdsDistinct' /\ VerifiedOnce' /\ TokensDistinct' /\ UsersKept'
  BY DEF IdsDistinct, VerifiedOnce, TokensDistinct, UsersKept, Ids, Verified
<1>5. PagesKnow'
  <2>1. Ids' = Ids
    BY DEF Ids, Verified
  <2> QED
    BY <1>1, <2>1, PagesStillKnow
<1> QED
  BY <1>2, <1>3, <1>4, <1>5

LEMMA TokenExpiresStep ==
  ASSUME IInv, NEW m \in Mail, TokenExpires(m)
  PROVE  IInv'
<1> USE DEF IInv
<1>1. users[m] \in Account /\ users' = [users EXCEPT ![m] = [users[m] EXCEPT !.reset = None]]
  BY DEF TokenExpires, TypeOK, Verified
<1>2. [users[m] EXCEPT !.reset = None] = [id |-> users[m].id, reset |-> None]
  BY <1>1 DEF Account
<1>3. [id |-> users[m].id, reset |-> None] \in Account
  BY <1>1 DEF Account
<1>4. \A n \in Mail :
          /\ (users'[n] # None) <=> (users[n] # None)
          /\ users[n] # None => /\ users'[n].id = users[n].id
                                /\ users'[n] = users[n] \/ users'[n].reset = None
  BY <1>1, <1>2, <1>3, RowAssumption DEF TypeOK
<1>5. users' \in [Mail -> Account \cup {None}]
  BY <1>1, <1>2, <1>3 DEF TypeOK
<1>6. /\ UNCHANGED <<pending, enrolled, owners, made, links, created, manager, used, pages>>
  BY DEF TokenExpires, history
<1>7. ResetLinksDie'
  <2>1. None \notin used
    BY NoneUnused
  <2> QED
    BY <1>4, <1>6, <2>1 DEF ResetLinksDie, Verified
<1>8. pages' \in [Page -> PageOf]
  BY <1>6 DEF TypeOK
<1> QED
  BY <1>4, <1>5, <1>6, <1>7, <1>8, TokenTaken

LEMMA EnrollStep ==
  ASSUME IInv, NEW m \in Mail, Enroll(m)
  PROVE  IInv'
<1> USE DEF IInv
<1>1. /\ UNCHANGED <<pending, users, owners, made, links, history, pages, manager>>
      /\ enrolled' = enrolled \cup {users[m].id} /\ users[m] # None
  BY DEF Enroll, UserExistsByMail, Verified
<1>2. users[m].id \in Id
  BY <1>1 DEF TypeOK, Account
<1>3. TypeOK'
  BY <1>1, <1>2 DEF TypeOK, history, manager
<1>4. UsersKept'
  BY <1>1 DEF UsersKept, Ids, Verified
<1> QED
  BY <1>1, <1>3, <1>4 DEF GivenOut, IdsDistinct, TokensDistinct, PagesKnow, PageKnows, At, ResetBy, Ids,
       VerifiedOnce, ResetLinksDie, Verified, history

LEMMA UnenrollStep ==
  ASSUME IInv, NEW id \in enrolled, Unenroll(id)
  PROVE  IInv'
<1> USE DEF IInv
<1>1. /\ UNCHANGED <<pending, users, owners, made, links, history, pages, manager>>
      /\ enrolled' = enrolled \ {id}
  BY DEF Unenroll
<1>2. TypeOK' /\ UsersKept'
  BY <1>1 DEF TypeOK, UsersKept, Ids, Verified, history, manager
<1> QED
  BY <1>1, <1>2 DEF GivenOut, IdsDistinct, TokensDistinct, PagesKnow, PageKnows, At, ResetBy, Ids,
       VerifiedOnce, ResetLinksDie, Verified, history

LEMMA OwnStep ==
  ASSUME IInv, NEW id \in Ids, Own(id)
  PROVE  IInv'
<1> USE DEF IInv
<1>1. /\ UNCHANGED <<pending, users, enrolled, made, links, history, pages, manager>>
      /\ owners' = owners \cup {id}
  BY DEF Own
<1>2. id \in Id
  BY DEF Ids, Verified, TypeOK, Account
<1>3. TypeOK' /\ UsersKept'
  BY <1>1, <1>2 DEF TypeOK, UsersKept, Ids, Verified, history, manager
<1> QED
  BY <1>1, <1>3 DEF GivenOut, IdsDistinct, TokensDistinct, PagesKnow, PageKnows, At, ResetBy, Ids,
       VerifiedOnce, ResetLinksDie, Verified, history

(***************************************************************************)
(* 5. The pages' steps.                                                    *)
(***************************************************************************)

LEMMA BlankPage ==
  /\ NoPage \in PageOf
  /\ NoPage.kind = "none" /\ NoPage.step = "form"
  /\ NoPage.token = None /\ NoPage.mail = None /\ NoPage.id = None
BY DEF NoPage, NewPage, PageOf, PageKind, Step

LEMMA OpenLinkStep ==
  ASSUME IInv, NEW g \in Page, NEW l \in links, OpenLink(g, l)
  PROVE  IInv'
<1> USE DEF IInv
<1>1. l \in Link /\ l.token \in Id /\ l.token <= made /\ l.token # None
  BY MadeAssumption DEF TypeOK, Link, GivenOut, Id
<1> DEFINE q == [kind |-> l.kind, step |-> IF l.kind = "verify" THEN "asked" ELSE "form",
                 token |-> l.token, mail |-> None, id |-> None]
<1>2. pages' = [pages EXCEPT ![g] = q]
  BY DEF OpenLink, NewPage
<1>3. q \in PageOf
  BY <1>1 DEF PageOf, PageKind, Step, Link
<1>4. pages' \in [Page -> PageOf] /\ pages'[g] = q /\ \A h \in Page \ {g} : pages'[h] = pages[h]
  BY <1>2, <1>3 DEF TypeOK
<1>5. PageKnows(g)'
  BY <1>1, <1>4 DEF PageKnows, At, OpenLink, database, Link
<1> QED
  BY <1>4, <1>5, PageStep DEF OpenLink

LEMMA ClosePageStep ==
  ASSUME IInv, NEW g \in Page, ClosePage(g)
  PROVE  IInv'
<1>1. /\ pages' \in [Page -> PageOf] /\ pages'[g] = NoPage
      /\ \A h \in Page \ {g} : pages'[h] = pages[h]
  BY BlankPage DEF IInv, TypeOK, ClosePage
<1>2. PageKnows(g)'
  BY <1>1, BlankPage DEF PageKnows, At
<1> QED
  BY <1>1, <1>2, PageStep DEF ClosePage

LEMMA FinishPageStep ==
  ASSUME IInv, NEW g \in Page, NEW outcome \in Outcome, FinishPage(g, outcome)
  PROVE  IInv'
<1> DEFINE s == IF Believes(g, outcome) THEN "success" ELSE "error"
<1>1. /\ s \in Step /\ Steps(g, s) /\ UNCHANGED <<database, history, manager>>
      /\ s \notin {"valid", "stored"}
  BY DEF FinishPage, Step
<1>2. pages[g].kind \in {"verify", "reset"} /\ s \in {"yes", "success"} => pages[g].step = "yes"
  BY DEF Believes
<1> HIDE DEF s
<1> QED
  BY <1>1, <1>2, PlainStep

LEMMA SubmitResetStep ==
  ASSUME IInv, NEW g \in Page, SubmitReset(g)
  PROVE  IInv'
BY PlainStep DEF SubmitReset, Step

(* A form that is about an address. *)
LEMMA MailForm ==
  ASSUME IInv, NEW g \in Page, NEW m \in Mail, NEW kind \in {"forgot", "professor"},
         pages' = [pages EXCEPT ![g] = NewPage(kind, "asked", None, m)],
         UNCHANGED <<database, history, manager>>
  PROVE  IInv'
<1> DEFINE q == [kind |-> kind, step |-> "asked", token |-> None, mail |-> m, id |-> None]
<1>1. pages' = [pages EXCEPT ![g] = q]
  BY DEF NewPage
<1>2. q \in PageOf /\ q.kind \notin {"reset"} /\ q.step = "asked" /\ q.mail = m /\ q.token = None
  BY DEF PageOf, PageKind, Step
<1> HIDE DEF q
<1>3. pages' \in [Page -> PageOf] /\ pages'[g] = q /\ \A h \in Page \ {g} : pages'[h] = pages[h]
  BY <1>1, <1>2 DEF IInv, TypeOK
<1>4. PageKnows(g)'
  BY <1>2, <1>3, MailAssumption DEF PageKnows, At
<1> QED
  BY <1>3, <1>4, PageStep

LEMMA SubmitForgotStep ==
  ASSUME IInv, NEW g \in Page, NEW m \in Mail, SubmitForgot(g, m)
  PROVE  IInv'
BY MailForm DEF SubmitForgot

LEMMA SubmitProfessorStep ==
  ASSUME IInv, NEW g \in Page, NEW m \in Mail, SubmitProfessor(g, m)
  PROVE  IInv'
BY MailForm DEF SubmitProfessor

LEMMA LookUpMailStep ==
  ASSUME IInv, NEW g \in Page, LookUpMail(g)
  PROVE  IInv'
BY PlainStep DEF LookUpMail, At, Step

(* A page that shows an id besides goes on. *)
LEMMA PageNotes ==
  ASSUME TypeOK, NEW g \in Page, NEW s \in Step, NEW id \in Id,
         pages' = [pages EXCEPT ![g].step = s, ![g].id = id]
  PROVE  /\ pages' \in [Page -> PageOf]
         /\ pages'[g].kind = pages[g].kind /\ pages'[g].token = pages[g].token
         /\ pages'[g].mail = pages[g].mail /\ pages'[g].id = id
         /\ pages'[g].step = s
         /\ \A h \in Page \ {g} : pages'[h] = pages[h]
BY DEF TypeOK, PageOf

LEMMA VerifyUserStep ==
  ASSUME IInv, NEW g \in Page, VerifyUser(g)
  PROVE  IInv'
<1> DEFINE m == CHOOSE n \in AwaitedBy(pages[g].token) : TRUE
<1>1. /\ At(g, "verify", "asked")
      /\ UNCHANGED <<enrolled, owners, made, links, used, manager>>
  BY DEF VerifyUser
<1>2. AwaitedBy(pages[g].token) # {} => m \in Mail /\ pending[m] # None
  <2>1. AwaitedBy(pages[g].token) # {} => m \in AwaitedBy(pages[g].token)
    OBVIOUS
  <2> QED
    BY <2>1 DEF AwaitedBy
<1> HIDE DEF m
<1>3. CASE Steps(g, "no") /\ UNCHANGED <<pending, users, created>>
  <2>1. UNCHANGED <<database, history, manager>>
    BY <1>1, <1>3 DEF database, history
  <2> QED
    BY <1>1, <1>3, <2>1, PlainStep DEF At, Step
<1>4. CASE /\ AwaitedBy(pages[g].token) # {} /\ Verified(m)
           /\ pages' = [pages EXCEPT ![g].step = "yes", ![g].id = users[m].id]
           /\ UNCHANGED <<pending, users, created>>
  <2>1. UNCHANGED <<database, history, manager>>
    BY <1>1, <1>4 DEF database, history
  <2>2. users[m].id \in Id /\ users[m].id \in created
    BY <1>2, <1>4 DEF IInv, TypeOK, IdsDistinct, Verified, Account
  <2>3. /\ pages' \in [Page -> PageOf]
        /\ pages'[g].kind = "verify" /\ pages'[g].token = pages[g].token
        /\ pages'[g].id = users[m].id
        /\ \A h \in Page \ {g} : pages'[h] = pages[h]
    BY <1>1, <1>4, <2>2, PageNotes DEF IInv, Step, At
  <2>4. PageKnows(g)'
    BY <2>1, <2>2, <2>3 DEF IInv, PagesKnow, PageKnows, At, database, history
  <2> QED
    BY <2>1, <2>3, <2>4, PageStep
<1>5. CASE /\ AwaitedBy(pages[g].token) # {} /\ ~Verified(m) /\ MoveRow(m)
           /\ pages' = [pages EXCEPT ![g].step = "yes", ![g].id = pending[m].id]
  BY <1>1, <1>2, <1>5, MoveRowStep
<1> QED
  BY <1>3, <1>4, <1>5 DEF VerifyUser, m

(* The page learns whose its token is: it is that of one account. *)
LEMMA ValidateStep ==
  ASSUME IInv, NEW g \in Page, ValidatePasswordResetToken(g)
  PROVE  IInv'
<1>1. At(g, "reset", "asked") /\ UNCHANGED <<database, history, manager>>
  BY DEF ValidatePasswordResetToken
<1>2. CASE Steps(g, "no")
  BY <1>1, <1>2, PlainStep DEF At, Step
<1>3. ASSUME NEW m \in ResetBy(pages[g].token),
             pages' = [pages EXCEPT ![g].step = "valid", ![g].id = users[m].id]
      PROVE  IInv'
  <2>1. m \in Mail /\ Verified(m) /\ users[m].reset = pages[g].token /\ users[m].id \in Id
    BY <1>3 DEF ResetBy, IInv, TypeOK, Verified, Account
  <2>2. pages[g].token # None /\ pages[g].token <= made
    BY <1>1 DEF IInv, PagesKnow, PageKnows, At
  <2>3. /\ pages' \in [Page -> PageOf]
        /\ pages'[g].kind = "reset" /\ pages'[g].token = pages[g].token
        /\ pages'[g].id = users[m].id /\ pages'[g].step = "valid"
        /\ \A h \in Page \ {g} : pages'[h] = pages[h]
    BY <1>1, <1>3, <2>1, PageNotes DEF IInv, Step, At
  <2>4. \A n \in ResetBy(pages[g].token) : n = m
    BY <2>1, <2>2 DEF ResetBy, IInv, TokensDistinct
  <2>5. users[m].id \in created
    BY <2>1 DEF IInv, IdsDistinct
  <2>6. PageKnows(g)'
    BY <1>1, <2>2, <2>3, <2>4, <2>5 DEF PageKnows, At, ResetBy, Verified, database, history
  <2> QED
    BY <1>1, <2>3, <2>6, PageStep
<1> QED
  BY <1>2, <1>3 DEF ValidatePasswordResetToken

(* The token that changed a password is no account's any more: who had it   *)
(* when it was checked has lost it, and nobody was given it since.          *)
LEMMA UpdatePasswordStep ==
  ASSUME IInv, NEW g \in Page, UpdatePassword(g)
  PROVE  IInv'
<1> USE DEF IInv
<1>1. /\ At(g, "reset", "valid")
      /\ UNCHANGED <<pending, enrolled, owners, made, links, created, manager>>
  BY DEF UpdatePassword
<1>2. CASE Steps(g, "no") /\ UNCHANGED <<users, used>>
  <2>1. UNCHANGED <<database, history, manager>>
    BY <1>1, <1>2 DEF database, history
  <2> QED
    BY <1>1, <1>2, <2>1, PlainStep DEF At, Step
<1>3. CASE /\ ClearToken(pages[g].id) /\ Steps(g, "yes")
           /\ used' = IF pages[g].id \in Ids THEN used \cup {pages[g].token} ELSE used
  <2> DEFINE id == pages[g].id  k == pages[g].token
  <2>1. /\ k \in Id /\ k <= made /\ made \in Nat /\ id \in created
        /\ \A m \in ResetBy(k) : users[m].id = id
    BY <1>1 DEF PagesKnow, PageKnows, At, TypeOK, PageOf
  <2>2. ASSUME NEW m \in Mail
        PROVE  /\ (users'[m] # None) <=> (users[m] # None)
               /\ users[m] # None => /\ users'[m].id = users[m].id
                                     /\ users'[m] = users[m] \/ users'[m].reset = None
                                     /\ users[m].id = id => users'[m].reset = None
               /\ users'[m] \in Account \cup {None}
    <3>1. CASE Verified(m) /\ users[m].id = id
      <4>1. users[m] \in Account
        BY <3>1 DEF TypeOK, Verified
      <4>2. users'[m] = [users[m] EXCEPT !.reset = None]
        BY <1>3, <3>1 DEF ClearToken
      <4>3. users'[m] = [id |-> users[m].id, reset |-> None] /\ users[m].id \in Id
        BY <4>1, <4>2 DEF Account
      <4>4. users'[m] \in Account /\ users'[m].id = users[m].id /\ users'[m].reset = None
        BY <4>3 DEF Account
      <4> QED
        BY <3>1, <4>4, RowAssumption DEF Verified
    <3>2. CASE ~(Verified(m) /\ users[m].id = id)
      BY <1>3, <3>2 DEF ClearToken, TypeOK, Verified
    <3> QED
      BY <3>1, <3>2
  <2>3. users' \in [Mail -> Account \cup {None}]
    BY <1>3, <2>2 DEF ClearToken
  <2>4. /\ pages' \in [Page -> PageOf]
        /\ pages'[g].kind = "reset" /\ pages'[g].token = k /\ pages'[g].step = "yes"
        /\ pages'[g].id = id
        /\ \A h \in Page \ {g} : pages'[h] = pages[h]
    BY <1>1, <1>3, PageMoves DEF At, Step
  <2>5. PageKnows(g)'
    <3>1. Ids' = Ids
      BY <2>2 DEF Ids, Verified
    <3>2. k \in used' \/ id \notin Ids'
      BY <1>3, <3>1
    <3> QED
      BY <1>1, <2>1, <2>4, <3>2, MadeAssumption DEF PageKnows, At, Id
  <2>6. used \subseteq used' /\ used' \subseteq used \cup {k} /\ used' \subseteq used \cup 1..made
    BY <1>3, <2>1 DEF Id
  <2>7. ResetLinksDie'
    <3> SUFFICES ASSUME NEW m \in Mail, Verified(m)' PROVE users'[m].reset \notin used'
      BY DEF ResetLinksDie
    <3>1. CASE users'[m].reset = None
      BY <2>1, <2>6, <3>1, NoneUnused, MadeAssumption DEF Id
    <3>2. CASE users'[m].reset # None
      <4>1. users[m] # None /\ users'[m] = users[m] /\ users[m].id # id
        BY <2>2, <3>2 DEF Verified
      <4>2. users[m].reset # k /\ users[m].reset \notin used
        BY <2>1, <4>1 DEF ResetBy, Verified, ResetLinksDie
      <4> QED
        BY <2>6, <4>1, <4>2
    <3> QED
      BY <3>1, <3>2
  <2> HIDE DEF id, k
  <2> QED
    BY <1>1, <2>2, <2>3, <2>4, <2>5, <2>6, <2>7, TokenTaken
<1> QED
  BY <1>2, <1>3 DEF UpdatePassword

(* A token that is stored is nobody else's, nor another page's. *)
LEMMA CreateTokenStep ==
  ASSUME IInv, NEW g \in Page, CreatePasswordResetToken(g)
  PROVE  IInv'
<1> USE DEF IInv
<1> DEFINE m == pages[g].mail
<1>1. /\ At(g, "forgot", "valid")
      /\ UNCHANGED <<pending, enrolled, owners, links, history, manager>>
  BY DEF CreatePasswordResetToken
<1>2. CASE Steps(g, "no") /\ UNCHANGED <<users, made>>
  <2>1. UNCHANGED <<database, history, manager>>
    BY <1>1, <1>2 DEF database, history
  <2> QED
    BY <1>1, <1>2, <2>1, PlainStep DEF At, Step
<1>3. CASE /\ Draw
           /\ users' = IF Verified(m) THEN [users EXCEPT ![m].reset = Fresh] ELSE users
           /\ pages' = [pages EXCEPT ![g].step = "stored", ![g].token = Fresh]
  <2>1. /\ Fresh \in Id /\ Fresh # None /\ Fresh > made
        /\ made' = Fresh /\ made' \in 0..MaxMade
        /\ made \in Nat /\ made' \in Nat /\ made <= made'
    BY <1>3, FreshId DEF TypeOK
  <2>2. m \in Mail
    BY <1>1 DEF At, PagesKnow, PageKnows, TypeOK, PageOf
  <2>3. /\ pages' \in [Page -> PageOf]
        /\ pages'[g].kind = "forgot" /\ pages'[g].token = Fresh /\ pages'[g].mail = m
        /\ pages'[g].step = "stored"
        /\ \A h \in Page \ {g} : pages'[h] = pages[h]
    BY <1>1, <1>3, <2>1 DEF TypeOK, PageOf, Step, At
  <2>4. /\ users' \in [Mail -> Account \cup {None}]
        /\ \A n \in Mail \ {m} : users'[n] = users[n]
        /\ (users'[m] # None) <=> (users[m] # None)
        /\ users[m] # None => users'[m].id = users[m].id /\ users'[m].reset = Fresh
    <3>1. CASE Verified(m)
      <4>1. users[m] \in Account
        BY <2>2, <3>1 DEF TypeOK, Verified
      <4>2. users' = [users EXCEPT ![m] = [users[m] EXCEPT !.reset = Fresh]]
        BY <1>3, <3>1
      <4>3. [users[m] EXCEPT !.reset = Fresh] = [id |-> users[m].id, reset |-> Fresh]
        BY <4>1 DEF Account
      <4>4. [id |-> users[m].id, reset |-> Fresh] \in Account
        BY <2>1, <4>1 DEF Account
      <4>5. /\ users'[m] = [id |-> users[m].id, reset |-> Fresh]
            /\ users' \in [Mail -> Account \cup {None}]
            /\ \A n \in Mail \ {m} : users'[n] = users[n]
        BY <2>2, <4>2, <4>3, <4>4 DEF TypeOK
      <4> QED
        BY <3>1, <4>4, <4>5, RowAssumption DEF Verified
    <3>2. CASE ~Verified(m)
      BY <1>3, <3>2 DEF TypeOK, Verified
    <3> QED
      BY <3>1, <3>2
  <2> HIDE DEF m
  <2>5. TypeOK'
    BY <1>1, <2>1, <2>3, <2>4 DEF TypeOK, history, manager
  <2>6. GivenOut'
    BY <1>1, <2>1, <2>2, <2>4, GivenOutGrows DEF history
  <2>7. TokensDistinct'
    <3>1. \A n \in Mail : Verified(n) => users[n].reset # Fresh
      BY <2>1 DEF GivenOut, TypeOK, Account, Id, Verified
    <3> QED
      BY <2>2, <2>4, <3>1 DEF TokensDistinct, Verified
  <2>8. ResetLinksDie'
    <3>1. Fresh \notin used
      BY <2>1 DEF GivenOut
    <3> QED
      BY <1>1, <2>2, <2>4, <3>1 DEF ResetLinksDie, Verified, history
  <2>9. PagesKnow'
    <3>1. PageKnows(g)'
      BY <2>1, <2>2, <2>3, MailAssumption DEF PageKnows, At
    <3>2. Ids' = Ids
      BY <2>2, <2>4 DEF Ids, Verified
    <3> QED
      BY <1>1, <2>1, <2>2, <2>3, <2>4, <3>1, <3>2, PagesStillKnow DEF history
  <2>10. IdsDistinct' /\ VerifiedOnce' /\ UsersKept'
    BY <1>1, <2>2, <2>4 DEF IdsDistinct, VerifiedOnce, UsersKept, Ids, Verified, history
  <2> QED
    BY <2>5, <2>6, <2>7, <2>8, <2>9, <2>10
<1> QED
  BY <1>2, <1>3 DEF CreatePasswordResetToken

LEMMA SendResetLinkStep ==
  ASSUME IInv, NEW g \in Page, SendResetLink(g)
  PROVE  IInv'
<1> USE DEF IInv
<1>1. /\ At(g, "forgot", "stored")
      /\ links' = links \cup {[kind |-> "reset", token |-> pages[g].token]}
      /\ UNCHANGED <<pending, users, enrolled, owners, made, history, manager>>
  BY DEF SendResetLink, Mailed
<1>2. PICK s \in Step \ {"valid", "stored"} : Steps(g, s)
  BY DEF SendResetLink, Step
<1>3. /\ pages' \in [Page -> PageOf]
      /\ pages'[g].kind = "forgot" /\ pages'[g].token = pages[g].token
      /\ pages'[g].mail = pages[g].mail /\ pages'[g].step = s
      /\ \A h \in Page \ {g} : pages'[h] = pages[h]
  BY <1>1, <1>2, PageMoves DEF At
<1>4. pages[g].token \in Id /\ pages[g].token <= made /\ pages[g].mail # None
  BY <1>1 DEF PagesKnow, PageKnows, At, TypeOK, PageOf
<1>5. TypeOK'
  BY <1>1, <1>3, <1>4 DEF TypeOK, Link, history, manager
<1>6. GivenOut'
  BY <1>1, <1>4 DEF GivenOut, Verified, history
<1>7. PageKnows(g)'
  BY <1>1, <1>2, <1>3, <1>4 DEF PageKnows, At
<1>8. PagesKnow'
  <2>1. Ids' = Ids
    BY <1>1 DEF Ids, Verified
  <2> QED
    BY <1>1, <1>3, <1>7, <2>1, PagesStillKnow DEF TypeOK, history
<1> QED
  BY <1>1, <1>5, <1>6, <1>8 DEF IdsDistinct, TokensDistinct, VerifiedOnce, ResetLinksDie,
     UsersKept, Ids, Verified, history

LEMMA CreateProfessorStep ==
  ASSUME IInv, NEW g \in Page, CreateProfessor(g)
  PROVE  IInv'
<1> USE DEF IInv
<1> DEFINE m == pages[g].mail
<1>1. /\ At(g, "professor", "asked")
      /\ UNCHANGED <<pending, enrolled, owners, links, used, manager>>
  BY DEF CreateProfessor
<1>2. CASE Steps(g, "no") /\ UNCHANGED <<users, made, created>>
  <2>1. UNCHANGED <<database, history, manager>>
    BY <1>1, <1>2 DEF database, history
  <2> QED
    BY <1>1, <1>2, <2>1, PlainStep DEF At, Step
<1>3. CASE /\ ~Verified(m) /\ Draw
           /\ users' = [users EXCEPT ![m] = [id |-> Fresh, reset |-> None]]
           /\ created' = created \cup {Fresh}
           /\ Steps(g, "yes")
  <2>1. /\ Fresh \in Id /\ Fresh # None /\ Fresh > made
        /\ made' = Fresh /\ made' \in 0..MaxMade
        /\ made \in Nat /\ made' \in Nat /\ made <= made'
    BY <1>3, FreshId DEF TypeOK
  <2>2. m \in Mail /\ users[m] = None
    BY <1>1, <1>3 DEF At, PagesKnow, PageKnows, TypeOK, PageOf, Verified
  <2>3. /\ pages' \in [Page -> PageOf]
        /\ pages'[g].kind = "professor" /\ pages'[g].token = pages[g].token
        /\ pages'[g].mail = m
        /\ \A h \in Page \ {g} : pages'[h] = pages[h]
    BY <1>1, <1>3, PageMoves DEF Step, At
  <2>4. [id |-> Fresh, reset |-> None] \in Account
    BY <2>1 DEF Account
  <2>5. /\ users' \in [Mail -> Account \cup {None}]
        /\ \A n \in Mail \ {m} : users'[n] = users[n]
        /\ users'[m].id = Fresh /\ users'[m].reset = None
    BY <1>3, <2>2, <2>4 DEF TypeOK
  <2> HIDE DEF m
  <2>6. TypeOK'
    BY <1>1, <1>3, <2>1, <2>3, <2>5 DEF TypeOK, manager
  <2>7. GivenOut'
    BY <1>1, <1>3, <2>1, <2>2, <2>5, GivenOutGrows DEF Id
  <2>8. IdsDistinct' /\ VerifiedOnce'
    <3>1. \A n \in Mail : pending[n] # None => pending[n].id # Fresh
      BY <2>1 DEF GivenOut, TypeOK, Pending, Id
    <3> QED
      BY <1>1, <1>3, <2>2, <2>5, <3>1 DEF IdsDistinct, VerifiedOnce, Verified
  <2>9. TokensDistinct' /\ ResetLinksDie'
    BY <1>1, <2>2, <2>5, NoneUnused DEF TokensDistinct, ResetLinksDie, Verified
  <2>10. PagesKnow'
    <3>1. pages[g].token # None => pages[g].token \in Nat /\ pages[g].token <= made
      BY DEF PagesKnow, PageKnows, TypeOK, PageOf, Id
    <3>2. PageKnows(g)'
      BY <2>1, <2>2, <2>3, <3>1, MailAssumption DEF PageKnows, At
    <3>3. Ids' \cap created \subseteq Ids
      BY <2>1, <2>5 DEF GivenOut, Ids, Verified
    <3> QED
      BY <1>1, <1>3, <2>1, <2>2, <2>3, <2>5, <3>2, <3>3, PagesStillKnow
  <2>11. UsersKept'
    <3>1. Ids \subseteq Ids'
      BY <2>2, <2>5 DEF Ids, Verified
    <3> QED
      BY <1>1, <3>1 DEF UsersKept
  <2> QED
    BY <2>6, <2>7, <2>8, <2>9, <2>10, <2>11
<1> QED
  BY <1>2, <1>3 DEF CreateProfessor

(***************************************************************************)
(* 6. The panel of a user's instances.                                     *)
(***************************************************************************)

(* Unless the selection has changed while something was under way, all that *)
(* is under way is for the user selected: whatever list arrives is his, and *)
(* a list that is not is about to be replaced.                              *)
PanelInv ==
    ~crossed =>
        /\ \A f \in fetches : f.id = selected
        /\ \A id \in acts : id = selected
        /\ loading \/ shown \in {None, selected}

LEMMA ManagerKept ==
  ASSUME Database \/ Pages
  PROVE  UNCHANGED manager
<1>1. CASE Database
  BY <1>1 DEF Database, Register, ResendVerification, TokenExpires, Enroll, Unenroll, Own
<1>2. CASE Pages
  <2>1. PICK g \in Page :
          \/ \E l \in links : OpenLink(g, l)
          \/ \E outcome \in Outcome : FinishPage(g, outcome)
          \/ ClosePage(g) \/ VerifyUser(g)
          \/ SubmitReset(g) \/ ValidatePasswordResetToken(g) \/ UpdatePassword(g)
          \/ \E m \in Mail : SubmitForgot(g, m) \/ SubmitProfessor(g, m)
          \/ LookUpMail(g) \/ CreatePasswordResetToken(g) \/ SendResetLink(g)
          \/ CreateProfessor(g)
    BY <1>2 DEF Pages
  <2> QED
    BY <2>1 DEF OpenLink, FinishPage, ClosePage, VerifyUser, SubmitReset,
       ValidatePasswordResetToken, UpdatePassword, SubmitForgot, SubmitProfessor, LookUpMail,
       CreatePasswordResetToken, SendResetLink, CreateProfessor
<1> QED
  BY <1>1, <1>2

LEMMA PanelStep ==
  ASSUME PanelInv, [Next]_vars
  PROVE  PanelInv'
<1> USE DEF PanelInv
<1>1. CASE UNCHANGED manager
  BY <1>1 DEF manager
<1>2. CASE OpenUserManager
  BY <1>2 DEF OpenUserManager
<1>3. CASE Deselect
  BY <1>3 DEF Deselect, NoInstances, Crosses
<1>4. CASE Refresh
  BY <1>4 DEF Refresh, FetchFor
<1>5. CASE ActOnInstance
  BY <1>5 DEF ActOnInstance
<1>6. CASE \E outcome \in Outcome, f \in fetches : FinishInstances(f, outcome)
  BY <1>6 DEF FinishInstances
<1>7. CASE \E id \in table : SelectUser(id)
  <2>1. PICK id \in table : SelectUser(id)
    BY <1>7
  <2>2. SUFFICES ASSUME ~crossed'
                 PROVE  /\ \A f \in fetches' : f.id = selected'
                        /\ \A a \in acts' : a = selected'
                        /\ loading'
    OBVIOUS
  <2>3. fetches = {} /\ acts = {}
    BY <2>1, <2>2 DEF SelectUser, Crosses
  <2> QED
    BY <2>1, <2>3 DEF SelectUser, FetchFor
<1>8. CASE \E id \in acts : ActionEnds(id)
  BY <1>8 DEF ActionEnds, FetchFor
<1>9. CASE \/ AnswerDialog \/ CheckDeletion \/ DeleteRow
           \/ \E outcome \in Outcome : FinishUsers(outcome) \/ FinishDelete(outcome)
           \/ \E id \in table : OpenDialog(id)
  BY <1>9 DEF AnswerDialog, CheckDeletion, DeleteRow, FinishUsers, FinishDelete, OpenDialog
<1>10. CASE UNCHANGED vars
  BY <1>10 DEF vars, manager
<1> QED
  BY <1>1, <1>2, <1>3, <1>4, <1>5, <1>6, <1>7, <1>8, <1>9, <1>10, ManagerKept
     DEF Next, UserManager

(***************************************************************************)
(* 7. The theorems.                                                        *)
(***************************************************************************)

LEMMA DatabaseStep == IInv /\ Database => IInv'
BY RegisterStep, ResendVerificationStep, TokenExpiresStep, EnrollStep, UnenrollStep, OwnStep
   DEF Database

LEMMA PagesStep == IInv /\ Pages => IInv'
BY OpenLinkStep, FinishPageStep, ClosePageStep, VerifyUserStep, SubmitResetStep, ValidateStep,
   UpdatePasswordStep, SubmitForgotStep, SubmitProfessorStep, LookUpMailStep, CreateTokenStep,
   SendResetLinkStep, CreateProfessorStep DEF Pages

LEMMA UserManagerStep == IInv /\ UserManager => IInv'
BY ManagerKeepsDatabase, ManagerStep, DeleteRowStep, ActionEndsStep

LEMMA Stutter == IInv /\ UNCHANGED vars => IInv'
<1> SUFFICES ASSUME IInv, UNCHANGED vars PROVE IInv'
  OBVIOUS
<1>1. UNCHANGED <<database, history, pages, manager>> /\ TypeOK'
  BY DEF IInv, TypeOK, vars, database, history, manager
<1> QED
  BY <1>1, ManagerStep

(* The inductive invariant holds throughout. *)
LEMMA Invariance == Spec => []IInv
<1>1. Init => IInv
  BY InitIInv
<1>2. IInv /\ [Next]_vars => IInv'
  BY DatabaseStep, PagesStep, UserManagerStep, Stutter DEF Next
<1> QED
  BY <1>1, <1>2, PTL DEF Spec

(* Every variable keeps its type: in particular no page asks the database   *)
(* for a token or an address it does not have.                              *)
THEOREM TypeCorrect == Spec => []TypeOK
<1>1. IInv => TypeOK
  BY DEF IInv
<1> QED
  BY <1>1, Invariance, PTL

(* A page that reports success was told the truth, and it stays so while    *)
(* others change and delete accounts (VerifyEmail, ResetPassword).          *)
THEOREM SuccessIsTrue == Spec => []SuccessTrue
<1>1. IInv => SuccessTrue
  BY DEF IInv, PagesKnow, PageKnows, SuccessTrue, At
<1> QED
  BY <1>1, Invariance, PTL

(* However many addresses register, ask for new links and follow them, no   *)
(* registration becomes an account a second time (VerifyUser).              *)
THEOREM VerifyingIsOnce == Spec => []VerifiedOnce
<1>1. IInv => VerifiedOnce
  BY DEF IInv
<1> QED
  BY <1>1, Invariance, PTL

(* No account ever holds a token by which a password was changed, whichever *)
(* requests come between the two statements of handleResetPassword.         *)
THEOREM UsedLinksAreDead == Spec => []ResetLinksDie
<1>1. IInv => ResetLinksDie
  BY DEF IInv
<1> QED
  BY <1>1, Invariance, PTL

(* Whoever refers to a user finds him, whatever is enrolled or created      *)
(* between DeleteUser's question and its deletion, or fails.                *)
THEOREM NoUserIsMissed == Spec => []UsersKept
<1>1. IInv => UsersKept
  BY DEF IInv
<1> QED
  BY <1>1, Invariance, PTL

(* Selecting, deselecting, refreshing and the buttons of the panel may      *)
(* overlap with each other's fetches: unless the selection itself changed   *)
(* under one of them, no user is shown another's instances.                 *)
THEOREM PanelIsOfSelected == Spec => []InstancesOfSelected
<1>1. Init => PanelInv
  BY DEF Init, PanelInv
<1>2. PanelInv /\ [Next]_vars => PanelInv'
  BY PanelStep
<1>3. PanelInv => InstancesOfSelected
  BY DEF PanelInv, InstancesOfSelected
<1> QED
  BY <1>1, <1>2, <1>3, PTL DEF Spec
=============================================================================
