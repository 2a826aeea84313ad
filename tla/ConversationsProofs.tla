-------------------------- MODULE ConversationsProofs --------------------------
(***************************************************************************)
(* The invariants of Conversations for any users, conversations and number *)
(* of requests in flight.  Ownership is read early and relied upon late;   *)
(* what makes that sound is that an owner changes only twice, from Absent  *)
(* to a registered account and from that account, as it is deleted, to     *)
(* Nobody.  OwnershipHolds says what a request may rely on meanwhile.      *)
(***************************************************************************)
EXTENDS Conversations, TLAPS

OwnershipHolds ==
  \A q \in Requests :
    /\ place[q] \in {"history", "answer", "save"} => about[q] \in ConversationIds
    /\ who[q] \in Users => account[who[q]] # "unused"
    /\ place[q] \in {"detach", "delete"} => who[q] \in Users
    /\ place[q] = "history" /\ who[q] \in Registered => owner[about[q]] = who[q]
    /\ place[q] = "save" /\ found[q] => owner[about[q]] \in {who[q], Nobody}
    /\ detached[q] # {} => place[q] = "delete"
    /\ \A c \in detached[q] : owner[c] \in {who[q], Nobody}
    /\ history[q] # {} => place[q] = "answer"

\* A conversation that does not exist has no turns.
AbsentIsEmpty == \A c \in ConversationIds : owner[c] = Absent => askers[c] = {}

IInv == /\ TypeOK
        /\ OwnershipHolds
        /\ AbsentIsEmpty
        /\ OwnedByOwner
        /\ HistoryIsOwn
        /\ OwnersExist

\* What only concerns the tables is kept by a step that leaves them alone.
LEMMA TablesKept ==
  ASSUME IInv, UNCHANGED data
  PROVE  AbsentIsEmpty' /\ OwnedByOwner' /\ OwnersExist'
BY DEF IInv, data, AbsentIsEmpty, OwnedByOwner, OwnersExist, Registered

LEMMA InitEstablishes == Init => IInv
BY NameAssumption
   DEF Init, IInv, TypeOK, OwnershipHolds, AbsentIsEmpty, OwnedByOwner, HistoryIsOwn,
       OwnersExist, Callers, States, Places, Registered

LEMMA EndPreserves ==
  ASSUME IInv, NEW q \in Requests, RequestEnds(q)
  PROVE  IInv'
<1> USE NameAssumption DEF RequestEnds, Finish, Goto, data, Registered
<1>1. TypeOK'  BY DEF IInv, TypeOK, Callers, Places
<1>2. OwnershipHolds'  BY DEF IInv, TypeOK, OwnershipHolds, Callers, Places
<1>3. HistoryIsOwn'  BY DEF IInv, TypeOK, HistoryIsOwn, Callers
<1> QED  BY <1>1, <1>2, <1>3, TablesKept DEF IInv

LEMMA BeginPreserves ==
  ASSUME IInv, NEW q \in Requests, BeginAsk(q)
  PROVE  IInv'
<1> USE NameAssumption DEF Goto, data, Registered
<1>0. PICK u \in Enabled \cup {Nobody}, c \in ConversationIds :
        /\ place[q] = "idle"
        /\ owner[c] \in {u, Absent}
        /\ who' = [who EXCEPT ![q] = u]
        /\ about' = [about EXCEPT ![q] = c]
        /\ Goto(q, IF owner[c] = u /\ u # Nobody THEN "history" ELSE "answer")
        /\ UNCHANGED <<data, found, history, detached>>
    BY DEF BeginAsk
<1>1. TypeOK'  BY <1>0 DEF IInv, TypeOK, Callers, Places, Enabled
<1>2. OwnershipHolds'
    BY <1>0 DEF IInv, TypeOK, OwnershipHolds, Callers, Places, Enabled
<1>3. HistoryIsOwn'
    BY <1>0 DEF IInv, TypeOK, OwnershipHolds, HistoryIsOwn, Callers
<1> QED  BY <1>0, <1>1, <1>2, <1>3, TablesKept DEF IInv

LEMMA HistoryPreserves ==
  ASSUME IInv, NEW q \in Requests, LoadHistory(q)
  PROVE  IInv'
<1> USE NameAssumption DEF LoadHistory, Goto, data, Registered
<1>c. about[q] \in ConversationIds  BY DEF IInv, OwnershipHolds
<1>1. TypeOK'  BY <1>c DEF IInv, TypeOK, Callers, Places
<1>2. OwnershipHolds'  BY <1>c DEF IInv, TypeOK, OwnershipHolds, Callers, Places
<1>3. HistoryIsOwn'
  <2>1. who[q] \in Registered => askers[about[q]] \subseteq {who[q]}
      BY <1>c DEF IInv, OwnershipHolds, OwnedByOwner
  <2> QED  BY <2>1 DEF IInv, TypeOK, HistoryIsOwn
<1> QED  BY <1>1, <1>2, <1>3, TablesKept DEF IInv

LEMMA SaveReadsPreserves ==
  ASSUME IInv, NEW q \in Requests, SaveReads(q)
  PROVE  IInv'
<1> USE NameAssumption DEF SaveReads, Goto, data, Registered
<1>c. about[q] \in ConversationIds  BY DEF IInv, OwnershipHolds
<1>1. TypeOK'  BY <1>c DEF IInv, TypeOK, Callers, Places
<1>2. OwnershipHolds'
  <2>1. \A p \in Requests : p # q =>
          /\ place'[p] = place[p] /\ found'[p] = found[p] /\ history'[p] = history[p]
      BY DEF IInv, TypeOK
  <2>2. /\ place'[q] = "save" /\ history'[q] = {}
        /\ found'[q] => owner[about[q]] # Absent
      BY DEF IInv, TypeOK
  <2>3. \A p \in Requests : OwnershipHolds!(p)  BY DEF IInv, OwnershipHolds
  <2>4. detached[q] = {}  BY <2>3
  <2>5. OwnershipHolds!(q)'  BY <1>c, <2>2, <2>3, <2>4
  <2>6. ASSUME NEW p \in Requests, p # q  PROVE OwnershipHolds!(p)'
      BY <2>1, <2>3, <2>6
  <2> QED  BY <2>5, <2>6 DEF OwnershipHolds
<1>3. HistoryIsOwn'  BY DEF IInv, TypeOK, HistoryIsOwn
<1> QED  BY <1>1, <1>2, <1>3, TablesKept DEF IInv

\* The conversation is the caller's, or nobody's, whether it was found or is
\* inserted; the turn joins turns that are the caller's or that nobody owns.
LEMMA SavePreserves ==
  ASSUME IInv, NEW q \in Requests, Save(q)
  PROVE  IInv'
<1> USE NameAssumption DEF Finish, Goto
<1> DEFINE c == about[q]
<1>c. c \in ConversationIds /\ who[q] \in Callers
    BY DEF Save, IInv, OwnershipHolds, TypeOK
<1>s. /\ askers' = [askers EXCEPT ![c] = @ \cup {who[q]}]
      /\ Finish(q) /\ account' = account
    BY DEF Save
<1>o. /\ owner' \in [ConversationIds -> Callers \cup {Absent}]
      /\ \A d \in ConversationIds : d # c => owner'[d] = owner[d]
      /\ \/ owner[c] \in {who[q], Nobody} /\ owner'[c] = owner[c]
         \/ owner[c] = Absent /\ owner'[c] = who[q] /\ who[q] \in Registered \cup {Nobody}
    BY <1>c DEF Save, IInv, TypeOK, OwnershipHolds, Callers
<1> HIDE DEF c
<1>1. TypeOK'  BY <1>c, <1>s, <1>o DEF IInv, TypeOK, Callers, Places
<1>k. \A d \in ConversationIds : owner[d] # Absent => owner'[d] = owner[d]
    BY <1>o, <1>c DEF Callers
<1>2. OwnershipHolds'
  <2>q. /\ place'[q] = "idle" /\ who'[q] = Nobody
        /\ history'[q] = {} /\ detached'[q] = {}
      BY <1>s DEF IInv, TypeOK
  <2>0. OwnershipHolds!(q)'  BY <2>q
  <2> SUFFICES ASSUME NEW p \in Requests, p # q  PROVE OwnershipHolds!(p)'
      BY <2>0 DEF OwnershipHolds
  <2>1. /\ place'[p] = place[p] /\ who'[p] = who[p] /\ about'[p] = about[p]
        /\ found'[p] = found[p] /\ history'[p] = history[p] /\ detached'[p] = detached[p]
      BY <1>s DEF IInv, TypeOK
  <2>2. who[p] \in Callers /\ detached[p] \subseteq ConversationIds
      BY DEF IInv, TypeOK
  <2>3. OwnershipHolds!(p)  BY DEF IInv, OwnershipHolds
  <2> QED  BY <1>s, <1>k, <2>1, <2>2, <2>3 DEF Callers, Registered
<1>3. AbsentIsEmpty'
    BY <1>c, <1>s, <1>o DEF IInv, TypeOK, AbsentIsEmpty, Callers
<1>4. OwnedByOwner'
    BY <1>c, <1>s, <1>o DEF IInv, TypeOK, AbsentIsEmpty, OwnedByOwner
<1>5. HistoryIsOwn'
    BY <1>s DEF IInv, TypeOK, HistoryIsOwn, Registered
<1>6. OwnersExist'
    BY <1>c, <1>s, <1>o DEF IInv, TypeOK, OwnersExist, Registered
<1> QED  BY <1>1, <1>2, <1>3, <1>4, <1>5, <1>6 DEF IInv

\* An account that changes neither joins nor leaves the registered ones, but
\* for an unused one, which no request and no conversation names yet.
LEMMA AccountsPreserve ==
  ASSUME IInv, CreateAccount \/ UpdateAccount
  PROVE  IInv'
<1> USE NameAssumption DEF locals
<1>0. PICK u \in Users, state \in {"user", "admin", "disabled"} :
        /\ account[u] = "unused" \/ u \in Registered
        /\ account' = [account EXCEPT ![u] = state]
        /\ UNCHANGED <<owner, askers, locals>>
    BY DEF CreateAccount, UpdateAccount, Registered
<1>1. TypeOK'  BY <1>0 DEF IInv, TypeOK, States
<1>r. \A v \in Users : v \in Registered' <=> (v \in Registered \/ v = u)
    BY <1>0 DEF IInv, TypeOK, Registered, States
<1>n. \A q \in Requests : who[q] = u => u \in Registered
    BY <1>0 DEF IInv, OwnershipHolds
<1>2. OwnershipHolds'
  <2>1. \A v \in Users : account[v] # "unused" => account'[v] # "unused"
      BY <1>0 DEF IInv, TypeOK
  <2>2. \A q \in Requests : who[q] \in Registered' => who[q] \in Registered
      BY <1>r, <1>n DEF Registered
  <2> QED  BY <1>0, <2>1, <2>2 DEF IInv, OwnershipHolds
<1>3. AbsentIsEmpty' /\ OwnedByOwner'
    BY <1>0 DEF IInv, AbsentIsEmpty, OwnedByOwner
<1>4. HistoryIsOwn'
  <2>1. \A q \in Requests : who[q] \in Registered' => who[q] \in Registered
      BY <1>r, <1>n DEF Registered
  <2> QED  BY <1>0, <2>1 DEF IInv, HistoryIsOwn
<1>5. OwnersExist'  BY <1>0, <1>r DEF IInv, OwnersExist
<1> QED  BY <1>1, <1>2, <1>3, <1>4, <1>5 DEF IInv

LEMMA DeleteReadsPreserves ==
  ASSUME IInv, NEW q \in Requests, DeleteReads(q)
  PROVE  IInv'
<1> USE NameAssumption DEF Goto, data, Registered
<1>0. PICK u \in Registered :
        /\ place[q] = "idle"
        /\ who' = [who EXCEPT ![q] = u]
        /\ Goto(q, "detach")
        /\ UNCHANGED <<data, about, found, history, detached>>
    BY DEF DeleteReads
<1>1. TypeOK'  BY <1>0 DEF IInv, TypeOK, Callers, Places
<1>2. OwnershipHolds'  BY <1>0 DEF IInv, TypeOK, OwnershipHolds, Callers, Places
<1>3. HistoryIsOwn'  BY <1>0 DEF IInv, TypeOK, OwnershipHolds, HistoryIsOwn
<1> QED  BY <1>0, <1>1, <1>2, <1>3, TablesKept DEF IInv

LEMMA DetachPreserves ==
  ASSUME IInv, NEW q \in Requests, Detach(q)
  PROVE  IInv'
<1> USE NameAssumption DEF Detach, Goto, data, Registered
<1>1. TypeOK'  BY DEF IInv, TypeOK, Callers, Places, OwnedBy
<1>2. OwnershipHolds'
    BY DEF IInv, TypeOK, OwnershipHolds, Callers, Places, OwnedBy
<1>3. HistoryIsOwn'  BY DEF IInv, TypeOK, HistoryIsOwn
<1> QED  BY <1>1, <1>2, <1>3, TablesKept DEF IInv

\* Only conversations of the account that goes lose their owner, and all of
\* them do: the foreign key would refuse the commit otherwise.
LEMMA DeletePreserves ==
  ASSUME IInv, NEW q \in Requests, DeleteUser(q)
  PROVE  IInv'
<1> USE NameAssumption DEF Finish, Goto
<1> DEFINE u == who[q]
<1>0. /\ u \in Users /\ account[u] # "unused"
      /\ OwnedBy(u) \subseteq detached[q]
      /\ owner' = [c \in ConversationIds |-> IF c \in detached[q] THEN Nobody ELSE owner[c]]
      /\ account' = [account EXCEPT ![u] = "deleted"]
      /\ Finish(q) /\ askers' = askers
    BY DEF DeleteUser, IInv, OwnershipHolds
<1> HIDE DEF u
<1>d. \A c \in detached[q] : owner[c] \in {u, Nobody}
    BY DEF IInv, OwnershipHolds, u
<1>k. \A c \in ConversationIds : \/ owner'[c] = owner[c] /\ owner[c] # u
                                 \/ owner[c] \in {u, Nobody} /\ owner'[c] = Nobody
    BY <1>0, <1>d DEF OwnedBy
<1>r. \A v : v \in Registered' <=> v \in Registered /\ v # u
    BY <1>0 DEF IInv, TypeOK, Registered, States
<1>1. TypeOK'  BY <1>0 DEF IInv, TypeOK, Callers, Places, States
<1>2. OwnershipHolds'
  <2>q. /\ place'[q] = "idle" /\ who'[q] = Nobody
        /\ history'[q] = {} /\ detached'[q] = {}
      BY <1>0 DEF IInv, TypeOK
  <2>0. OwnershipHolds!(q)'  BY <2>q
  <2> SUFFICES ASSUME NEW p \in Requests, p # q  PROVE OwnershipHolds!(p)'
      BY <2>0 DEF OwnershipHolds
  <2>1. /\ place'[p] = place[p] /\ who'[p] = who[p] /\ about'[p] = about[p]
        /\ found'[p] = found[p] /\ history'[p] = history[p] /\ detached'[p] = detached[p]
      BY <1>0 DEF IInv, TypeOK
  <2>2. detached[p] \subseteq ConversationIds  BY DEF IInv, TypeOK
  <2>3. OwnershipHolds!(p)  BY DEF IInv, OwnershipHolds
  <2>4. who[p] \in Users => account'[who[p]] # "unused"
      BY <1>0, <2>3 DEF IInv, TypeOK
  <2> QED  BY <1>k, <1>r, <2>1, <2>2, <2>3, <2>4
<1>3. AbsentIsEmpty'  BY <1>0, <1>k DEF IInv, AbsentIsEmpty
<1>4. OwnedByOwner'  BY <1>0, <1>k DEF IInv, OwnedByOwner
<1>5. HistoryIsOwn'  BY <1>0, <1>r DEF IInv, TypeOK, HistoryIsOwn
<1>6. OwnersExist'  BY <1>k, <1>r DEF IInv, OwnersExist
<1> QED  BY <1>1, <1>2, <1>3, <1>4, <1>5, <1>6 DEF IInv

LEMMA NextPreserves == IInv /\ [Next]_vars => IInv'
<1> SUFFICES ASSUME IInv, [Next]_vars  PROVE IInv'
    OBVIOUS
<1>1. CASE UNCHANGED vars
    BY <1>1 DEF vars, data, locals, IInv, TypeOK, OwnershipHolds, AbsentIsEmpty,
       OwnedByOwner, HistoryIsOwn, OwnersExist, Registered
<1>2. CASE CreateAccount \/ UpdateAccount  BY <1>2, AccountsPreserve
<1>3. ASSUME NEW q \in Requests,
             \/ RequestEnds(q)
             \/ BeginAsk(q) \/ LoadHistory(q) \/ SaveReads(q) \/ Save(q)
             \/ DeleteReads(q) \/ Detach(q) \/ DeleteUser(q)
      PROVE  IInv'
    BY <1>3, EndPreserves, BeginPreserves, HistoryPreserves, SaveReadsPreserves,
       SavePreserves, DeleteReadsPreserves, DetachPreserves, DeletePreserves, Zenon
<1> QED  BY <1>1, <1>2, <1>3, Zenon DEF Next

THEOREM AlwaysIInv == Spec => []IInv
<1>1. Init => IInv  BY InitEstablishes
<1>2. IInv /\ [Next]_vars => IInv'  BY NextPreserves
<1> QED  BY <1>1, <1>2, PTL DEF Spec

\* The tables and the requests' locals keep their types.
THEOREM TypeCorrect == Spec => []TypeOK
<1>1. IInv => TypeOK  BY DEF IInv
<1> QED  BY AlwaysIInv, <1>1, PTL

\* A user's conversation never holds a turn of anybody else.
THEOREM AlwaysOwnedByOwner == Spec => []OwnedByOwner
<1>1. IInv => OwnedByOwner  BY DEF IInv
<1> QED  BY AlwaysIInv, <1>1, PTL

\* No prompt of an existing account holds anybody else's turn.
THEOREM HistoryAlwaysOwn == Spec => []HistoryIsOwn
<1>1. IInv => HistoryIsOwn  BY DEF IInv
<1> QED  BY AlwaysIInv, <1>1, PTL

\* No conversation outlives its owner's account as that owner's.
THEOREM OwnersAlwaysExist == Spec => []OwnersExist
<1>1. IInv => OwnersExist  BY DEF IInv
<1> QED  BY AlwaysIInv, <1>1, PTL

\* An owner gives way to nobody else: an insert needs a free key, and deletion
\* only detaches.
THEOREM OwnersNeverClaim == Spec => NeverClaimed
<1> DEFINE Kept == \A c \in ConversationIds :
                     owner[c] # Absent => owner'[c] \in {owner[c], Nobody}
<1>1. TypeOK /\ [Next]_vars => [Kept]_vars
  <2> SUFFICES ASSUME TypeOK, [Next]_vars, NEW c \in ConversationIds, owner[c] # Absent
               PROVE  owner'[c] \in {owner[c], Nobody}
      OBVIOUS
  <2>1. CASE owner' = owner  BY <2>1
  <2>2. ASSUME NEW q \in Requests, Save(q)  PROVE owner'[c] \in {owner[c], Nobody}
      BY <2>2 DEF Save, TypeOK
  <2>3. ASSUME NEW q \in Requests, DeleteUser(q)  PROVE owner'[c] \in {owner[c], Nobody}
      BY <2>3 DEF DeleteUser
  <2> QED  BY <2>1, <2>2, <2>3 DEF Next, vars, data, locals, RequestEnds, BeginAsk,
           LoadHistory, SaveReads, CreateAccount, UpdateAccount, DeleteReads, Detach
<1> QED  BY TypeCorrect, <1>1, PTL DEF Spec, NeverClaimed
=============================================================================
