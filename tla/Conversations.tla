---------------------------- MODULE Conversations ----------------------------
(***************************************************************************)
(* Who owns a conversation while accounts and answers come and go:         *)
(*                                                                         *)
(*   accounts        src/app/auth/store.py, src/app/api/routes/user_ops.py *)
(*   conversations   src/app/conversations/store.py                        *)
(*   POST /v1/ask    src/app/api/routes/ask.py                             *)
(*                                                                         *)
(* Transactions run under READ COMMITTED: they read rows, decide in Python *)
(* and then write by key.  A request takes a step for what a transaction   *)
(* reads and one for what it commits; what PostgreSQL checks or waits for  *)
(* then (unique keys, foreign keys, row locks) guards the commit.          *)
(*                                                                         *)
(* Of the turns stored in a conversation only their askers are kept.  A    *)
(* disabled account's role decides nothing, and enabling it may set        *)
(* another: it is left out.  The roles "user" and "operator" are one.      *)
(***************************************************************************)
EXTENDS FiniteSets, Naturals

CONSTANTS
  Users,           \* app_user ids
  ConversationIds, \* the ids clients send or the store draws
  Requests,        \* requests in flight at once
  Nobody,          \* no owner_user_id; an anonymous caller
  Absent,          \* no such conversation
  KeyConfigured    \* OPS_ADMIN_KEY is set: its holder acts as an admin

ASSUME NameAssumption == /\ {Nobody, Absent} \cap Users = {}
                         /\ Nobody # Absent

ASSUME SizeAssumption == /\ IsFiniteSet(Users)
                         /\ KeyConfigured \in BOOLEAN

VARIABLES
  account,    \* app_user: each user's state
  owner,      \* conversation: its owner_user_id
  askers,     \* answer_interaction: who asked the turns of a conversation
  place,      \* a request: where it is
  who,        \* the caller of an ask; the account a deletion is about
  about,      \* the conversation an ask is in
  found,      \* whether the transaction that saves its turn found a row
  history,    \* the askers of the turns in its prompt
  detached    \* the conversations its deletion has detached and locked

data   == <<account, owner, askers>>
locals == <<place, who, about, found, history, detached>>
vars   == <<data, locals>>

Callers  == Users \cup {Nobody}
States   == {"unused", "user", "admin", "disabled", "deleted"}
Places   == {"idle", "history", "answer", "save", "detach", "delete"}

TypeOK ==
  /\ account \in [Users -> States]
  /\ owner \in [ConversationIds -> Callers \cup {Absent}]
  /\ askers \in [ConversationIds -> SUBSET Callers]
  /\ place \in [Requests -> Places]
  /\ who \in [Requests -> Callers]
  /\ about \in [Requests -> ConversationIds \cup {Absent}]
  /\ found \in [Requests -> BOOLEAN]
  /\ history \in [Requests -> SUBSET Callers]
  /\ detached \in [Requests -> SUBSET ConversationIds]

Enabled    == {u \in Users : account[u] \in {"user", "admin"}}
Admins     == {u \in Users : account[u] = "admin"}
Registered == {u \in Users : account[u] \in {"user", "admin", "disabled"}}
OwnedBy(u) == {c \in ConversationIds : owner[c] = u}

\* The conversation rows that other requests' open transactions have updated.
Locked(q) == UNION {detached[p] : p \in Requests \ {q}}

Init ==
  /\ account \in [Users -> {"unused", "user", "admin"}]
  /\ owner = [c \in ConversationIds |-> Absent]
  /\ askers = [c \in ConversationIds |-> {}]
  /\ place = [q \in Requests |-> "idle"]
  /\ who = [q \in Requests |-> Nobody]
  /\ about = [q \in Requests |-> Absent]
  /\ found = [q \in Requests |-> FALSE]
  /\ history = [q \in Requests |-> {}]
  /\ detached = [q \in Requests |-> {}]

Goto(q, p) == place' = [place EXCEPT ![q] = p]

Finish(q) ==
  /\ Goto(q, "idle")
  /\ who' = [who EXCEPT ![q] = Nobody]
  /\ about' = [about EXCEPT ![q] = Absent]
  /\ found' = [found EXCEPT ![q] = FALSE]
  /\ history' = [history EXCEPT ![q] = {}]
  /\ detached' = [detached EXCEPT ![q] = {}]

\* A refusal, an exception or the end of the process: an uncommitted
\* transaction leaves nothing, and an answer may go out unsaved.
RequestEnds(q) ==
  /\ place[q] # "idle"
  /\ Finish(q)
  /\ UNCHANGED data

-----------------------------------------------------------------------------
(* POST /v1/ask                                                            *)

\* The caller is an enabled user, or anonymous; the conversation is the
\* caller's or does not exist.  Anonymous callers get no history.
BeginAsk(q) ==
  /\ place[q] = "idle"
  /\ \E u \in Enabled \cup {Nobody}, c \in ConversationIds :
       /\ owner[c] \in {u, Absent}
       /\ who' = [who EXCEPT ![q] = u]
       /\ about' = [about EXCEPT ![q] = c]
       /\ Goto(q, IF owner[c] = u /\ u # Nobody THEN "history" ELSE "answer")
  /\ UNCHANGED <<data, found, history, detached>>

\* Mutant of LoadHistory: the latest turns of every conversation.
BugLoadsAll(q) ==
  /\ place[q] = "history"
  /\ history' = [history EXCEPT ![q] = UNION {askers[c] : c \in ConversationIds}]
  /\ Goto(q, "answer")
  /\ UNCHANGED <<data, who, about, found, detached>>

\* load_history asserts access again, in a transaction of its own, and then
\* selects by conversation only.  The turns its limits drop are kept here.
LoadHistory(q) ==
  /\ place[q] = "history"
  /\ history' = [history EXCEPT ![q] = askers[about[q]]]
  /\ Goto(q, "answer")
  /\ UNCHANGED <<data, who, about, found, detached>>

\* Mutant of SaveReads: trusts the access check made before the answer.
BugTrustsAccess(q) ==
  /\ place[q] = "answer"
  /\ found' = [found EXCEPT ![q] = owner[about[q]] # Absent]
  /\ history' = [history EXCEPT ![q] = {}]
  /\ Goto(q, "save")
  /\ UNCHANGED <<data, who, about, detached>>

\* The answer is there, or has failed, and the prompt is done with:
\* record_answer or record_failure looks for the conversation, which must be
\* the caller's if it exists by now.
SaveReads(q) ==
  /\ place[q] = "answer"
  /\ owner[about[q]] \in {who[q], Absent}
  /\ found' = [found EXCEPT ![q] = owner[about[q]] # Absent]
  /\ history' = [history EXCEPT ![q] = {}]
  /\ Goto(q, "save")
  /\ UNCHANGED <<data, who, about, detached>>

\* Mutant of Save: merges the row instead of inserting it.
BugMerges(q) ==
  /\ place[q] = "save"
  /\ about[q] \notin Locked(q)
  /\ \/ /\ found[q]
        /\ UNCHANGED owner
     \/ /\ ~found[q]
        /\ who[q] \in Registered \cup {Nobody}
        /\ owner' = [owner EXCEPT ![about[q]] = who[q]]
  /\ askers' = [askers EXCEPT ![about[q]] = @ \cup {who[q]}]
  /\ Finish(q)
  /\ UNCHANGED account

\* A conversation that was not found is inserted: its key must still be free
\* and its owner registered.  One that was found is touched, and nothing
\* looks at its owner again.
Save(q) ==
  /\ place[q] = "save"
  /\ about[q] \notin Locked(q)
  /\ \/ /\ found[q]
        /\ UNCHANGED owner
     \/ /\ ~found[q]
        /\ owner[about[q]] = Absent
        /\ who[q] \in Registered \cup {Nobody}
        /\ owner' = [owner EXCEPT ![about[q]] = who[q]]
  /\ askers' = [askers EXCEPT ![about[q]] = @ \cup {who[q]}]
  /\ Finish(q)
  /\ UNCHANGED account

-----------------------------------------------------------------------------
(* Accounts                                                                *)

AdminActs == KeyConfigured \/ Admins # {}

\* create_user, set_password_user, a first OIDC login.
CreateAccount ==
  /\ \E u \in Users, state \in {"user", "admin"} :
       /\ account[u] = "unused"
       /\ account' = [account EXCEPT ![u] = state]
  /\ UNCHANGED <<owner, askers, locals>>

\* update_user, or the role a login's OIDC token carries.
UpdateAccount ==
  /\ AdminActs
  /\ \E u \in Registered, state \in {"user", "admin", "disabled"} :
       account' = [account EXCEPT ![u] = state]
  /\ UNCHANGED <<owner, askers, locals>>

\* delete_user reads: not the acting admin's own account, nor that of the
\* last enabled admin.
DeleteReads(q) ==
  /\ place[q] = "idle"
  /\ \E u \in Registered :
       /\ KeyConfigured \/ Admins \ {u} # {}
       /\ account[u] = "admin" => Cardinality(Admins) > 1
       /\ who' = [who EXCEPT ![q] = u]
  /\ Goto(q, "detach")
  /\ UNCHANGED <<data, about, found, history, detached>>

\* UPDATE conversation: waits for the rows it selects, and locks them.
Detach(q) ==
  /\ place[q] = "detach"
  /\ OwnedBy(who[q]) \cap Locked(q) = {}
  /\ detached' = [detached EXCEPT ![q] = OwnedBy(who[q])]
  /\ Goto(q, "delete")
  /\ UNCHANGED <<data, who, about, found, history>>

\* Mutant of DeleteUser: conversation.owner_user_id is no foreign key.
BugUnchecked(q) ==
  /\ place[q] = "delete"
  /\ owner' = [c \in ConversationIds |-> IF c \in detached[q] THEN Nobody ELSE owner[c]]
  /\ account' = [account EXCEPT ![who[q]] = "deleted"]
  /\ Finish(q)
  /\ UNCHANGED askers

\* DELETE, and commit.  A conversation committed since the update still refers
\* to the account: its foreign key refuses, and all of it is rolled back.
DeleteUser(q) ==
  /\ place[q] = "delete"
  /\ OwnedBy(who[q]) \subseteq detached[q]
  /\ owner' = [c \in ConversationIds |-> IF c \in detached[q] THEN Nobody ELSE owner[c]]
  /\ account' = [account EXCEPT ![who[q]] = "deleted"]
  /\ Finish(q)
  /\ UNCHANGED askers

-----------------------------------------------------------------------------
Next ==
  \/ \E q \in Requests :
       \/ RequestEnds(q)
       \/ BeginAsk(q) \/ LoadHistory(q) \/ SaveReads(q) \/ Save(q)
       \/ DeleteReads(q) \/ Detach(q) \/ DeleteUser(q)
  \/ CreateAccount \/ UpdateAccount

Spec == Init /\ [][Next]_vars

-----------------------------------------------------------------------------
(* Properties                                                              *)

\* docs/authenticated-conversations.md, "Conversation ownership": every turn in
\* a user's conversation is that user's, although ownership is checked long
\* before an answer is saved and the conversation may be created by another
\* request, or lose its owner, in between (record_answer, delete_user).
OwnedByOwner ==
  \A c \in ConversationIds : owner[c] \in Users => askers[c] \subseteq {owner[c]}

\* docs/conversation-feedback.md, "anonymous history is never injected into the
\* prompt", nor another user's: while the asker's account exists, every turn
\* that load_history put in the prompt is the asker's own.
HistoryIsOwn ==
  \A q \in Requests : who[q] \in Registered => history[q] \subseteq {who[q]}

\* No conversation names an owner that is not an account: the foreign key's
\* RESTRICT and the detaching update leave no other way out of delete_user,
\* whatever is saved between the update and the commit.
OwnersExist ==
  \A c \in ConversationIds : owner[c] \in Users => owner[c] \in Registered

\* docs/authenticated-conversations.md:147, "Existing anonymous conversations
\* stay anonymous": no request takes over a conversation that another one has
\* created meanwhile; an owner only ever gives way to nobody.
NeverClaimed ==
  [][\A c \in ConversationIds :
       owner[c] # Absent => owner'[c] \in {owner[c], Nobody}]_vars

=============================================================================
