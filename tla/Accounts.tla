-------------------------------- MODULE Accounts --------------------------------
(******************************************************************************)
(* The Account store (server/auth): an index in memory over a compacted topic *)
(* of whole Account records and name reservations, the last write of a key    *)
(* winning.  Every write is made under one lock: the record is appended, then *)
(* indexed, so one operation is one step here, and what can come between its  *)
(* writes is a failure: an append that fails, one that fails after it landed, *)
(* and the process dying on either side of one.                               *)
(*                                                                            *)
(* An Account is its username, whether it is active and an operator, the state *)
(* of its refresh tokens and invites (secrets, numbered as they are made) and *)
(* of its Characters.  Credentials, rate limits, expected record versions and *)
(* the validation of arguments only refuse, and a refusal changes nothing.    *)
(******************************************************************************)
EXTENDS Integers, FiniteSets

CONSTANTS
  Usernames,         \* folded usernames
  BootUser,          \* auth.bootstrap_operator
  Names,             \* folded Character names
  MaxAccounts,       \* bound: Accounts made
  MaxSecrets,        \* bound: refresh tokens and invites made
  MaxChars,          \* bound: Characters made
  MaxPerAccount,     \* character.max_per_account
  MaxWrites,         \* bound: writes
  MaxAppendFaults    \* bound: appends that fail and crashes

ASSUME AccountsAssumption ==
  /\ BootUser \in Usernames
  /\ {MaxAccounts, MaxSecrets, MaxChars, MaxPerAccount, MaxWrites,
      MaxAppendFaults} \subseteq Nat

VARIABLES
  topic,     \* the accounts topic, by key: [accts, names, mode]
  index,     \* the store's index of it, the same
  running,   \* the store is open
  made,      \* how many of each were made: [account, secret, char]
  issued,    \* the secrets whose value was returned to a caller
  expired,   \* the secrets past their time
  spent,     \* how often each secret was honoured
  logins,    \* the Account of an Authenticate that has verified and not yet issued
  writes, appendFaults,
  agreed,    \* no append the store took for failed has landed
  governed   \* history: the store was opened with an active operator (see Open)

accountVars == <<topic, index, running, made, issued, expired, spent, logins,
                 writes, appendFaults, agreed, governed>>

EmptyStore == [accts |-> <<>>, names |-> <<>>, mode |-> "closed"]

AccountsInit ==
  /\ topic = EmptyStore /\ index = EmptyStore /\ running = FALSE
  /\ made = [account |-> 0, secret |-> 0, char |-> 0]
  /\ issued = {} /\ expired = {} /\ spent = [s \in 1..MaxSecrets |-> 0] /\ logins = {}
  /\ writes = 0 /\ appendFaults = 0 /\ agreed = TRUE /\ governed = FALSE

-------------------------------------------------------------------------------
(* Records. *)

Account(user, op) ==
  [user |-> user, op |-> op, active |-> TRUE, toks |-> <<>>, invites |-> <<>>,
   chars |-> <<>>]

(* A map with one key set. *)
With(f, k, v) == [j \in DOMAIN f \cup {k} |-> IF j = k THEN v ELSE f[j]]

Put(store, id, acc) == [store EXCEPT !.accts = With(@, id, acc)]

Reserve(store, name, char, id) ==
  [store EXCEPT !.names = With(@, name, [char |-> char, account |-> id])]

Without(f, S) == [k \in DOMAIN f \ S |-> f[k]]

Ids == DOMAIN index.accts

Acc(id) == index.accts[id]

UserTaken(user) == \E id \in Ids : Acc(id).user = user

ActiveOperators(store) ==
  {id \in DOMAIN store.accts : store.accts[id].op /\ store.accts[id].active}

RevokeAll(toks) == [t \in DOMAIN toks |-> "revoked"]

(* The Account whose record holds a token or an invite: Store.refresh and Store.invites. *)
SecretHolders(s) == {id \in Ids : s \in DOMAIN Acc(id).toks \cup DOMAIN Acc(id).invites}

(* issue: expired tokens pruned, a new one added. *)
Issued(acc, s) == [acc EXCEPT !.toks = With(Without(@, expired), s, "live")]

-------------------------------------------------------------------------------
(* How a write ends. *)

Writes == writes < MaxWrites /\ writes' = writes + 1

Done(t, i) ==
  Writes /\ topic' = t /\ index' = i /\ UNCHANGED <<running, appendFaults, agreed, governed>>

(* An append that would make the topic t2 is not acknowledged: it is lost, or lands, with *)
(* the index as it was, or the process dies. *)
AppendFails(t, i, t2) ==
  /\ Writes /\ appendFaults < MaxAppendFaults /\ appendFaults' = appendFaults + 1
  /\ UNCHANGED governed
  /\ \/ /\ topic' = t /\ index' = i /\ UNCHANGED <<running, agreed>>
     \/ /\ topic' = t2 /\ index' = i /\ UNCHANGED running
        /\ agreed' = (agreed /\ t2 = t)
     \/ topic' \in {t, t2} /\ index' = EmptyStore /\ running' = FALSE /\ UNCHANGED agreed

Commit(id, acc) == Done(Put(topic, id, acc), Put(index, id, acc))

CommitFails(id, acc) == AppendFails(topic, index, Put(topic, id, acc))

WriteAccount(id, acc) == Commit(id, acc) \/ CommitFails(id, acc)

Make(kind) == made' = [made EXCEPT ![kind] = @ + 1]

(* A secret is made; its value reaches the caller if the record was committed. *)
MakeSecret(id, acc) ==
  /\ made.secret < MaxSecrets /\ Make("secret")
  /\ \/ Commit(id, acc) /\ issued' = issued \cup {made.secret + 1}
     \/ CommitFails(id, acc) /\ UNCHANGED issued

-------------------------------------------------------------------------------
(* Opening and dying. *)

(* Bootstrap: an operator, if there is none and the username is free. *)
BootOperator ==
  /\ ActiveOperators(topic) = {} /\ made.account < MaxAccounts /\ Writes /\ Make("account")
  /\ \A id \in DOMAIN topic.accts : topic.accts[id].user # BootUser
  /\ LET t == Put(topic, made.account + 1, Account(BootUser, TRUE))
     IN \/ /\ topic' = t /\ index' = t /\ running' = TRUE /\ governed' = TRUE
           /\ UNCHANGED appendFaults
        \/ /\ appendFaults < MaxAppendFaults /\ appendFaults' = appendFaults + 1
           /\ topic' \in {topic, t} /\ UNCHANGED <<index, running, governed>>

(* Open: the topic replayed, then Bootstrap if auth.bootstrap_operator is set  *)
(* at this start (boot/accounts.go; by default it is not).  A failure ends the *)
(* process.                                                                   *)
Open ==
  /\ ~running
  /\ \/ /\ index' = topic /\ running' = TRUE
        /\ governed' = (ActiveOperators(topic) # {} \/ (governed /\ agreed))
        /\ UNCHANGED <<topic, made, writes, appendFaults>>
     \/ BootOperator
  /\ logins' = {} /\ UNCHANGED <<issued, expired, spent, agreed>>

Dies ==
  /\ running /\ appendFaults < MaxAppendFaults /\ appendFaults' = appendFaults + 1
  /\ running' = FALSE /\ index' = EmptyStore
  /\ UNCHANGED <<topic, made, issued, expired, spent, logins, agreed, governed, writes>>

Expires(s) ==
  /\ s \in 1..made.secret \ expired /\ expired' = expired \cup {s}
  /\ UNCHANGED <<topic, index, running, made, issued, spent, logins, appendFaults, agreed, governed,
                 writes>>

-------------------------------------------------------------------------------
(* Registration, login and tokens. *)

(* Register: the invite is burned first, then the Account written. *)
Register(user, s) ==
  /\ running /\ index.mode # "closed" /\ made.account < MaxAccounts
  /\ ~UserTaken(user) /\ Make("account")
  /\ LET id == made.account + 1
         new == Account(user, FALSE)
     IN \/ /\ index.mode = "open" /\ s = 0
           /\ WriteAccount(id, new) /\ UNCHANGED spent
        \/ /\ index.mode = "invite" /\ s \in issued \ expired
           /\ \E issuer \in SecretHolders(s) :
                /\ s \in DOMAIN Acc(issuer).invites /\ Acc(issuer).invites[s] = "live"
                /\ LET burned == [Acc(issuer) EXCEPT !.invites[s] = "redeemed"]
                       t == Put(topic, issuer, burned)
                       i == Put(index, issuer, burned)
                   IN \/ /\ Done(Put(t, id, new), Put(i, id, new))
                         /\ spent' = [spent EXCEPT ![s] = @ + 1]
                      \/ /\ AppendFails(topic, index, t) \/ AppendFails(t, i, Put(t, id, new))
                         /\ UNCHANGED spent
  /\ UNCHANGED <<issued, expired, logins>>

(* Authenticate: the credential is verified outside the lock ... *)
Verify(id) ==
  /\ running /\ id \in Ids /\ logins = {} /\ Acc(id).active /\ made.secret < MaxSecrets
  /\ logins' = {id}
  /\ UNCHANGED <<topic, index, running, made, issued, expired, spent, appendFaults, agreed, governed,
                 writes>>

(* ... and the status checked again inside it, where the tokens are issued. *)
Authenticate(id) ==
  /\ running /\ id \in logins /\ logins' = logins \ {id}
  /\ \/ /\ Acc(id).active
        /\ MakeSecret(id, Issued(Acc(id), made.secret + 1))
     \/ ~Acc(id).active
        /\ UNCHANGED <<topic, index, running, made, issued, writes, appendFaults, agreed, governed>>
  /\ UNCHANGED <<expired, spent>>

(* Refresh: the token is revoked and its successor added in the same record. *)
Rotated(acc, s) == Issued([acc EXCEPT !.toks[s] = "revoked"], made.secret + 1)

Refresh(s) ==
  /\ running /\ s \in issued \ expired
  /\ \E id \in SecretHolders(s) :
       /\ s \in DOMAIN Acc(id).toks /\ Acc(id).toks[s] = "live" /\ Acc(id).active
       /\ MakeSecret(id, Rotated(Acc(id), s))
  /\ spent' = IF issued' = issued THEN spent ELSE [spent EXCEPT ![s] = @ + 1]
  /\ UNCHANGED <<expired, logins>>

(* Revoke, of the token or of all the Account has. *)
Revoke(s, all) ==
  /\ running /\ s \in issued
  /\ \E id \in SecretHolders(s) :
       /\ s \in DOMAIN Acc(id).toks
       /\ LET toks == Acc(id).toks
              now == IF all THEN RevokeAll(toks) ELSE [toks EXCEPT ![s] = "revoked"]
          IN now # toks /\ WriteAccount(id, [Acc(id) EXCEPT !.toks = now])
  /\ UNCHANGED <<made, issued, expired, spent, logins>>

-------------------------------------------------------------------------------
(* The operator's writes. *)

CreateAccount(user, op) ==
  /\ running /\ made.account < MaxAccounts /\ ~UserTaken(user) /\ Make("account")
  /\ WriteAccount(made.account + 1, Account(user, op))
  /\ UNCHANGED <<issued, expired, spent, logins>>

CreateAgentAccount(user) == CreateAccount(user, FALSE)

(* lastOperator that counts the Accounts with the role, disabled ones too. *)
LastOperatorAny(id) == {i \in Ids : Acc(i).op} = {id}

LastOperator(id) == ActiveOperators(index) = {id}

ResetPassword(id) ==
  /\ running /\ id \in Ids
  /\ WriteAccount(id, [Acc(id) EXCEPT !.toks = RevokeAll(@)])
  /\ UNCHANGED <<made, issued, expired, spent, logins>>

SetRoles(id, op) ==
  /\ running /\ id \in Ids /\ (op \/ ~LastOperator(id))
  /\ WriteAccount(id, [Acc(id) EXCEPT !.op = op])
  /\ UNCHANGED <<made, issued, expired, spent, logins>>

SetAccountStatus(id, active) ==
  /\ running /\ id \in Ids /\ (active \/ ~LastOperator(id))
  /\ WriteAccount(id, [Acc(id) EXCEPT !.active = active,
                                 !.toks = IF active THEN @ ELSE RevokeAll(@)])
  /\ UNCHANGED <<made, issued, expired, spent, logins>>

(* IssueInvite: the issuer's expired invites pruned, unless redeemed. *)
IssueInvite(id) ==
  /\ running /\ id \in ActiveOperators(index)
  /\ LET stale == {s \in DOMAIN Acc(id).invites \cap expired : Acc(id).invites[s] # "redeemed"}
     IN MakeSecret(id, [Acc(id) EXCEPT !.invites = With(Without(@, stale), made.secret + 1, "live")])
  /\ UNCHANGED <<expired, spent, logins>>

RevokeInvite(s) ==
  /\ running /\ s \in issued
  /\ \E id \in SecretHolders(s) :
       /\ s \in DOMAIN Acc(id).invites /\ Acc(id).invites[s] # "redeemed"
       /\ WriteAccount(id, [Acc(id) EXCEPT !.invites[s] = "revoked"])
  /\ UNCHANGED <<made, issued, expired, spent, logins>>

(* The record as indexed, but for a field that nothing here tells apart. *)
Rewrite(id) ==
  /\ running /\ id \in Ids /\ WriteAccount(id, Acc(id))
  /\ UNCHANGED <<made, issued, expired, spent, logins>>

SetBuilderPacks(id) == Rewrite(id)

SetMode(store, mode) == [store EXCEPT !.mode = mode]

SetRegistrationMode(mode) ==
  /\ running /\ mode # index.mode
  /\ \/ Done(SetMode(topic, mode), SetMode(index, mode))
     \/ AppendFails(topic, index, SetMode(topic, mode))
  /\ UNCHANGED <<made, issued, expired, spent, logins>>

-------------------------------------------------------------------------------
(* Characters. *)

(* countSlots: a deleted Character keeps its slot until it is purged. *)
Slots(acc) == {c \in DOMAIN acc.chars : acc.chars[c].st # "purged"}

(* CreateCharacter: the name is reserved, then the Character is on its Account. *)
CreateCharacter(id, name) ==
  /\ running /\ id \in Ids /\ made.char < MaxChars /\ Make("char")
  /\ Cardinality(Slots(Acc(id))) < MaxPerAccount
  /\ name \notin DOMAIN index.names
  /\ LET c == made.char + 1
         acc == [Acc(id) EXCEPT !.chars = With(@, c, [name |-> name, st |-> "active"])]
         t == Reserve(topic, name, c, id)
         i == Reserve(index, name, c, id)
     IN \/ Done(Put(t, id, acc), Put(i, id, acc))
        \/ AppendFails(topic, index, t)
        \/ AppendFails(t, i, Put(t, id, acc))
  /\ UNCHANGED <<issued, expired, spent, logins>>

StatusBecomes(id, c, from, to) ==
  /\ running /\ id \in Ids /\ c \in DOMAIN Acc(id).chars
  /\ Acc(id).chars[c].st = from
  /\ WriteAccount(id, [Acc(id) EXCEPT !.chars[c].st = to])
  /\ UNCHANGED <<made, issued, expired, spent, logins>>

DeleteCharacter(id, c) == StatusBecomes(id, c, "active", "deleted")

(* MarkPurged, once the retention has passed and the PurgeCharacter is durable. *)
MarkPurged(id, c) == StatusBecomes(id, c, "deleted", "purged")

SetCharacterPosition(id, c) ==
  id \in Ids /\ c \in DOMAIN Acc(id).chars /\ Rewrite(id)

(* A reservation no Character is behind, in any status. *)
DeadNames ==
  {n \in DOMAIN index.names :
     LET res == index.names[n]
     IN res.account \notin Ids \/ res.char \notin DOMAIN Acc(res.account).chars}

(* ReclaimReservations: one tombstone each, in the order of the names. *)
Reclaim(n) ==
  /\ running /\ n \in DeadNames
  /\ LET t == [topic EXCEPT !.names = Without(@, {n})]
     IN \/ Done(t, [index EXCEPT !.names = Without(@, {n})])
        \/ AppendFails(topic, index, t)
  /\ UNCHANGED <<made, issued, expired, spent, logins>>

AccountsNext ==
  \/ Open \/ Dies
  \/ \E s \in 1..MaxSecrets :
       \/ Expires(s) \/ Refresh(s) \/ RevokeInvite(s)
       \/ \E all \in BOOLEAN : Revoke(s, all)
  \/ \E user \in Usernames :
       \/ \E s \in 0..MaxSecrets : Register(user, s)
       \/ CreateAgentAccount(user)
       \/ \E op \in BOOLEAN : CreateAccount(user, op)
  \/ \E id \in 1..MaxAccounts :
       \/ Verify(id) \/ Authenticate(id) \/ ResetPassword(id) \/ IssueInvite(id)
       \/ SetBuilderPacks(id)
       \/ \E b \in BOOLEAN : SetRoles(id, b) \/ SetAccountStatus(id, b)
       \/ \E n \in Names : CreateCharacter(id, n)
       \/ \E c \in 1..MaxChars :
            DeleteCharacter(id, c) \/ MarkPurged(id, c) \/ SetCharacterPosition(id, c)
  \/ \E mode \in {"closed", "invite", "open"} : SetRegistrationMode(mode)
  \/ \E n \in Names : Reclaim(n)

AccountsSpec == AccountsInit /\ [][AccountsNext]_accountVars

-------------------------------------------------------------------------------
(* Properties. *)

Stores == {topic, index}

AccountsTypeOK ==
  /\ \A store \in Stores :
       /\ DOMAIN store.accts \subseteq 1..MaxAccounts
       /\ \A id \in DOMAIN store.accts :
            LET acc == store.accts[id]
            IN /\ acc.user \in Usernames /\ acc.op \in BOOLEAN /\ acc.active \in BOOLEAN
               /\ DOMAIN acc.toks \cup DOMAIN acc.invites \subseteq 1..MaxSecrets
               /\ DOMAIN acc.chars \subseteq 1..MaxChars
       /\ DOMAIN store.names \subseteq Names
       /\ store.mode \in {"closed", "invite", "open"}
  /\ running \in BOOLEAN /\ agreed \in BOOLEAN /\ governed \in BOOLEAN
  /\ issued \cup expired \subseteq 1..MaxSecrets /\ logins \subseteq 1..MaxAccounts
  /\ appendFaults \in 0..MaxAppendFaults /\ writes \in 0..MaxWrites

(* A secret is honoured at most once, whatever fails and however often the process       *)
(* restarts: a refresh token is exchanged for one pair, an invite makes one Account      *)
(* (Store.Refresh, Store.Register: the record is durable before the caller is answered). *)
SpentOnce == \A s \in 1..MaxSecrets : spent[s] <= 1

(* Names are for good: no two Accounts have a username, and no two Characters, purged    *)
(* ones included, a name, in the index and in the topic a restart would read; each       *)
(* Character's reservation is its own (CreateCharacter, ReclaimReservations).  Unless an *)
(* append the store took for failed has landed: the index is then behind the topic, and  *)
(* the checks made against it do not see what a restart brings back.                     *)
NamesForGood ==
  agreed =>
    \A store \in Stores :
      /\ \A i, j \in DOMAIN store.accts : store.accts[i].user = store.accts[j].user => i = j
      /\ \A id \in DOMAIN store.accts : \A c \in DOMAIN store.accts[id].chars :
           LET n == store.accts[id].chars[c].name
           IN n \in DOMAIN store.names /\ store.names[n] = [char |-> c, account |-> id]

(* The last operator is for good: once the store was opened with an active operator, no  *)
(* write takes the last one (lastOperator, whatever landed of what the store took for    *)
(* failed), and no restart finds none (unless an append taken for failed has landed: the *)
(* check is made against the index, and two operators can be disabled, one of them       *)
(* behind its back).  A store that never had one (auth.bootstrap_operator is empty by    *)
(* default) promises nothing.                                                            *)
OperatorRemains ==
  governed =>
    /\ running => ActiveOperators(index) # {}
    /\ agreed => ActiveOperators(topic) # {}
===============================================================================
