--------------------------- MODULE IdentityProofs ---------------------------
(***************************************************************************)
(* Theorems about Identity for any sets of users, sessions, agents and     *)
(* logins and any bounds.  What a command on an account does, and what it  *)
(* may do, is stated once (Effect, Lawful); each invariant is preserved by *)
(* all of them through it.                                                 *)
(***************************************************************************)
EXTENDS Identity, TLAPS

(* One user's row written, the others left as they were.                    *)
Written(u, account) == [db.users EXCEPT ![u] = account]

Versioned(account) == [account EXCEPT !.version = @ + 1]

(* A command on an account writes its row and ends no proofs of its user,   *)
(* the sessions, or the sessions and the agent credentials.                 *)
Effect(u, account) ==
  /\ account \in Accounts
  /\ db' \in Databases
  /\ db'.instance = db.instance /\ db'.users = Written(u, account)
  /\ \/ db'.sessions = db.sessions /\ db'.agents = db.agents /\ ended' = ended
     \/ /\ db'.sessions = Revoked(db.sessions, u) /\ db'.agents = db.agents
        /\ ended' = [ended EXCEPT ![u].sessions = @ + 1]
     \/ /\ db'.sessions = Revoked(db.sessions, u) /\ db'.agents = Revoked(db.agents, u)
        /\ ended' = [ended EXCEPT ![u] = [sessions |-> @.sessions + 1, agents |-> @.agents + 1]]

(* Rows never created have no authority and were never signed in with.      *)
AbsentRows(users) ==
  \A u \in Users : users[u].status = "absent" => users[u].roles = {} /\ users[u].version = 0

HasOwner(users) == \E u \in Users : EnabledOwner(users, u)

(* What a command on an account may do: leave no enabled user without a     *)
(* credential nor the instance without an Owner, and act in the name of an  *)
(* enabled user who has every scope of the account.                         *)
Lawful(u, account) ==
  /\ Effect(u, account)
  /\ account.status # "absent" /\ account.version > db.users[u].version
  /\ account.status = "enabled" => Accepted(account.creds, providers)
  /\ EnabledOwner(db.users, u) =>
       (account.status = "enabled" /\ "owner" \in account.roles) \/ AnotherOwner(u)
  /\ audit' \in Users /\ Enabled(audit')
  /\ UserScopes(u) \subseteq UserScopes(audit')
  /\ \A role \in account.roles : ScopesOf(role) \subseteq UserScopes(audit')

Ready == providers # {} => db.instance # 0 /\ ~Stranded(db.users, providers)

------------------------------------------------------------------------------
(* Tables and rows. *)

LEMMA Tables ==
  ASSUME NEW old \in Databases, NEW us, NEW ss, NEW ag
  PROVE  /\ [old EXCEPT !.users = us].instance = old.instance
         /\ [old EXCEPT !.users = us].users = us
         /\ [old EXCEPT !.users = us].sessions = old.sessions
         /\ [old EXCEPT !.users = us].agents = old.agents
         /\ [old EXCEPT !.users = us, !.sessions = ss].instance = old.instance
         /\ [old EXCEPT !.users = us, !.sessions = ss].users = us
         /\ [old EXCEPT !.users = us, !.sessions = ss].sessions = ss
         /\ [old EXCEPT !.users = us, !.sessions = ss].agents = old.agents
         /\ [old EXCEPT !.users = us, !.sessions = ss, !.agents = ag].instance = old.instance
         /\ [old EXCEPT !.users = us, !.sessions = ss, !.agents = ag].users = us
         /\ [old EXCEPT !.users = us, !.sessions = ss, !.agents = ag].sessions = ss
         /\ [old EXCEPT !.users = us, !.sessions = ss, !.agents = ag].agents = ag
  BY DEF Databases

LEMMA TablesTyped ==
  ASSUME NEW old \in Databases, NEW us \in [Users -> Accounts],
         NEW ss \in [Sessions -> SessionRows \cup {None}],
         NEW ag \in [Agents -> AgentRows \cup {None}]
  PROVE  /\ [old EXCEPT !.users = us] \in Databases
         /\ [old EXCEPT !.users = us, !.sessions = ss] \in Databases
         /\ [old EXCEPT !.users = us, !.sessions = ss, !.agents = ag] \in Databases
         /\ [old EXCEPT !.sessions = ss] \in Databases
         /\ [old EXCEPT !.agents = ag] \in Databases
  BY DEF Databases

LEMMA RevokedTyped ==
  ASSUME NEW u, db \in Databases
  PROVE  /\ Revoked(db.sessions, u) \in [Sessions -> SessionRows \cup {None}]
         /\ Revoked(db.agents, u) \in [Agents -> AgentRows \cup {None}]
PROOF
<1>1. /\ \A f \in SessionRows : [f EXCEPT !.state = "revoked"] \in SessionRows
      /\ \A f \in AgentRows : [f EXCEPT !.state = "revoked"] \in AgentRows
  BY DEF SessionRows, AgentRows, States
<1>2. /\ db.sessions \in [Sessions -> SessionRows \cup {None}]
      /\ db.agents \in [Agents -> AgentRows \cup {None}]
  BY DEF Databases
<1> QED  BY <1>1, <1>2 DEF Revoked

LEMMA Edited ==
  ASSUME NEW old \in Accounts
  PROVE  /\ \A status \in Statuses : [old EXCEPT !.status = status] \in Accounts
         /\ \A roles \in SUBSET Roles : [old EXCEPT !.roles = roles] \in Accounts
         /\ \A m \in Providers : [old EXCEPT !.creds[m] = @ + 1] \in Accounts
         /\ \A m \in Providers : [old EXCEPT !.creds[m] = 0] \in Accounts
         /\ Versioned(old) \in Accounts
  BY DEF Accounts, Versioned

(* Whoever passes a command's check is an enabled user with the scope.      *)
LEMMA ActorTyped ==
  ASSUME TypeOK, NEW p \in Principals, NEW scope, Allowed(p, scope)
  PROVE  ActorOf(p) \in Users /\ Enabled(ActorOf(p)) /\ scope \in UserScopes(ActorOf(p))
PROOF
<1>1. Row(p) # None /\ Enabled(ActorOf(p)) /\ scope \in GrantsOf(p)
  BY DEF Allowed, Active
<1>2. Row(p) \in SessionRows \cup AgentRows
  BY <1>1 DEF Row, TypeOK, Databases, Principals
<1> QED  BY <1>1, <1>2 DEF ActorOf, SessionRows, AgentRows, GrantsOf

------------------------------------------------------------------------------
(* The effect of each command on an account. *)

LEMMA EffectKept ==
  ASSUME TypeOK, NEW u \in Users, NEW account \in Accounts,
         db' = [db EXCEPT !.users = Written(u, account)], ended' = ended
  PROVE  Effect(u, account)
PROOF
<1>1. db \in Databases  BY DEF TypeOK
<1>2. Written(u, account) \in [Users -> Accounts]  BY <1>1 DEF Databases, Written
<1>3. /\ db.sessions \in [Sessions -> SessionRows \cup {None}]
      /\ db.agents \in [Agents -> AgentRows \cup {None}]
  BY <1>1 DEF Databases
<1>4. db' \in Databases  BY <1>1, <1>2, <1>3, TablesTyped
<1>5. /\ db'.instance = db.instance /\ db'.users = Written(u, account)
      /\ db'.sessions = db.sessions /\ db'.agents = db.agents
  BY <1>1, Tables
<1> QED  BY <1>4, <1>5 DEF Effect

LEMMA EffectEnding ==
  ASSUME TypeOK, NEW u \in Users, NEW account \in Accounts,
         \/ /\ db' = [db EXCEPT !.users = Written(u, account), !.sessions = Revoked(db.sessions, u)]
            /\ EndSessions(u)
         \/ /\ db' = [db EXCEPT !.users = Written(u, account), !.sessions = Revoked(db.sessions, u),
                                !.agents = Revoked(db.agents, u)]
            /\ EndAll(u)
  PROVE  Effect(u, account)
PROOF
<1>1. db \in Databases  BY DEF TypeOK
<1>2. Written(u, account) \in [Users -> Accounts]  BY <1>1 DEF Databases, Written
<1>3. /\ Revoked(db.sessions, u) \in [Sessions -> SessionRows \cup {None}]
      /\ Revoked(db.agents, u) \in [Agents -> AgentRows \cup {None}]
  BY <1>1, RevokedTyped
<1>4. CASE /\ db' = [db EXCEPT !.users = Written(u, account), !.sessions = Revoked(db.sessions, u)]
           /\ EndSessions(u)
  <2>1. db' \in Databases  BY <1>1, <1>2, <1>3, <1>4, TablesTyped
  <2>2. /\ db'.instance = db.instance /\ db'.users = Written(u, account)
        /\ db'.sessions = Revoked(db.sessions, u) /\ db'.agents = db.agents
    BY <1>1, <1>4, Tables
  <2> QED  BY <2>1, <2>2, <1>4 DEF Effect, EndSessions
<1>5. CASE /\ db' = [db EXCEPT !.users = Written(u, account), !.sessions = Revoked(db.sessions, u),
                               !.agents = Revoked(db.agents, u)]
           /\ EndAll(u)
  <2>1. db' \in Databases  BY <1>1, <1>2, <1>3, <1>5, TablesTyped
  <2>2. /\ db'.instance = db.instance /\ db'.users = Written(u, account)
        /\ db'.sessions = Revoked(db.sessions, u) /\ db'.agents = Revoked(db.agents, u)
    BY <1>1, <1>5, Tables
  <2> QED  BY <2>1, <2>2, <1>5 DEF Effect, EndAll
<1> QED  BY <1>4, <1>5

------------------------------------------------------------------------------
(* Each command on an account is lawful. *)

LEMMA ScopeFacts ==
  ASSUME db \in Databases, NEW u \in Users
  PROVE  /\ db.users[u] \in Accounts
         /\ UserScopes(u) \subseteq Scopes
         /\ "role_assign" \in UserScopes(u) => UserScopes(u) = Scopes
         /\ "user_manage" \in UserScopes(u) => "release_manage" \in UserScopes(u)
         /\ \A role \in db.users[u].roles : ScopesOf(role) \subseteq UserScopes(u)
         /\ db.users[u].roles = {} => UserScopes(u) = {}
         /\ \A role \in Roles : ScopesOf(role) \subseteq Scopes
  BY DEF Databases, Accounts, UserScopes, ScopesAt, ScopesOf, Roles, Scopes

LEMMA CreateLawful ==
  ASSUME TypeOK, AbsentRows(db.users), NEW p \in Principals, NEW u \in Users,
         NEW roles \in RoleSets, NEW status \in Statuses, NEW methods,
         CreateUser(p, u, roles, status, methods)
  PROVE  \E account : Lawful(u, account)
PROOF
<1> DEFINE account == [status |-> status, roles |-> roles, version |-> 1,
                       creds |-> [m \in Providers |-> IF m \in methods THEN 1 ELSE 0]]
<1>0. db \in Databases  BY DEF TypeOK
<1>1. account \in Accounts  BY IdentityConstants DEF Accounts
<1>2. /\ audit' = ActorOf(p) /\ audit' \in Users /\ Enabled(audit')
      /\ "user_manage" \in UserScopes(audit')
  BY ActorTyped DEF CreateUser, Command
<1>3. db.users[u].roles = {} /\ db.users[u].version = 0
  BY DEF CreateUser, AbsentRows
<1>4. Effect(u, account)
  <2>1. db' = [db EXCEPT !.users = Written(u, account)] /\ ended' = ended
    BY <1>0 DEF CreateUser, Written, Databases
  <2> QED  BY <2>1, <1>1, EffectKept
<1>5. account.status = "enabled" => Accepted(account.creds, providers)
  BY DEF CreateUser, Accepted, TypeOK
<1>6. \A role \in account.roles : ScopesOf(role) \subseteq UserScopes(audit')
  <2>1. CASE roles = {"publisher"}
    <3>1. "release_manage" \in UserScopes(audit')  BY <1>0, <1>2, ScopeFacts
    <3> QED  BY <2>1, <3>1 DEF ScopesOf
  <2>2. CASE roles # {"publisher"}
    <3>1. UserScopes(audit') = Scopes  BY <2>2, <1>0, <1>2, ScopeFacts DEF CreateUser
    <3> QED  BY <3>1, IdentityConstants DEF ScopesOf, Roles, Scopes
  <2> QED  BY <2>1, <2>2
<1>7. UserScopes(u) \subseteq UserScopes(audit')  BY <1>0, <1>3, ScopeFacts
<1>8. account.status # "absent" /\ account.version > db.users[u].version
  BY <1>3 DEF Statuses
<1>9. ~EnabledOwner(db.users, u)  BY DEF CreateUser, EnabledOwner
<1> QED  BY <1>2, <1>4, <1>5, <1>6, <1>7, <1>8, <1>9 DEF Lawful

(* The other commands keep the account's roles or its credentials.          *)
LEMMA KeptLawful ==
  ASSUME TypeOK, NEW p \in Principals, NEW u \in Users, NEW scope, Command(p, scope),
         Outranks(ActorOf(p), u), NEW edited \in Accounts, edited.roles = db.users[u].roles,
         edited.version = db.users[u].version, edited.status # "absent",
         edited.status = "enabled" => Accepted(edited.creds, providers),
         EnabledOwner(db.users, u) => edited.status = "enabled" \/ AnotherOwner(u),
         Effect(u, Versioned(edited))
  PROVE  Lawful(u, Versioned(edited))
PROOF
<1>0. db \in Databases  BY DEF TypeOK
<1>1. /\ audit' = ActorOf(p) /\ audit' \in Users /\ Enabled(audit')
  BY ActorTyped DEF Command
<1>2. /\ Versioned(edited).status = edited.status /\ Versioned(edited).roles = edited.roles
      /\ Versioned(edited).creds = edited.creds
      /\ Versioned(edited).version > db.users[u].version
  BY <1>0 DEF Versioned, Accounts
<1>3. UserScopes(u) \subseteq UserScopes(audit')  BY <1>1 DEF Outranks
<1>4. \A role \in edited.roles : ScopesOf(role) \subseteq UserScopes(audit')
  BY <1>0, <1>3, ScopeFacts
<1> QED  BY <1>1, <1>2, <1>3, <1>4 DEF Lawful, EnabledOwner

LEMMA StatusLawful ==
  ASSUME TypeOK, NEW p \in Principals, NEW u \in Users, NEW status \in Statuses,
         SetUserStatus(p, u, status)
  PROVE  \E account : Lawful(u, account)
PROOF
<1> DEFINE edited == [db.users[u] EXCEPT !.status = status]
<1>0. db \in Databases /\ db.users[u] \in Accounts  BY DEF TypeOK, Databases
<1>1. edited \in Accounts /\ Versioned(edited) \in Accounts  BY <1>0, Edited
<1>2. /\ edited.roles = db.users[u].roles /\ edited.version = db.users[u].version
      /\ edited.status = status /\ edited.creds = db.users[u].creds
  BY <1>0 DEF Accounts
<1>3. Changed(u, edited) = Written(u, Versioned(edited))  BY DEF Changed, Written, Versioned
<1>4. /\ Command(p, "user_manage") /\ Outranks(ActorOf(p), u)
      /\ status = "enabled" => Accepted(edited.creds, providers)
      /\ EnabledOwner(db.users, u) /\ status = "disabled" => AnotherOwner(u)
  BY DEF SetUserStatus
<1>5. \/ db' = [db EXCEPT !.users = Changed(u, edited)] /\ ended' = ended
      \/ /\ db' = [db EXCEPT !.users = Changed(u, edited), !.sessions = Revoked(db.sessions, u),
                             !.agents = Revoked(db.agents, u)]
         /\ EndAll(u)
  BY <1>0 DEF SetUserStatus, Databases
<1> HIDE DEF edited
<1>6. Effect(u, Versioned(edited))  BY <1>1, <1>3, <1>5, EffectKept, EffectEnding
<1>7. edited.status # "absent"  BY <1>2 DEF Statuses
<1>8. EnabledOwner(db.users, u) => edited.status = "enabled" \/ AnotherOwner(u)
  BY <1>2, <1>4 DEF Statuses
<1> QED  BY <1>1, <1>2, <1>4, <1>6, <1>7, <1>8, KeptLawful

LEMMA RolesLawful ==
  ASSUME TypeOK, Ready, NEW p \in Principals, NEW u \in Users, NEW roles \in RoleSets,
         ReplaceUserRoles(p, u, roles)
  PROVE  \E account : Lawful(u, account)
PROOF
<1> DEFINE edited == [db.users[u] EXCEPT !.roles = roles]
<1>0. db \in Databases /\ db.users[u] \in Accounts  BY DEF TypeOK, Databases
<1>1. edited \in Accounts /\ Versioned(edited) \in Accounts  BY <1>0, Edited, IdentityConstants
<1>2. /\ Versioned(edited).roles = roles /\ Versioned(edited).version > db.users[u].version
      /\ Versioned(edited).status = db.users[u].status
      /\ Versioned(edited).creds = db.users[u].creds
  BY <1>0 DEF Accounts, Versioned
<1>3. Changed(u, edited) = Written(u, Versioned(edited))  BY DEF Changed, Written, Versioned
<1>4. /\ providers # {} /\ db.users[u].status # "absent"
      /\ EnabledOwner(db.users, u) /\ "owner" \notin roles => AnotherOwner(u)
      /\ db' = [db EXCEPT !.users = Changed(u, edited)] /\ ended' = ended
  BY DEF ReplaceUserRoles, Command
<1>5. /\ audit' \in Users /\ Enabled(audit') /\ UserScopes(audit') = Scopes
  BY <1>0, ActorTyped, ScopeFacts DEF ReplaceUserRoles, Command
<1> HIDE DEF edited
<1>6. Effect(u, Versioned(edited))  BY <1>1, <1>3, <1>4, EffectKept
<1>7. db.users[u].status = "enabled" => Accepted(db.users[u].creds, providers)
  BY <1>4 DEF Ready, Stranded
<1>8. EnabledOwner(db.users, u) =>
        (Versioned(edited).status = "enabled" /\ "owner" \in roles) \/ AnotherOwner(u)
  BY <1>2, <1>4 DEF EnabledOwner
<1>9. \A role \in roles : ScopesOf(role) \subseteq UserScopes(audit')
  BY <1>0, <1>5, ScopeFacts, IdentityConstants
<1>10. UserScopes(u) \subseteq UserScopes(audit')  BY <1>0, <1>5, ScopeFacts
<1> QED  BY <1>2, <1>4, <1>5, <1>6, <1>7, <1>8, <1>9, <1>10 DEF Lawful

LEMMA PutLawful ==
  ASSUME TypeOK, Ready, NEW p \in Principals, NEW u \in Users, NEW m \in Providers,
         PutHumanCredential(p, u, m)
  PROVE  \E account : Lawful(u, account)
PROOF
<1> DEFINE edited == [db.users[u] EXCEPT !.creds[m] = @ + 1]
<1>0. db \in Databases /\ db.users[u] \in Accounts  BY DEF TypeOK, Databases
<1>1. edited \in Accounts /\ Versioned(edited) \in Accounts  BY <1>0, Edited
<1>2. /\ edited.roles = db.users[u].roles /\ edited.version = db.users[u].version
      /\ edited.status = db.users[u].status
      /\ edited.creds = [db.users[u].creds EXCEPT ![m] = @ + 1]
  BY <1>0 DEF Accounts
<1>3. Changed(u, edited) = Written(u, Versioned(edited))  BY DEF Changed, Written, Versioned
<1>4. Command(p, "credential_manage") /\ Outranks(ActorOf(p), u) /\ providers # {}
  BY DEF PutHumanCredential, Command
<1>5. \/ db' = [db EXCEPT !.users = Changed(u, edited)] /\ ended' = ended
      \/ /\ db' = [db EXCEPT !.users = Changed(u, edited), !.sessions = Revoked(db.sessions, u)]
         /\ EndSessions(u)
  BY <1>0 DEF PutHumanCredential, Databases
<1> HIDE DEF edited
<1>6. Effect(u, Versioned(edited))  BY <1>1, <1>3, <1>5, EffectKept, EffectEnding
<1>7. edited.status # "absent"  BY <1>2, <1>4 DEF Outranks
<1>8. edited.status = "enabled" => Accepted(edited.creds, providers)
  <2>1. SUFFICES ASSUME db.users[u].status = "enabled" PROVE Accepted(edited.creds, providers)
    BY <1>2
  <2>2. PICK n \in providers : db.users[u].creds[n] # 0
    BY <2>1, <1>4 DEF Ready, Stranded, Accepted
  <2>3. n \in Providers /\ db.users[u].creds \in [Providers -> Nat]
    BY <1>0 DEF TypeOK, Accounts
  <2>4. edited.creds[n] # 0  BY <2>2, <2>3, <1>2
  <2> QED  BY <2>4 DEF Accepted
<1>9. EnabledOwner(db.users, u) => edited.status = "enabled"
  BY <1>2 DEF EnabledOwner
<1> QED  BY <1>1, <1>2, <1>4, <1>6, <1>7, <1>8, <1>9, KeptLawful

LEMMA RemoveLawful ==
  ASSUME TypeOK, NEW p \in Principals, NEW u \in Users, NEW m \in Providers,
         RemoveHumanCredential(p, u, m)
  PROVE  \E account : Lawful(u, account)
PROOF
<1> DEFINE edited == [db.users[u] EXCEPT !.creds[m] = 0]
<1>0. db \in Databases /\ db.users[u] \in Accounts  BY DEF TypeOK, Databases
<1>1. edited \in Accounts /\ Versioned(edited) \in Accounts  BY <1>0, Edited
<1>2. /\ edited.roles = db.users[u].roles /\ edited.version = db.users[u].version
      /\ edited.status = db.users[u].status
      /\ edited.creds = [db.users[u].creds EXCEPT ![m] = 0]
  BY <1>0 DEF Accounts
<1>3. Changed(u, edited) = Written(u, Versioned(edited))  BY DEF Changed, Written, Versioned
<1>4. Command(p, "credential_manage") /\ Outranks(ActorOf(p), u) /\ Removable(u, m)
  BY DEF RemoveHumanCredential
<1>5. /\ db' = [db EXCEPT !.users = Changed(u, edited), !.sessions = Revoked(db.sessions, u)]
      /\ EndSessions(u)
  BY <1>0 DEF RemoveHumanCredential, Databases
<1> HIDE DEF edited
<1>6. Effect(u, Versioned(edited))  BY <1>1, <1>3, <1>5, EffectEnding
<1>7. edited.status # "absent"  BY <1>2, <1>4 DEF Outranks
<1>8. edited.status = "enabled" => Accepted(edited.creds, providers)
  BY <1>2, <1>4 DEF Removable, Enabled
<1>9. EnabledOwner(db.users, u) => edited.status = "enabled"
  BY <1>2 DEF EnabledOwner
<1> QED  BY <1>1, <1>2, <1>4, <1>6, <1>7, <1>8, <1>9, KeptLawful

(* The commands on accounts, as one.                                        *)
LEMMA UserCommandLawful ==
  ASSUME TypeOK, Ready, AbsentRows(db.users), UserCommand
  PROVE  \E u \in Users : \E account : Lawful(u, account)
  BY CreateLawful, StatusLawful, RolesLawful, PutLawful, RemoveLawful DEF UserCommand

LEMMA UserCommandFrame ==
  ASSUME UserCommand
  PROVE  /\ providers # {} /\ budget.commands > 0
         /\ budget' = [budget EXCEPT !.commands = @ - 1]
         /\ UNCHANGED <<providers, backup, logins>>
PROOF
<1>1. PICK p \in Principals, u \in Users :
        \/ \E roles \in RoleSets, status \in Statuses, methods \in MethodSets :
             CreateUser(p, u, roles, status, methods)
        \/ \E status \in Statuses : SetUserStatus(p, u, status)
        \/ \E roles \in RoleSets : ReplaceUserRoles(p, u, roles)
        \/ \E m \in Providers : PutHumanCredential(p, u, m) \/ RemoveHumanCredential(p, u, m)
  BY DEF UserCommand
<1>2. \E scope : Command(p, scope)
  <2>1. CASE \E roles \in RoleSets, status \in Statuses, methods \in MethodSets :
               CreateUser(p, u, roles, status, methods)
    BY <2>1 DEF CreateUser
  <2>2. CASE \E status \in Statuses : SetUserStatus(p, u, status)
    BY <2>2 DEF SetUserStatus
  <2>3. CASE \E roles \in RoleSets : ReplaceUserRoles(p, u, roles)
    BY <2>3 DEF ReplaceUserRoles
  <2>4. CASE \E m \in Providers : PutHumanCredential(p, u, m) \/ RemoveHumanCredential(p, u, m)
    BY <2>4 DEF PutHumanCredential, RemoveHumanCredential
  <2> QED  BY <1>1, <2>1, <2>2, <2>3, <2>4
<1> QED  BY <1>2 DEF Command

------------------------------------------------------------------------------
(* Type correctness. *)

LEMMA TypeInit == ASSUME Init PROVE TypeOK
PROOF
<1>1. Absent \in Accounts  BY DEF Absent, Accounts, Statuses
<1>2. Empty \in Databases  BY <1>1 DEF Empty, Databases
<1> QED  BY <1>2, IdentityConstants DEF Init, TypeOK

LEMMA UserCommandTyped ==
  ASSUME TypeOK, Ready, AbsentRows(db.users), UserCommand
  PROVE  TypeOK'
PROOF
<1>1. PICK u \in Users : \E account : Lawful(u, account)  BY UserCommandLawful
<1>2. PICK account : Lawful(u, account)  BY <1>1
<1>3. db' \in Databases /\ audit' \in Users  BY <1>2 DEF Lawful, Effect
<1>4. ended' \in [Users -> [sessions : Nat, agents : Nat]]
  BY <1>2 DEF Lawful, Effect, TypeOK
<1>5. budget' \in [commands : 0..MaxCommands, events : 0..MaxEvents]
  BY UserCommandFrame, IdentityConstants DEF TypeOK
<1>6. UNCHANGED <<providers, backup, logins>>  BY UserCommandFrame
<1> QED  BY <1>3, <1>4, <1>5, <1>6 DEF TypeOK

LEMMA AgentCommandFrame ==
  ASSUME TypeOK, AgentCommand
  PROVE  /\ audit' \in Users /\ budget' \in [commands : 0..MaxCommands, events : 0..MaxEvents]
         /\ UNCHANGED <<providers, backup, logins, ended>>
PROOF
<1>1. PICK p \in Principals, scope \in Scopes : Command(p, scope)
  BY DEF AgentCommand, RegisterAgentCredential, ReplaceAgentScopes, RevokeAgentCredential, Scopes
<1>2. audit' \in Users  BY <1>1, ActorTyped DEF Command
<1>3. budget' \in [commands : 0..MaxCommands, events : 0..MaxEvents]
  BY <1>1, IdentityConstants DEF Command, TypeOK
<1>4. ended' = ended
  BY DEF AgentCommand, RegisterAgentCredential, ReplaceAgentScopes, RevokeAgentCredential
<1> QED  BY <1>1, <1>2, <1>3, <1>4 DEF Command

(* A command on an agent credential writes a typed row.                     *)
LEMMA AgentCommandEffect ==
  ASSUME TypeOK, AgentCommand
  PROVE  \E a \in Agents, row \in AgentRows :
           /\ db' = [db EXCEPT !.agents = [@ EXCEPT ![a] = row]]
           /\ row.state = "live" =>
                \/ row.since = ended[row.user].agents
                \/ /\ db.agents[a] # None /\ row.user = db.agents[a].user
                   /\ row.state = db.agents[a].state /\ row.since = db.agents[a].since
PROOF
<1>0. db \in Databases /\ ended \in [Users -> [sessions : Nat, agents : Nat]]  BY DEF TypeOK
<1>1. PICK p \in Principals, a \in Agents :
        \/ \E u \in Users, scopes \in GrantSets : RegisterAgentCredential(p, u, a, scopes)
        \/ \E scopes \in GrantSets : ReplaceAgentScopes(p, a, scopes)
        \/ RevokeAgentCredential(p, a)
  BY DEF AgentCommand
<1>2. CASE \E u \in Users, scopes \in GrantSets : RegisterAgentCredential(p, u, a, scopes)
  <2>1. PICK u \in Users, scopes \in GrantSets : RegisterAgentCredential(p, u, a, scopes)  BY <1>2
  <2> DEFINE row == [user |-> u, scopes |-> scopes, state |-> "live", since |-> ended[u].agents]
  <2>2. row \in AgentRows  BY <1>0, IdentityConstants DEF AgentRows, States
  <2>3. db' = [db EXCEPT !.agents = [@ EXCEPT ![a] = row]]
    BY <1>0, <2>1 DEF RegisterAgentCredential, Databases
  <2> QED  BY <2>2, <2>3
<1>3. CASE \E scopes \in GrantSets : ReplaceAgentScopes(p, a, scopes)
  <2>1. PICK scopes \in GrantSets : ReplaceAgentScopes(p, a, scopes)  BY <1>3
  <2> DEFINE row == [db.agents[a] EXCEPT !.scopes = scopes]
  <2>2. db.agents[a] \in AgentRows  BY <1>0, <2>1 DEF ReplaceAgentScopes, Databases
  <2>3. row \in AgentRows  BY <2>2, IdentityConstants DEF AgentRows
  <2>4. db' = [db EXCEPT !.agents = [@ EXCEPT ![a] = row]]
    BY <1>0, <2>1 DEF ReplaceAgentScopes, Databases
  <2>5. row.user = db.agents[a].user /\ row.state = db.agents[a].state /\ row.since = db.agents[a].since
    BY <2>2 DEF AgentRows
  <2> QED  BY <2>1, <2>3, <2>4, <2>5 DEF ReplaceAgentScopes
<1>4. CASE RevokeAgentCredential(p, a)
  <2> DEFINE row == [db.agents[a] EXCEPT !.state = "revoked"]
  <2>1. db.agents[a] \in AgentRows  BY <1>0, <1>4 DEF RevokeAgentCredential, Databases
  <2>2. row \in AgentRows /\ row.state = "revoked"  BY <2>1 DEF AgentRows, States
  <2>3. db' = [db EXCEPT !.agents = [@ EXCEPT ![a] = row]]
    BY <1>0, <1>4 DEF RevokeAgentCredential, Databases
  <2> QED  BY <2>2, <2>3
<1> QED  BY <1>1, <1>2, <1>3, <1>4

LEMMA AgentRowTyped ==
  ASSUME TypeOK, NEW a \in Agents, NEW row \in AgentRows
  PROVE  [db EXCEPT !.agents = [@ EXCEPT ![a] = row]] \in Databases
  BY DEF TypeOK, Databases

LEMMA InvalidatedTyped ==
  ASSUME NEW copy \in Databases
  PROVE  /\ Invalidated(copy) \in Databases
         /\ Invalidated(copy).users = copy.users /\ Invalidated(copy).instance = copy.instance + 1
         /\ \A s \in Sessions : Invalidated(copy).sessions[s] # None =>
              Invalidated(copy).sessions[s].state = "revoked"
         /\ \A a \in Agents : Invalidated(copy).agents[a] # None =>
              Invalidated(copy).agents[a].state = "revoked"
PROOF
<1> DEFINE ss == [s \in Sessions |-> IF copy.sessions[s] = None THEN None
                                     ELSE [copy.sessions[s] EXCEPT !.state = "revoked"]]
           ag == [a \in Agents |-> IF copy.agents[a] = None THEN None
                                   ELSE [copy.agents[a] EXCEPT !.state = "revoked"]]
<1>1. Invalidated(copy) = [copy EXCEPT !.instance = @ + 1, !.sessions = ss, !.agents = ag]
  BY DEF Invalidated, Databases
<1>2. \A f \in SessionRows : [f EXCEPT !.state = "revoked"] \in SessionRows /\ [f EXCEPT !.state = "revoked"].state = "revoked"
  BY DEF SessionRows, States
<1>3. \A f \in AgentRows : [f EXCEPT !.state = "revoked"] \in AgentRows /\ [f EXCEPT !.state = "revoked"].state = "revoked"
  BY DEF AgentRows, States
<1>4. ss \in [Sessions -> SessionRows \cup {None}] /\ ag \in [Agents -> AgentRows \cup {None}]
  BY <1>2, <1>3 DEF Databases
<1>5. /\ \A s \in Sessions : ss[s] # None => ss[s].state = "revoked"
      /\ \A a \in Agents : ag[a] # None => ag[a].state = "revoked"
  BY <1>2, <1>3 DEF Databases
<1> HIDE DEF ss, ag
<1>6. Invalidated(copy) \in Databases
  <2>1. copy.instance + 1 \in Nat /\ copy.users \in [Users -> Accounts]  BY DEF Databases
  <2>2. copy = [instance |-> copy.instance, users |-> copy.users, sessions |-> copy.sessions, agents |-> copy.agents]
    BY DEF Databases
  <2>3. Invalidated(copy) = [instance |-> copy.instance + 1, users |-> copy.users, sessions |-> ss, agents |-> ag]
    BY <1>1, <2>2, Zenon
  <2> QED  BY <1>4, <2>1, <2>3 DEF Databases
<1>7. /\ Invalidated(copy).users = copy.users /\ Invalidated(copy).instance = copy.instance + 1
      /\ Invalidated(copy).sessions = ss /\ Invalidated(copy).agents = ag
  BY <1>1 DEF Databases
<1> QED  BY <1>5, <1>6, <1>7

LEMMA CleanedTyped ==
  ASSUME TypeOK
  PROVE  Cleaned \in [Sessions -> SessionRows \cup {None}]
  BY DEF TypeOK, Databases, Cleaned

LoginRows == [user : Users, method : Providers, version : Nat, credential : Nat, since : Nat]

(* The row a sign-in writes.                                                *)
LEMMA SessionCreated ==
  ASSUME TypeOK, NEW l \in Logins, NEW s \in Sessions, CreateBrowserSession(l, s)
  PROVE  /\ logins[l] \in LoginRows
         /\ db' \in Databases
         /\ db'.instance = db.instance /\ db'.users = db.users /\ db'.agents = db.agents
         /\ db'.sessions = [Cleaned EXCEPT ![s] =
              [user |-> logins[l].user, state |-> "live", instance |-> db.instance,
               since |-> logins[l].since]]
PROOF
<1> DEFINE row == [user |-> logins[l].user, state |-> "live", instance |-> db.instance,
                   since |-> logins[l].since]
<1>0. db \in Databases  BY DEF TypeOK
<1>1. logins[l] \in LoginRows  BY DEF CreateBrowserSession, TypeOK, LoginRows
<1>2. row \in SessionRows  BY <1>0, <1>1 DEF SessionRows, LoginRows, States, Databases
<1>3. db' = [db EXCEPT !.sessions = [Cleaned EXCEPT ![s] = row]]  BY DEF CreateBrowserSession
<1>4. [Cleaned EXCEPT ![s] = row] \in [Sessions -> SessionRows \cup {None}]  BY <1>2, CleanedTyped
<1>5. db' \in Databases  BY <1>0, <1>3, <1>4, TablesTyped DEF Databases
<1> HIDE DEF row
<1>6. /\ db'.instance = db.instance /\ db'.users = db.users /\ db'.agents = db.agents
      /\ db'.sessions = [Cleaned EXCEPT ![s] = row]
  BY <1>0, <1>3 DEF Databases
<1> QED  BY <1>1, <1>5, <1>6 DEF row

(* The other steps keep the types.                                          *)
LEMMA OtherTyped ==
  ASSUME TypeOK, AgentCommand \/ Login \/ Proof \/ Process
  PROVE  TypeOK'
PROOF
<1>0. db \in Databases /\ backup \in Databases \cup {None}  BY DEF TypeOK
<1>1. CASE AgentCommand
  <2>1. db' \in Databases  BY <1>1, AgentCommandEffect, AgentRowTyped
  <2> QED  BY <1>1, <2>1, AgentCommandFrame DEF TypeOK
<1>2. CASE Login
  <2>1. PICK l \in Logins :
          \/ \E u \in Users, m \in Providers : BeginLogin(l, u, m)
          \/ \E s \in Sessions : CreateBrowserSession(l, s)
          \/ LoginFails(l)
    BY <1>2 DEF Login
  <2>2. CASE \E u \in Users, m \in Providers : BeginLogin(l, u, m)
    BY <2>2 DEF BeginLogin, TypeOK, Databases, Accounts
  <2>3. CASE \E s \in Sessions : CreateBrowserSession(l, s)
    <3>1. PICK s \in Sessions : CreateBrowserSession(l, s)  BY <2>3
    <3>2. db' \in Databases /\ logins[l].user \in Users  BY <3>1, SessionCreated DEF LoginRows
    <3>3. audit' \in Users /\ logins' = [logins EXCEPT ![l] = None]
      BY <3>1, <3>2 DEF CreateBrowserSession
    <3> QED  BY <3>1, <3>2, <3>3 DEF CreateBrowserSession, TypeOK
  <2>4. CASE LoginFails(l)  BY <2>4 DEF LoginFails, TypeOK
  <2> QED  BY <2>1, <2>2, <2>3, <2>4
<1>3. CASE Proof
  <2>1. CASE \E s \in Sessions : RevokeBrowserSession(s)
    <3>1. PICK s \in Sessions : RevokeBrowserSession(s)  BY <2>1
    <3>2. db.sessions[s] \in SessionRows  BY <1>0, <3>1 DEF RevokeBrowserSession, Databases
    <3>3. db' = [db EXCEPT !.sessions = [@ EXCEPT ![s].state = "revoked"]]
      BY <1>0, <3>1 DEF RevokeBrowserSession, Databases
    <3>4. db' \in Databases  BY <1>0, <3>2, <3>3 DEF Databases, SessionRows, States
    <3>5. audit' \in Users  BY <3>1, <3>2 DEF RevokeBrowserSession, ActorOf, Row, SessionRows
    <3> QED  BY <3>1, <3>4, <3>5 DEF RevokeBrowserSession, TypeOK
  <2>2. CASE \E p \in Principals : Expire(p)
    <3>1. PICK p \in Principals : Expire(p)  BY <2>2
    <3>2. db' \in Databases
      <4>1. CASE p \in Sessions
        <5>1. db.sessions[p] \in SessionRows  BY <1>0, <3>1, <4>1 DEF Expire, Row, Databases
        <5> QED  BY <1>0, <3>1, <4>1, <5>1 DEF Expire, Databases, SessionRows, States
      <4>2. CASE p \notin Sessions
        <5>1. p \in Agents /\ db.agents[p] \in AgentRows
          BY <1>0, <3>1, <4>2 DEF Expire, Row, Databases, Principals
        <5> QED  BY <1>0, <3>1, <4>2, <5>1 DEF Expire, Databases, AgentRows, States
      <4> QED  BY <4>1, <4>2
    <3>3. budget' \in [commands : 0..MaxCommands, events : 0..MaxEvents]
      BY <3>1, IdentityConstants DEF Expire, Event, TypeOK
    <3> QED  BY <3>1, <3>2, <3>3 DEF Expire, TypeOK
  <2> QED  BY <1>3, <2>1, <2>2 DEF Proof
<1>4. CASE Process
  <2>1. CASE \E u \in Users, m \in Providers : BootstrapIdentity(u, m)
    <3>1. PICK u \in Users, m \in Providers : BootstrapIdentity(u, m)  BY <2>1
    <3>2. [status |-> "enabled", roles |-> {"owner"}, version |-> 1,
           creds |-> [Absent.creds EXCEPT ![m] = 1]] \in Accounts
      BY DEF Absent, Accounts, Statuses, Roles
    <3>3. db' \in Databases  BY <1>0, <3>1, <3>2 DEF BootstrapIdentity, Databases
    <3> QED  BY <3>1, <3>3 DEF BootstrapIdentity, TypeOK
  <2>2. CASE \E configured \in SUBSET Providers \ {{}} : Start(configured)
    BY <2>2 DEF Start, TypeOK
  <2>3. CASE Stop \/ Replicate \/ AcceptRestore
    <3>1. budget' \in [commands : 0..MaxCommands, events : 0..MaxEvents]
      BY <2>3, IdentityConstants DEF Stop, Replicate, AcceptRestore, Event, TypeOK
    <3>2. CASE Stop  BY <3>1, <3>2 DEF Stop, TypeOK
    <3>3. CASE Replicate  BY <3>1, <3>3 DEF Replicate, TypeOK
    <3>4. CASE AcceptRestore
      <4>1. db' \in Databases  BY <1>0, <3>4, InvalidatedTyped DEF AcceptRestore
      <4> QED  BY <3>1, <3>4, <4>1 DEF AcceptRestore, TypeOK
    <3> QED  BY <2>3, <3>2, <3>3, <3>4
  <2> QED  BY <1>4, <2>1, <2>2, <2>3 DEF Process
<1> QED  BY <1>1, <1>2, <1>3, <1>4

------------------------------------------------------------------------------
(* Government: an Owner remains, and a running process strands no one. *)

Governed ==
  /\ Ready
  /\ AbsentRows(db.users)
  /\ db.instance # 0 => HasOwner(db.users)
  /\ backup # None => /\ backup.instance # 0
                      /\ AbsentRows(backup.users) /\ HasOwner(backup.users)

LEMMA GovernedInit == ASSUME Init PROVE Governed
  BY DEF Init, Governed, Ready, Empty, Absent, AbsentRows

LEMMA UserCommandGoverned ==
  ASSUME TypeOK, Governed, UserCommand
  PROVE  Governed'
PROOF
<1>1. PICK u \in Users : \E account : Lawful(u, account)
  BY UserCommandLawful DEF Governed
<1>2. PICK account : Lawful(u, account)  BY <1>1
<1>3. /\ db'.users = [db.users EXCEPT ![u] = account] /\ db'.instance = db.instance
      /\ account.status # "absent"
  BY <1>2 DEF Lawful, Effect, Written
<1>4. db.users \in [Users -> Accounts]  BY DEF TypeOK, Databases
<1>5. UNCHANGED <<providers, backup>> /\ providers # {}  BY UserCommandFrame
<1>6. Ready'
  BY <1>2, <1>3, <1>4, <1>5 DEF Governed, Ready, Stranded, Lawful
<1>7. AbsentRows(db'.users)  BY <1>3, <1>4 DEF Governed, AbsentRows
<1>8. HasOwner(db'.users)
  <2>1. PICK o \in Users : EnabledOwner(db.users, o)
    BY <1>5 DEF Governed, Ready, HasOwner
  <2>2. CASE o # u  BY <2>1, <2>2, <1>3, <1>4 DEF HasOwner, EnabledOwner
  <2>3. CASE o = u
    BY <2>1, <2>3, <1>2, <1>3, <1>4 DEF HasOwner, EnabledOwner, AnotherOwner, Lawful
  <2> QED  BY <2>2, <2>3
<1> QED  BY <1>5, <1>6, <1>7, <1>8 DEF Governed

(* Steps that write no account.                                             *)
LEMMA UsersKept ==
  ASSUME TypeOK, AgentCommand \/ Login \/ Proof \/ Stop \/ Replicate
                 \/ \E configured \in SUBSET Providers \ {{}} : Start(configured)
  PROVE  db'.users = db.users /\ db'.instance = db.instance
PROOF
<1>0. db \in Databases  BY DEF TypeOK
<1>1. CASE AgentCommand
  <2>1. PICK a \in Agents, row \in AgentRows : db' = [db EXCEPT !.agents = [@ EXCEPT ![a] = row]]
    BY <1>1, AgentCommandEffect
  <2> QED  BY <1>0, <2>1 DEF Databases
<1>2. CASE Login
  BY <1>2, SessionCreated DEF Login, BeginLogin, LoginFails
<1>3. CASE Proof
  BY <1>0, <1>3 DEF Proof, RevokeBrowserSession, Expire, Databases
<1>4. CASE Stop \/ Replicate \/ \E configured \in SUBSET Providers \ {{}} : Start(configured)
  BY <1>4 DEF Stop, Replicate, Start
<1> QED  BY <1>1, <1>2, <1>3, <1>4

LEMMA OtherGoverned ==
  ASSUME TypeOK, Governed, AgentCommand \/ Login \/ Proof \/ Process
  PROVE  Governed'
PROOF
<1>0. db \in Databases /\ backup \in Databases \cup {None}  BY DEF TypeOK
<1>1. CASE AgentCommand \/ Login \/ Proof
  <2>1. db'.users = db.users /\ db'.instance = db.instance  BY <1>1, UsersKept
  <2>2. UNCHANGED <<providers, backup>>
    BY <1>1, AgentCommandFrame DEF Login, BeginLogin, CreateBrowserSession, LoginFails, Proof,
       RevokeBrowserSession, Expire
  <2> QED  BY <2>1, <2>2 DEF Governed, Ready
<1>2. CASE \E u \in Users, m \in Providers : BootstrapIdentity(u, m)
  <2>1. PICK u \in Users, m \in Providers : BootstrapIdentity(u, m)  BY <1>2
  <2> DEFINE owner == [status |-> "enabled", roles |-> {"owner"}, version |-> 1,
                       creds |-> [Absent.creds EXCEPT ![m] = 1]]
  <2>2. db'.users = [db.users EXCEPT ![u] = owner] /\ db'.instance = 1
    BY <1>0, <2>1 DEF BootstrapIdentity, Databases
  <2>3. db.users \in [Users -> Accounts]  BY <1>0 DEF Databases
  <2>4. HasOwner(db'.users) /\ AbsentRows(db'.users)
    BY <2>2, <2>3 DEF Governed, HasOwner, EnabledOwner, AbsentRows
  <2> QED  BY <2>1, <2>4 DEF BootstrapIdentity, Governed, Ready
<1>3. CASE \E configured \in SUBSET Providers \ {{}} : Start(configured)
  BY <1>3 DEF Start, Governed, Ready
<1>4. CASE Stop  BY <1>4 DEF Stop, Governed, Ready
<1>5. CASE Replicate  BY <1>5 DEF Replicate, Governed, Ready
<1>6. CASE AcceptRestore
  <2>1. backup \in Databases /\ providers' = {} /\ backup' = backup /\ db' = Invalidated(backup)
    BY <1>0, <1>6 DEF AcceptRestore
  <2>2. db'.users = backup.users  BY <2>1, InvalidatedTyped
  <2> QED  BY <1>6, <2>1, <2>2 DEF AcceptRestore, Governed, Ready
<1> QED  BY <1>1, <1>2, <1>3, <1>4, <1>5, <1>6 DEF Process

------------------------------------------------------------------------------
(* Proofs: what is live, and what a sign-in under way may still turn into   *)
(* a session, was issued after its user's proofs were last ended.           *)

Current ==
  /\ \A s \in Sessions : db.sessions[s] # None /\ db.sessions[s].state = "live" =>
       db.sessions[s].since = ended[db.sessions[s].user].sessions
  /\ \A a \in Agents : db.agents[a] # None /\ db.agents[a].state = "live" =>
       db.agents[a].since = ended[db.agents[a].user].agents
  /\ \A l \in Logins : logins[l] # None =>
       /\ providers # {}
       /\ logins[l].version <= db.users[logins[l].user].version
       /\ logins[l].version = db.users[logins[l].user].version =>
            logins[l].since = ended[logins[l].user].sessions

LEMMA CurrentInit == ASSUME Init PROVE Current
  BY DEF Init, Current, Empty

LEMMA RevokedRows ==
  ASSUME TypeOK, NEW u
  PROVE  /\ \A s \in Sessions :
              LET row == Revoked(db.sessions, u)[s]
              IN  row # None /\ row.state = "live" => row = db.sessions[s] /\ row.user # u
         /\ \A a \in Agents :
              LET row == Revoked(db.agents, u)[a]
              IN  row # None /\ row.state = "live" => row = db.agents[a] /\ row.user # u
  BY DEF TypeOK, Databases, SessionRows, AgentRows, Revoked

LEMMA UserCommandCurrent ==
  ASSUME TypeOK, Governed, Current, UserCommand
  PROVE  Current'
PROOF
<1>1. PICK u \in Users : \E account : Lawful(u, account)
  BY UserCommandLawful DEF Governed
<1>2. PICK account : Lawful(u, account)  BY <1>1
<1>3. /\ db'.users = [db.users EXCEPT ![u] = account] /\ account.version > db.users[u].version
      /\ account \in Accounts
  BY <1>2 DEF Lawful, Effect, Written
<1>4. UNCHANGED <<providers, logins>> /\ providers # {}  BY UserCommandFrame
<1>5. /\ db.users \in [Users -> Accounts]
      /\ db.sessions \in [Sessions -> SessionRows \cup {None}]
      /\ db.agents \in [Agents -> AgentRows \cup {None}]
      /\ ended \in [Users -> [sessions : Nat, agents : Nat]]
      /\ logins \in [Logins -> LoginRows \cup {None}]
  BY DEF TypeOK, Databases, LoginRows
<1>6. \A v \in Users : v # u => ended'[v] = ended[v]
  BY <1>2, <1>5 DEF Lawful, Effect
<1>7. ASSUME NEW l \in Logins, logins[l] # None
      PROVE  /\ logins[l].version <= db'.users[logins[l].user].version
             /\ logins[l].version = db'.users[logins[l].user].version =>
                  logins[l].since = ended'[logins[l].user].sessions
  <2>1. logins[l] \in LoginRows  BY <1>5, <1>7
  <2>2. CASE logins[l].user = u
    BY <1>3, <1>5, <1>7, <2>1, <2>2 DEF Current, LoginRows, Accounts
  <2>3. CASE logins[l].user # u
    BY <1>3, <1>5, <1>6, <1>7, <2>1, <2>3 DEF Current, LoginRows
  <2> QED  BY <2>2, <2>3
<1>8. ASSUME NEW s \in Sessions, db'.sessions[s] # None, db'.sessions[s].state = "live"
      PROVE  db'.sessions[s].since = ended'[db'.sessions[s].user].sessions
  <2>1. CASE db'.sessions = db.sessions /\ ended' = ended  BY <1>8, <2>1 DEF Current
  <2>2. CASE db'.sessions = Revoked(db.sessions, u)
    <3>1. db'.sessions[s] = db.sessions[s] /\ db.sessions[s].user # u
      BY <1>8, <2>2, RevokedRows
    <3>2. db.sessions[s].user \in Users  BY <1>5, <1>8, <3>1 DEF SessionRows
    <3> QED  BY <1>6, <1>8, <3>1, <3>2 DEF Current
  <2> QED  BY <1>2, <2>1, <2>2 DEF Lawful, Effect
<1>9. ASSUME NEW a \in Agents, db'.agents[a] # None, db'.agents[a].state = "live"
      PROVE  db'.agents[a].since = ended'[db'.agents[a].user].agents
  <2>1. CASE db'.agents = db.agents /\ \A v \in Users : ended'[v].agents = ended[v].agents
    <3>1. db.agents[a].user \in Users  BY <1>5, <1>9, <2>1 DEF AgentRows
    <3> QED  BY <1>9, <2>1, <3>1 DEF Current
  <2>2. CASE db'.agents = Revoked(db.agents, u)
    <3>1. db'.agents[a] = db.agents[a] /\ db.agents[a].user # u
      BY <1>9, <2>2, RevokedRows
    <3>2. db.agents[a].user \in Users  BY <1>5, <1>9, <3>1 DEF AgentRows
    <3> QED  BY <1>6, <1>9, <3>1, <3>2 DEF Current
  <2> QED  BY <1>2, <1>5, <2>1, <2>2 DEF Lawful, Effect
<1> QED  BY <1>4, <1>7, <1>8, <1>9 DEF Current

LEMMA OtherCurrent ==
  ASSUME TypeOK, Governed, Current, AgentCommand \/ Login \/ Proof \/ Process
  PROVE  Current'
PROOF
<1>0. /\ db \in Databases
      /\ logins \in [Logins -> LoginRows \cup {None}]
      /\ ended \in [Users -> [sessions : Nat, agents : Nat]]
  BY DEF TypeOK, LoginRows
<1>1. CASE AgentCommand
  <2>1. PICK a \in Agents, row \in AgentRows :
           /\ db' = [db EXCEPT !.agents = [@ EXCEPT ![a] = row]]
           /\ row.state = "live" =>
                \/ row.since = ended[row.user].agents
                \/ /\ db.agents[a] # None /\ row.user = db.agents[a].user
                   /\ row.state = db.agents[a].state /\ row.since = db.agents[a].since
    BY <1>1, AgentCommandEffect
  <2>2. /\ db'.users = db.users /\ db'.sessions = db.sessions
        /\ db'.agents = [db.agents EXCEPT ![a] = row]
    BY <1>0, <2>1 DEF Databases
  <2>3. UNCHANGED <<providers, logins, ended>>  BY <1>1, AgentCommandFrame
  <2>4. ASSUME NEW b \in Agents, db'.agents[b] # None, db'.agents[b].state = "live"
        PROVE  db'.agents[b].since = ended[db'.agents[b].user].agents
    BY <1>0, <2>1, <2>2, <2>4 DEF Current, Databases
  <2> QED  BY <2>2, <2>3, <2>4 DEF Current
<1>2. CASE Login
  <2>1. PICK l \in Logins :
          \/ \E u \in Users, m \in Providers : BeginLogin(l, u, m)
          \/ \E s \in Sessions : CreateBrowserSession(l, s)
          \/ LoginFails(l)
    BY <1>2 DEF Login
  <2>2. CASE \E u \in Users, m \in Providers : BeginLogin(l, u, m)
    <3>1. PICK u \in Users, m \in Providers : BeginLogin(l, u, m)  BY <2>2
    <3>2. db.users[u].version \in Nat /\ providers # {}
      BY <1>0, <3>1 DEF Databases, Accounts, BeginLogin, TypeOK
    <3> QED  BY <1>0, <3>1, <3>2 DEF BeginLogin, Current
  <2>3. CASE \E s \in Sessions : CreateBrowserSession(l, s)
    <3>1. PICK s \in Sessions : CreateBrowserSession(l, s)  BY <2>3
    <3> DEFINE row == [user |-> logins[l].user, state |-> "live", instance |-> db.instance,
                       since |-> logins[l].since]
    <3>2. /\ db'.users = db.users /\ db'.agents = db.agents
          /\ db'.sessions = [Cleaned EXCEPT ![s] = row]
      BY <3>1, SessionCreated
    <3>3. row.since = ended[row.user].sessions
      BY <3>1 DEF CreateBrowserSession, Admissible, EvidenceHolds, Current
    <3>4. \A r \in Sessions : Cleaned[r] # None => Cleaned[r] = db.sessions[r]
      BY DEF Cleaned
    <3>5. /\ logins' = [logins EXCEPT ![l] = None] /\ ended' = ended /\ providers' = providers
      BY <3>1 DEF CreateBrowserSession
    <3>6. Cleaned \in [Sessions -> SessionRows \cup {None}]  BY CleanedTyped
    <3> HIDE DEF row
    <3>7. ASSUME NEW r \in Sessions, db'.sessions[r] # None, db'.sessions[r].state = "live"
          PROVE  db'.sessions[r].since = ended[db'.sessions[r].user].sessions
      <4>1. CASE r = s  BY <3>2, <3>3, <3>6, <4>1
      <4>2. CASE r # s
        <5>1. db'.sessions[r] = db.sessions[r]  BY <3>2, <3>4, <3>6, <3>7, <4>2
        <5> QED  BY <3>7, <5>1 DEF Current
      <4> QED  BY <4>1, <4>2
    <3> QED  BY <1>0, <3>2, <3>5, <3>7 DEF Current
  <2>4. CASE LoginFails(l)  BY <1>0, <2>4 DEF LoginFails, Current
  <2> QED  BY <2>1, <2>2, <2>3, <2>4
<1>3. CASE Proof
  <2>1. UNCHANGED <<providers, logins, ended>> /\ db'.users = db.users
    BY <1>3, UsersKept DEF Proof, RevokeBrowserSession, Expire
  <2>2. /\ \A s \in Sessions : db'.sessions[s] # None /\ db'.sessions[s].state = "live" =>
              db'.sessions[s] = db.sessions[s]
        /\ \A a \in Agents : db'.agents[a] # None /\ db'.agents[a].state = "live" =>
              db'.agents[a] = db.agents[a]
    <3>1. CASE \E s \in Sessions : RevokeBrowserSession(s)
      BY <1>0, <3>1 DEF RevokeBrowserSession, Databases, SessionRows
    <3>2. CASE \E p \in Principals : Expire(p)
      <4>1. PICK p \in Principals : Expire(p)  BY <3>2
      <4>2. CASE p \in Sessions
        <5>1. db.sessions[p] \in SessionRows  BY <1>0, <4>1, <4>2 DEF Expire, Row, Databases
        <5> QED  BY <1>0, <4>1, <4>2, <5>1 DEF Expire, Databases, SessionRows
      <4>3. CASE p \notin Sessions
        <5>1. p \in Agents /\ db.agents[p] \in AgentRows
          BY <1>0, <4>1, <4>3 DEF Expire, Row, Databases, Principals
        <5> QED  BY <1>0, <4>1, <4>3, <5>1 DEF Expire, Databases, AgentRows
      <4> QED  BY <4>2, <4>3
    <3> QED  BY <1>3, <3>1, <3>2 DEF Proof
  <2> QED  BY <2>1, <2>2 DEF Current
<1>4. CASE Process
  <2>1. CASE \E u \in Users, m \in Providers : BootstrapIdentity(u, m)
    <3>1. PICK u \in Users, m \in Providers : BootstrapIdentity(u, m)  BY <2>1
    <3>2. db'.sessions = db.sessions /\ db'.agents = db.agents /\ providers = {}
          /\ UNCHANGED <<providers, logins, ended>>
      BY <1>0, <3>1 DEF BootstrapIdentity, Databases
    <3>3. \A l \in Logins : logins[l] = None  BY <3>2 DEF Current
    <3> QED  BY <3>2, <3>3 DEF Current
  <2>2. CASE \E configured \in SUBSET Providers \ {{}} : Start(configured)
    BY <2>2 DEF Start, Current
  <2>3. CASE Stop  BY <2>3 DEF Stop, Current
  <2>4. CASE Replicate  BY <2>4 DEF Replicate, Current
  <2>5. CASE AcceptRestore
    <3>1. backup \in Databases /\ db' = Invalidated(backup)  BY <2>5 DEF AcceptRestore, TypeOK
    <3>2. \A l \in Logins : logins'[l] = None  BY <2>5 DEF AcceptRestore, Current
    <3> QED  BY <3>1, <3>2, InvalidatedTyped DEF Current
  <2> QED  BY <1>4, <2>1, <2>2, <2>3, <2>4, <2>5 DEF Process
<1> QED  BY <1>1, <1>2, <1>3, <1>4

------------------------------------------------------------------------------
Inv == TypeOK /\ Governed /\ Current

LEMMA InvInit == Init => Inv
  BY TypeInit, GovernedInit, CurrentInit DEF Inv

LEMMA InvNext == Inv /\ [Next]_vars => Inv'
PROOF
<1> SUFFICES ASSUME Inv, [Next]_vars PROVE Inv'
  OBVIOUS
<1>1. CASE UserCommand
  BY <1>1, UserCommandTyped, UserCommandGoverned, UserCommandCurrent DEF Inv, Governed
<1>2. CASE AgentCommand \/ Login \/ Proof \/ Process
  BY <1>2, OtherTyped, OtherGoverned, OtherCurrent DEF Inv
<1>3. CASE UNCHANGED vars
  BY <1>3 DEF vars, Inv, TypeOK, Governed, Ready, Current
<1> QED  BY <1>1, <1>2, <1>3 DEF Next

LEMMA InvHolds == Spec => []Inv
  BY InvInit, InvNext, PTL DEF Spec

(* Every table of the identity store, the copy of it, and every sign-in     *)
(* under way stays well typed.                                              *)
THEOREM IdentityTypeOK == Spec => []TypeOK
PROOF
<1>1. Inv => TypeOK  BY DEF Inv
<1> QED  BY InvHolds, <1>1, PTL

(* A running process always has an enabled Owner it would let sign in, for  *)
(* any number of administrators, however they disable, demote and strip     *)
(* each other, and across restarts with other providers and restores.       *)
THEOREM IdentityKeepsOwner == Spec => []OwnerCanSignIn
PROOF
<1>1. Inv => OwnerCanSignIn
  BY DEF Inv, Governed, Ready, HasOwner, EnabledOwner, Stranded, OwnerCanSignIn
<1> QED  BY InvHolds, <1>1, PTL

(* No session or agent credential issued before its user's proofs were last *)
(* ended acts again, whatever a sign-in had read and whenever it resumes.   *)
THEOREM IdentityEndsProofs == Spec => []EndedProofsStayEnded
PROOF
<1>1. ASSUME Inv PROVE EndedProofsStayEnded
  <2>1. ASSUME NEW s \in Sessions, Active(s)
        PROVE  db.sessions[s].since = ended[ActorOf(s)].sessions
    BY <1>1, <2>1 DEF Inv, Current, Active, ActorOf, Row
  <2>2. ASSUME NEW a \in Agents, Active(a)
        PROVE  db.agents[a].since = ended[ActorOf(a)].agents
    <3>1. a \notin Sessions  BY IdentityConstants
    <3> QED  BY <1>1, <2>2, <3>1 DEF Inv, Current, Active, ActorOf, Row
  <2> QED  BY <2>1, <2>2 DEF EndedProofsStayEnded
<1> QED  BY InvHolds, <1>1, PTL

(* Accounts are changed only in the name of an enabled user who holds every *)
(* scope they have before and after.                                        *)
RankStep ==
  \A u \in Users : providers # {} /\ db'.users[u] # db.users[u] =>
    /\ audit' \in Users /\ Enabled(audit')
    /\ UserScopes(u) \cup ScopesAt(db'.users, u) \subseteq UserScopes(audit')

LEMMA RankNext == Inv /\ [Next]_vars => RankStep
PROOF
<1> SUFFICES ASSUME Inv, [Next]_vars PROVE RankStep
  OBVIOUS
<1>1. CASE UserCommand
  <2>1. PICK u \in Users : \E account : Lawful(u, account)
    BY <1>1, UserCommandLawful DEF Inv, Governed
  <2>2. PICK account : Lawful(u, account)  BY <2>1
  <2>3. db'.users = [db.users EXCEPT ![u] = account] /\ db.users \in [Users -> Accounts]
    BY <2>2 DEF Lawful, Effect, Written, Inv, TypeOK, Databases
  <2>4. ScopesAt(db'.users, u) \subseteq UserScopes(audit')
    BY <2>2, <2>3 DEF Lawful, ScopesAt
  <2>5. \A v \in Users : v # u => db'.users[v] = db.users[v]  BY <2>3
  <2> QED  BY <2>2, <2>4, <2>5 DEF Lawful, RankStep
<1>2. CASE AgentCommand \/ Login \/ Proof \/ Stop \/ Replicate
           \/ \E configured \in SUBSET Providers \ {{}} : Start(configured)
  BY <1>2, UsersKept DEF Inv, RankStep
<1>3. CASE AcceptRestore \/ \E u \in Users, m \in Providers : BootstrapIdentity(u, m)
  BY <1>3 DEF AcceptRestore, BootstrapIdentity, RankStep
<1>4. CASE UNCHANGED vars  BY <1>4 DEF vars, RankStep
<1> QED  BY <1>1, <1>2, <1>3, <1>4 DEF Next, Process

(* No chain of commands lifts an account above whoever asked for it.        *)
THEOREM IdentityKeepsRanks == Spec => RanksHold
PROOF
<1>1. Inv /\ [Next]_vars => [RankStep]_vars  BY RankNext
<1> QED  BY InvHolds, <1>1, PTL DEF Spec, RanksHold, RankStep
=============================================================================
