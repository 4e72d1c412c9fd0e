------------------------------ MODULE Identity ------------------------------
(***************************************************************************)
(* Accounts of the instance, the credentials they sign in with, browser    *)
(* sessions, agent credentials, and the commands that change them          *)
(* (domain/auth/store.rs, with the handlers of admin/security.rs and       *)
(* admin/identity.rs, identity_bootstrap.rs and the identity part of       *)
(* database/restore.rs).                                                   *)
(*                                                                         *)
(* Every command is one transaction of the single writer, but a sign-in    *)
(* verifies its proof against what it read before.  Commands name the      *)
(* version they expect of a row; one that names another changes nothing    *)
(* and is no step, nor is a retry answered from its receipt.  What the     *)
(* handlers check before, on scopes read with the request, only refuses    *)
(* more than the transaction does and is left out.                         *)
(***************************************************************************)
EXTENDS Integers, FiniteSets

CONSTANTS
  Users,        (* accounts that may be created                              *)
  Sessions,     (* browser sessions                                          *)
  Agents,       (* agent credentials                                         *)
  Logins,       (* sign-ins that may be under way at once                    *)
  RoleSets,     (* role sets a command may ask for                           *)
  MethodSets,   (* credentials an account may be created with                *)
  GrantSets,    (* scope sets an agent credential may be given               *)
  None,
  Offline,      (* the principal of offline commands                         *)
  MaxSessions,  (* MAX_LIVE_BROWSER_SESSIONS                                 *)
  MaxAgents,    (* MAX_LIVE_AGENT_CREDENTIALS_PER_USER                       *)
  MaxCommands,  (* bound: commands that change an account or an agent        *)
  MaxEvents     (* bound: stops, copies, restores and expirations            *)

Roles     == {"owner", "administrator", "publisher"}
Scopes    == {"release_manage", "user_manage", "credential_manage", "role_assign"}
Providers == {"password", "nostr"}
Statuses  == {"enabled", "disabled"}

ASSUME IdentityConstants ==
  /\ RoleSets \subseteq SUBSET Roles /\ GrantSets \subseteq SUBSET Scopes
  /\ MethodSets \subseteq SUBSET Providers
  /\ Offline \notin Users /\ None \notin Users
  /\ Sessions \cap Agents = {}
  /\ MaxSessions \in Nat /\ MaxAgents \in Nat
  /\ MaxCommands \in Nat /\ MaxEvents \in Nat

VARIABLES
  providers,   (* configured login providers of the process; {}: not running *)
  db,          (* instance version, users, sessions, agents                  *)
  backup,      (* an earlier db, kept by replication                         *)
  logins,      (* what a sign-in under way has read                          *)
  audit,       (* the principal's user of the last audit event               *)
  ended,       (* history: how often the proofs of a user were ended         *)
  budget

vars == <<providers, db, backup, logins, audit, ended, budget>>

Principals == Sessions \cup Agents

Absent == [status |-> "absent", roles |-> {}, version |-> 0, creds |-> [m \in Providers |-> 0]]

Empty == [instance   |-> 0,
          users      |-> [u \in Users |-> Absent],
          sessions   |-> [s \in Sessions |-> None],
          agents     |-> [a \in Agents |-> None]]

Init ==
  /\ providers = {} /\ db = Empty /\ backup = None
  /\ logins = [l \in Logins |-> None]
  /\ audit = Offline
  /\ ended = [u \in Users |-> [sessions |-> 0, agents |-> 0]]
  /\ budget = [commands |-> MaxCommands, events |-> MaxEvents]

Event == budget.events > 0 /\ budget' = [budget EXCEPT !.events = @ - 1]

------------------------------------------------------------------------------
(* Authority. *)

ScopesOf(role) ==
  CASE role = "owner"         -> Scopes
    [] role = "administrator" -> Scopes \ {"role_assign"}
    [] role = "publisher"     -> {"release_manage"}

ScopesAt(users, u) == UNION {ScopesOf(role) : role \in users[u].roles}
UserScopes(u)      == ScopesAt(db.users, u)
Enabled(u)         == db.users[u].status = "enabled"
EnabledOwner(users, u) == users[u].status = "enabled" /\ "owner" \in users[u].roles

Row(p)      == IF p \in Sessions THEN db.sessions[p] ELSE db.agents[p]
ActorOf(p)  == Row(p).user
GrantsOf(p) == IF p \in Sessions THEN UserScopes(ActorOf(p))
                                 ELSE db.agents[p].scopes \cap UserScopes(ActorOf(p))

(* is_active_at, for a session and for an agent credential. *)
Active(p) ==
  /\ Row(p) # None /\ Row(p).state = "live" /\ Enabled(ActorOf(p))
  /\ p \in Sessions => db.sessions[p].instance = db.instance

(* require_principal_scope *)
Allowed(p, scope) == Active(p) /\ scope \in GrantsOf(p)

(* Mutant: an actor with the scope manages every account. *)
OutranksAny(actor, u) == db.users[u].status # "absent"

(* require_user_management_authority, the actor's scope already required. *)
Outranks(actor, u) ==
  db.users[u].status # "absent" /\ UserScopes(u) \subseteq UserScopes(actor)

(* Mutant: a disabled Owner counts. *)
AnotherOwnerOfRecord(u) == \E other \in Users \ {u} : "owner" \in db.users[other].roles

(* require_another_enabled_owner *)
AnotherOwner(u) == \E other \in Users \ {u} : EnabledOwner(db.users, other)

(* user_has_accepted_credential *)
Accepted(creds, configured) == \E m \in configured : creds[m] # 0

(* validate_provider_compatibility *)
Stranded(users, configured) ==
  \E u \in Users : users[u].status = "enabled" /\ ~Accepted(users[u].creds, configured)
------------------------------------------------------------------------------
(* What every command does: its principal authenticated before, and is      *)
(* checked again in the transaction (require_mutation_actor); its audit     *)
(* event names the user.                                                    *)

Command(p, scope) ==
  /\ providers # {} /\ budget.commands > 0
  /\ Allowed(p, scope)
  /\ audit' = ActorOf(p)
  /\ budget' = [budget EXCEPT !.commands = @ - 1]
  /\ UNCHANGED <<providers, backup, logins>>

Human(p) == p \in Sessions      (* require_human *)

(* revoke_user_sessions, revoke_user_agents *)
Revoked(rows, u) ==
  [r \in DOMAIN rows |-> IF rows[r] # None /\ rows[r].user = u
                         THEN [rows[r] EXCEPT !.state = "revoked"] ELSE rows[r]]

EndSessions(u) == ended' = [ended EXCEPT ![u].sessions = @ + 1]
EndAll(u)      == ended' = [ended EXCEPT ![u] = [sessions |-> @.sessions + 1, agents |-> @.agents + 1]]

Changed(u, account) == [db.users EXCEPT ![u] = [account EXCEPT !.version = @ + 1]]

CreateUser(p, u, roles, status, methods) ==
  /\ Command(p, "user_manage")
  /\ db.users[u].status = "absent" /\ roles # {}
  /\ "password" \in methods => Human(p)
  /\ roles # {"publisher"} => "role_assign" \in UserScopes(ActorOf(p))
  /\ status = "enabled" => methods \cap providers # {}
  /\ db' = [db EXCEPT !.users[u] =
       [status |-> status, roles |-> roles, version |-> 1,
        creds |-> [m \in Providers |-> IF m \in methods THEN 1 ELSE 0]]]
  /\ UNCHANGED ended

(* validate_user_status_replacement, and the revocations of a disabling. *)
SetUserStatus(p, u, status) ==
  LET account == [db.users[u] EXCEPT !.status = status] IN
  /\ Command(p, "user_manage")
  /\ Outranks(ActorOf(p), u)
  /\ status = "enabled" => Accepted(account.creds, providers)
  /\ EnabledOwner(db.users, u) /\ status = "disabled" => AnotherOwner(u)
  /\ IF status = "disabled"
     THEN /\ db' = [db EXCEPT !.users    = Changed(u, account),
                              !.sessions = Revoked(@, u), !.agents = Revoked(@, u)]
          /\ EndAll(u)
     ELSE db' = [db EXCEPT !.users = Changed(u, account)] /\ UNCHANGED ended

(* Only "role_assign" is asked for: it is the scope no lower role has. *)
ReplaceUserRoles(p, u, roles) ==
  /\ Command(p, "role_assign")
  /\ db.users[u].status # "absent" /\ roles # {}
  /\ EnabledOwner(db.users, u) /\ "owner" \notin roles => AnotherOwner(u)
  /\ db' = [db EXCEPT !.users = Changed(u, [db.users[u] EXCEPT !.roles = roles])]
  /\ UNCHANGED ended

(* A new credential starts at version 1, and leaves the sessions; a replaced *)
(* one ends them (put_stored_human_credential).                              *)
PutHumanCredential(p, u, m) ==
  LET account == [db.users[u] EXCEPT !.creds[m] = @ + 1] IN
  /\ Command(p, "credential_manage")
  /\ m = "password" => Human(p)
  /\ Outranks(ActorOf(p), u)
  /\ IF db.users[u].creds[m] = 0
     THEN db' = [db EXCEPT !.users = Changed(u, account)] /\ UNCHANGED ended
     ELSE /\ db' = [db EXCEPT !.users = Changed(u, account), !.sessions = Revoked(@, u)]
          /\ EndSessions(u)

(* credential_removal_preserves_access *)
Removable(u, m) == Enabled(u) => Accepted([db.users[u].creds EXCEPT ![m] = 0], providers)

RemoveHumanCredential(p, u, m) ==
  /\ Command(p, "credential_manage")
  /\ m = "password" => Human(p)
  /\ Outranks(ActorOf(p), u)
  /\ db.users[u].creds[m] # 0
  /\ Removable(u, m)
  /\ db' = [db EXCEPT !.users    = Changed(u, [db.users[u] EXCEPT !.creds[m] = 0]),
                      !.sessions = Revoked(@, u)]
  /\ EndSessions(u)

------------------------------------------------------------------------------
(* Agent credentials.  An expired one differs from a revoked one: its scopes *)
(* may still be replaced, and no one can revive either.                      *)

(* require_scope_subset *)
Grantable(owner, issuer, scopes) ==
  /\ Enabled(owner) /\ Enabled(issuer)
  /\ scopes \subseteq UserScopes(owner) \cap UserScopes(issuer)

LiveRows(rows) == {r \in DOMAIN rows : rows[r] # None /\ rows[r].state = "live"}
LiveAgents(u)  == {a \in LiveRows(db.agents) : db.agents[a].user = u}

RegisterAgentCredential(p, u, a, scopes) ==
  /\ Command(p, "credential_manage")
  /\ db.agents[a] = None /\ scopes # {}
  /\ Outranks(ActorOf(p), u)
  /\ Grantable(u, ActorOf(p), scopes)
  /\ Cardinality(LiveAgents(u)) < MaxAgents
  /\ db' = [db EXCEPT !.agents[a] = [user |-> u, scopes |-> scopes, state |-> "live",
                                     since |-> ended[u].agents]]
  /\ UNCHANGED ended

ReplaceAgentScopes(p, a, scopes) ==
  /\ db.agents[a] # None
  /\ Command(p, "credential_manage")
  /\ scopes # {} /\ db.agents[a].state # "revoked"
  /\ Outranks(ActorOf(p), db.agents[a].user)
  /\ Grantable(db.agents[a].user, ActorOf(p), scopes)
  /\ db' = [db EXCEPT !.agents[a].scopes = scopes]
  /\ UNCHANGED ended

RevokeAgentCredential(p, a) ==
  /\ db.agents[a] # None
  /\ Command(p, "credential_manage")
  /\ db.agents[a].state # "revoked"
  /\ Outranks(ActorOf(p), db.agents[a].user)
  /\ db' = [db EXCEPT !.agents[a].state = "revoked"]
  /\ UNCHANGED ended
------------------------------------------------------------------------------
(* Sign-in. *)

(* create_password_session and create_nostr_session up to the transaction:  *)
(* they read the account and the credential, and verify the proof.  That a  *)
(* signed proof serves once (login_challenges, nip98_replay_events) is left *)
(* out.                                                                     *)
BeginLogin(l, u, m) ==
  /\ m \in providers /\ logins[l] = None
  /\ Enabled(u) /\ db.users[u].creds[m] # 0
  /\ logins' = [logins EXCEPT ![l] =
       [user |-> u, method |-> m, version |-> db.users[u].version,
        credential |-> db.users[u].creds[m], since |-> ended[u].sessions]]
  /\ UNCHANGED <<providers, db, backup, audit, ended, budget>>

(* Mutant: the version of the account is not compared. *)
EvidenceOfCredential(login) ==
  /\ Enabled(login.user)
  /\ db.users[login.user].creds[login.method] = login.credential

(* The guards of create_browser_session over what the sign-in read. *)
EvidenceHolds(login) ==
  /\ Enabled(login.user)
  /\ db.users[login.user].version = login.version
  /\ db.users[login.user].creds[login.method] = login.credential

(* cleanup_browser_sessions deletes revoked and expired rows first. *)
Cleaned == [s \in Sessions |-> IF s \in LiveRows(db.sessions) THEN db.sessions[s] ELSE None]

Admissible(l) == EvidenceHolds(logins[l]) /\ Cardinality(LiveRows(db.sessions)) < MaxSessions

CreateBrowserSession(l, s) ==
  /\ providers # {} /\ logins[l] # None /\ Admissible(l)
  /\ Cleaned[s] = None
  /\ db' = [db EXCEPT !.sessions = [Cleaned EXCEPT ![s] =
       [user |-> logins[l].user, state |-> "live", instance |-> db.instance,
        since |-> logins[l].since]]]
  /\ audit' = logins[l].user
  /\ logins' = [logins EXCEPT ![l] = None]
  /\ UNCHANGED <<providers, backup, ended, budget>>

(* Evidence that no longer holds, no capacity, or the client is gone. *)
LoginFails(l) ==
  /\ logins[l] # None
  /\ logins' = [logins EXCEPT ![l] = None]
  /\ UNCHANGED <<providers, db, backup, audit, ended, budget>>

RevokeBrowserSession(s) ==
  /\ providers # {}
  /\ db.sessions[s] # None /\ db.sessions[s].state # "revoked"
  /\ db' = [db EXCEPT !.sessions[s].state = "revoked"]
  /\ audit' = ActorOf(s)
  /\ UNCHANGED <<providers, backup, logins, ended, budget>>

Expire(p) ==
  /\ Event
  /\ Row(p) # None /\ Row(p).state = "live"
  /\ db' = IF p \in Sessions THEN [db EXCEPT !.sessions[p].state = "expired"]
                             ELSE [db EXCEPT !.agents[p].state = "expired"]
  /\ UNCHANGED <<providers, backup, logins, audit, ended>>

------------------------------------------------------------------------------
(* The process and the offline commands, which hold its lock. *)

(* bootstrap_identity: the provider it was given is the one it accepts. *)
BootstrapIdentity(u, m) ==
  /\ providers = {} /\ db.instance = 0
  /\ db' = [db EXCEPT !.instance = 1,
       !.users[u] = [status |-> "enabled", roles |-> {"owner"}, version |-> 1,
                     creds |-> [Absent.creds EXCEPT ![m] = 1]]]
  /\ audit' = Offline
  /\ UNCHANGED <<providers, backup, logins, ended, budget>>

(* AdminSecurityState::new: no start would strand an enabled user. *)
Start(configured) ==
  /\ providers = {} /\ db.instance # 0
  /\ ~Stranded(db.users, configured)
  /\ providers' = configured
  /\ UNCHANGED <<db, backup, logins, audit, ended, budget>>

Stop ==
  /\ Event
  /\ providers # {}
  /\ providers' = {}
  /\ logins' = [l \in Logins |-> None]
  /\ UNCHANGED <<db, backup, audit, ended>>

(* external: replication keeps a copy of the database; one is kept here. *)
Replicate ==
  /\ Event
  /\ providers # {} /\ backup = None
  /\ backup' = db
  /\ UNCHANGED <<providers, db, logins, audit, ended>>

(* invalidate_restored_credentials: every proof issued before is ended.     *)
Invalidated(copy) ==
  [copy EXCEPT !.instance = @ + 1,
               !.sessions = [s \in Sessions |-> IF @[s] = None THEN None ELSE [@[s] EXCEPT !.state = "revoked"]],
               !.agents = [a \in Agents |-> IF @[a] = None THEN None ELSE [@[a] EXCEPT !.state = "revoked"]]]

AcceptRestore ==
  /\ Event
  /\ providers = {} /\ backup # None
  /\ db' = Invalidated(backup)
  /\ ended' = [u \in Users |-> [sessions |-> ended[u].sessions + 1, agents |-> ended[u].agents + 1]]
  /\ audit' = Offline
  /\ UNCHANGED <<providers, backup, logins>>

------------------------------------------------------------------------------
UserCommand ==
  \E p \in Principals, u \in Users :
    \/ \E roles \in RoleSets, status \in Statuses, methods \in MethodSets :
         CreateUser(p, u, roles, status, methods)
    \/ \E status \in Statuses : SetUserStatus(p, u, status)
    \/ \E roles \in RoleSets : ReplaceUserRoles(p, u, roles)
    \/ \E m \in Providers : PutHumanCredential(p, u, m) \/ RemoveHumanCredential(p, u, m)

AgentCommand ==
  \E p \in Principals, a \in Agents :
    \/ \E u \in Users, scopes \in GrantSets : RegisterAgentCredential(p, u, a, scopes)
    \/ \E scopes \in GrantSets : ReplaceAgentScopes(p, a, scopes)
    \/ RevokeAgentCredential(p, a)

Login ==
  \E l \in Logins :
    \/ \E u \in Users, m \in Providers : BeginLogin(l, u, m)
    \/ \E s \in Sessions : CreateBrowserSession(l, s)
    \/ LoginFails(l)

Proof ==
  \/ \E s \in Sessions : RevokeBrowserSession(s)
  \/ \E p \in Principals : Expire(p)

Process ==
  \/ \E u \in Users, m \in Providers : BootstrapIdentity(u, m)
  \/ \E configured \in SUBSET Providers \ {{}} : Start(configured)
  \/ Stop \/ Replicate \/ AcceptRestore

Next == UserCommand \/ AgentCommand \/ Login \/ Proof \/ Process

Spec == Init /\ [][Next]_vars

------------------------------------------------------------------------------
Accounts == [status : Statuses \cup {"absent"}, roles : SUBSET Roles, version : Nat,
             creds : [Providers -> Nat]]
States   == {"live", "expired", "revoked"}
SessionRows == [user : Users, state : States, instance : Nat, since : Nat]
AgentRows   == [user : Users, scopes : SUBSET Scopes, state : States, since : Nat]
Databases   == [instance   : Nat,
                users      : [Users -> Accounts],
                sessions   : [Sessions -> SessionRows \cup {None}],
                agents     : [Agents -> AgentRows \cup {None}]]

(* The types of the variables. *)
TypeOK ==
  /\ providers \subseteq Providers
  /\ db \in Databases
  /\ backup \in Databases \cup {None}
  /\ logins \in [Logins -> [user : Users, method : Providers, version : Nat,
                            credential : Nat, since : Nat] \cup {None}]
  /\ audit \in Users \cup {Offline}
  /\ ended \in [Users -> [sessions : Nat, agents : Nat]]
  /\ budget \in [commands : 0..MaxCommands, events : 0..MaxEvents]

(* While the process runs, an enabled Owner has a credential it accepts:     *)
(* whatever administrators do to each other, to their credentials and roles, *)
(* and however the providers are configured at a restart or the database is  *)
(* restored (require_another_enabled_owner, credential_removal_preserves_    *)
(* access, validate_provider_compatibility).                                 *)
OwnerCanSignIn ==
  providers # {} => \E u \in Users : EnabledOwner(db.users, u) /\ Accepted(db.users[u].creds, providers)

(* A session acts only while the proof behind it stands: not when it was     *)
(* read before the user was disabled, before a credential of theirs was      *)
(* replaced or removed, or before a restore; and an agent credential only    *)
(* when issued after its owner's last disabling and the last restore, even   *)
(* though the account has been enabled again.                                *)
EndedProofsStayEnded ==
  /\ \A s \in Sessions : Active(s) => db.sessions[s].since = ended[ActorOf(s)].sessions
  /\ \A a \in Agents : Active(a) => db.agents[a].since = ended[ActorOf(a)].agents

(* While the process runs, an account is changed only in the name of an      *)
(* enabled user who holds every scope the account has before and after: no   *)
(* chain of role changes, credentials and agents lifts anyone above it.      *)
RanksHold ==
  [][\A u \in Users : providers # {} /\ db'.users[u] # db.users[u] =>
       /\ audit' \in Users /\ Enabled(audit')
       /\ UserScopes(u) \cup ScopesAt(db'.users, u) \subseteq UserScopes(audit')]_vars
=============================================================================
