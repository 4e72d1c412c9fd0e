---------------------------- MODULE ManagedSource ----------------------------
(***************************************************************************)
(* The managed Git source: durable synchronization operations, the task    *)
(* that executes them, and the requests, polls and restarts that share     *)
(* them (crates/server/src/source_sync.rs, domain/source/store.rs).        *)
(*                                                                         *)
(* The configuration of the source and every operation are rows written by *)
(* the sole database writer.  One task executes the single active          *)
(* operation in several transactions, with the remote and the compiler     *)
(* between them; a request can disappear while its write is queued, and    *)
(* the process can die anywhere.                                           *)
(***************************************************************************)
EXTENDS Naturals, FiniteSets, Sequences

CONSTANTS
  Syncs,         (* operation ids                                            *)
  Keys,          (* idempotency keys of operator requests                    *)
  Settings,      (* remote, branch, directory and credential of a revision   *)
  Commits,       (* commits a branch may point at                            *)
  Trees,         (* content tree digests                                     *)
  TreeOf,        (* [Settings \X Commits -> Trees]                           *)
  None,
  RetainedSyncs,   (* MAX_RETAINED_TERMINAL_SOURCE_SYNCS                     *)
  RetainedAliases, (* MAX_RETAINED_SOURCE_SYNC_ALIASES                       *)
  MaxRevision,     (* bound: configuration revisions ever proposed           *)
  MaxStops,        (* bound: crashes and shutdowns                           *)
  MaxPushes,       (* bound: commits pushed to the branches                  *)
  MaxFailures,     (* bound: failures of the remote, of the compiler, of the *)
                   (* reload, and writes refused by a full queue             *)
  MaxLost,         (* bound: requests whose handler is dropped               *)
  MaxTroubles      (* bound: all of these together                           *)

ASSUME SourceConstants ==
  /\ TreeOf \in [Settings \X Commits -> Trees]
  /\ None \notin Syncs \cup Commits \cup Trees \cup Settings
  /\ RetainedSyncs \in Nat /\ RetainedAliases \in Nat \ {0}
  /\ MaxRevision \in Nat /\ MaxStops \in Nat
  /\ MaxPushes \in Nat /\ MaxFailures \in Nat
  /\ MaxLost \in Nat /\ MaxTroubles \in Nat

Stages   == {"queued", "fetching", "resolving_commit", "preparing_candidate",
             "compiling", "reloading"}
Outcomes == {"applied", "no_change", "failed", "cancelled"}

Sync == [
  config   : Nat,                     (* the configuration revision it runs  *)
  expected : Nat,                     (* the revision a proposal replaces, 0 *)
                                      (* for an ordinary synchronization     *)
  state    : Stages \cup Outcomes,     (* the stage, the outcome once finished *)
  commit   : Commits \cup {None},
  tree     : Trees \cup {None}]

Installation == [config : Nat, commit : Commits, tree : Trees, sync : Syncs]
Request == [key : Keys, version : Nat, setting : Settings \cup {None}]
Alias == [sync : Syncs, setting : Settings \cup {None}, version : Nat]

(* Where the task is: between operations, in one, at startup, or over. *)
Steps == {"idle", "lock", "poll", "pick",
          "fetch", "advertise", "download", "resolve", "load", "finish", "prepare",
          "compiling", "compile", "reload", "apply",
          "reconcile", "begin", "serve", "done"}

Task == [pc : Steps, sync : Syncs \cup {None}, version : Nat,
         known : Commits \cup {None}, commit : Commits \cup {None},
         tree : Trees \cup {None}]

ASSUME NoRecord == None \notin Installation \cup Request \cup Task

VARIABLES
  config,     (* durable: the installed configuration revision, 0 when none  *)
  revisions,  (* durable: the settings of each configuration revision        *)
  syncs,      (* durable: source_sync_operations                             *)
  history,    (* durable: which operation was requested before which         *)
  installed,  (* durable: source_installation                                *)
  aliases,    (* durable: source_sync_idempotency_aliases                    *)
  claimed,    (* durable: keys of the audit log, oldest first                *)
  retained,   (* durable: trees in the candidate store                       *)
  remote,     (* external: the commit each setting's branch points at        *)
  phase,      (* "down", "starting", "live" or "stopping"                    *)
  task,       (* the source task: where it is and what it remembers          *)
  request,    (* the operator request that holds the admission lock          *)
  queued,     (* a write in the writer's queue whose requester is gone       *)
  wakeup,     (* the permit stored in Notify                                 *)
  catalog,    (* the coordinator's private content digest                    *)
  budget      (* what is left of the bounds                                  *)

tables  == <<config, revisions, syncs, history, installed, aliases, claimed>>
process == <<phase, task, request, queued, wakeup, catalog>>
vars    == <<tables, retained, remote, process, budget>>

-----------------------------------------------------------------------------
(* The store: each operator is what one transaction does to the tables.     *)

Active == {s \in DOMAIN syncs : syncs[s].state \in Stages}

Store(table, key, row) == [k \in DOMAIN table \cup {key} |-> IF k = key THEN row ELSE table[k]]

(* insert_sync *)
FreshSync == CHOOSE s \in Syncs : s \notin DOMAIN syncs

InsertSync(revision, expected) ==
  /\ Syncs \ DOMAIN syncs # {}
  /\ syncs' = Store(syncs, FreshSync,
       [config |-> revision, expected |-> expected, state |-> "queued",
        commit |-> None, tree |-> None])
  /\ history' = history \cup ((DOMAIN syncs) \X {FreshSync})

(* begin_sync, 1: the version the requester read is installed, and is what  *)
(* the operation in progress, if any, runs.                                 *)
Admits(version) ==
  /\ config = version
  /\ \A s \in Active : syncs[s].config = version

(* Mutant: a request begins an operation beside the one in progress. *)
BeginAnother(version) == Admits(version) /\ InsertSync(version, 0)

(* begin_sync, 2: the request joins the operation in progress. *)
BeginSync(version) ==
  /\ Admits(version)
  /\ IF Active = {} THEN InsertSync(version, 0) ELSE UNCHANGED <<syncs, history>>

(* prune_source_sync_aliases: the newest keys keep their answers *)
NewestAliases(table, keys) ==
  LET newest == {i \in DOMAIN keys : keys[i] \in DOMAIN table} IN
  [k \in {keys[i] : i \in {j \in newest :
            Cardinality({m \in newest : m > j}) < RetainedAliases}} |-> table[k]]

(* record_sync_alias *)
RecordAlias(req, sync) ==
  /\ claimed' = Append(claimed, req.key)
  /\ aliases' = NewestAliases(Store(aliases, req.key,
       [sync |-> sync, setting |-> req.setting, version |-> req.version]), claimed')

ClaimedKeys == {claimed[i] : i \in DOMAIN claimed}

NextRevision == Len(revisions) + 1

(* begin_reconfiguration: the proposal is a revision of its own, installed  *)
(* only with its catalog.                                                   *)
Propose(req) ==
  /\ config = req.version /\ Active = {} /\ Len(revisions) < MaxRevision
  /\ revisions' = Append(revisions, req.setting)
  /\ InsertSync(NextRevision, req.version)
  /\ RecordAlias(req, FreshSync)

SyncNow(req) ==
  /\ BeginSync(req.version)
  /\ RecordAlias(req, IF Active = {} THEN FreshSync ELSE CHOOSE s \in Active : TRUE)
  /\ UNCHANGED revisions

(* A request that is neither a replay nor a conflict. *)
Accepted(req) ==
  /\ req.key \notin ClaimedKeys
  /\ IF req.setting = None THEN Admits(req.version)
     ELSE config = req.version /\ Active = {} /\ Len(revisions) < MaxRevision

(* Mutant: a proposal takes effect before its catalog. *)
ExecuteEagerly(req) ==
  /\ IF ~Accepted(req) THEN UNCHANGED <<revisions, syncs, history, aliases, claimed>>
     ELSE IF req.setting = None THEN SyncNow(req) ELSE Propose(req)
  /\ config' = IF Accepted(req) /\ req.setting # None THEN NextRevision ELSE config
  /\ UNCHANGED installed

(* The transaction of a request; a replay, a conflict and a rejection leave *)
(* the tables as they are.                                                  *)
Execute(req) ==
  /\ IF ~Accepted(req) THEN UNCHANGED <<revisions, syncs, history, aliases, claimed>>
     ELSE IF req.setting = None THEN SyncNow(req) ELSE Propose(req)
  /\ UNCHANGED <<config, installed>>

(* What more than `kept' finished operations have followed *)
OlderThan(kept, table) ==
  LET finished == {s \in DOMAIN table : table[s].state \in Outcomes} IN
  {s \in finished : Cardinality({t \in finished : <<s, t>> \in history}) >= kept}

Aliased == {aliases[k].sync : k \in DOMAIN aliases}
InstalledBy(current) == IF current = None THEN {} ELSE {current.sync}

(* Mutant: history pruned under an alias. *)
ExpiredUnderAlias(table, current) == OlderThan(RetainedSyncs, table) \ InstalledBy(current)

(* prune_source_sync_history *)
Expired(table, current) ==
  OlderThan(RetainedSyncs, table) \ (Aliased \cup InstalledBy(current))

(* terminalize_sync *)
Terminalize(s, row, current) ==
  LET table == Store(syncs, s, row)
      gone  == Expired(table, current)
  IN
  /\ syncs' = [t \in DOMAIN table \ gone |-> table[t]]
  /\ history' = {p \in history : p[1] \notin gone /\ p[2] \notin gone}
  /\ installed' = current

(* finish_sync with a failure or a cancellation keeps what was reached *)
FinishSync(s, outcome) ==
  /\ Terminalize(s, [syncs[s] EXCEPT !.state = outcome], installed)
  /\ UNCHANGED <<config, revisions, aliases, claimed>>

-----------------------------------------------------------------------------
(* The task. *)

Spend(what) ==
  /\ budget[what] > 0 /\ budget.troubles > 0
  /\ budget' = [budget EXCEPT ![what] = @ - 1, !.troubles = @ - 1]

(* The stage of the operation where the task is in each of its steps. *)
Reached == [
  fetch |-> "queued", advertise |-> "fetching", download |-> "fetching",
  resolve |-> "fetching", load |-> "resolving_commit", finish |-> "resolving_commit",
  prepare |-> "resolving_commit", compiling |-> "preparing_candidate",
  compile |-> "compiling", reload |-> "compiling", apply |-> "reloading"]

NoWork == [pc |-> "idle", sync |-> None, version |-> 0, known |-> None,
           commit |-> None, tree |-> None]

At(pc) == phase # "down" /\ task.pc = pc

(* The writer takes its queue in order: a write of the task is behind what  *)
(* an abandoned request left there.                                         *)
Writes(pc) == At(pc) /\ queued = None
Goto(pc) == task' = [task EXCEPT !.pc = pc]

(* The revision and the settings of the operation the task executes. *)
Row == syncs[task.sync]
Setting == revisions[Row.config]

(* advance_sync, from one stage to the next; the version a write expects    *)
(* counts the stages, so that the stage stands for it.                      *)
Advance(from, to, commit, tree, pc) ==
  /\ Row.state = from
  /\ syncs' = Store(syncs, task.sync, [Row EXCEPT
       !.state = to, !.commit = commit, !.tree = tree])
  /\ Goto(pc)
  /\ UNCHANGED <<config, revisions, history, installed, aliases, claimed, retained, remote,
                 phase, request, queued, wakeup, catalog, budget>>

(* Mutant: the queue survives the process. *)
GoneButQueued ==
  /\ phase' = "down" /\ task' = None /\ request' = None /\ queued' = queued
  /\ wakeup' = FALSE /\ catalog' = None

(* The process is gone, with its queue. *)
Gone ==
  /\ phase' = "down" /\ task' = None /\ request' = None /\ queued' = None
  /\ wakeup' = FALSE /\ catalog' = None

(* A failure ends the operation; at startup it ends the process as well.    *)
(* A candidate that could not be loaded or compiled, and a remote that      *)
(* could not be read, are failures of this kind.                            *)
FailOperation ==
  /\ Row.state = Reached[task.pc]
  /\ FinishSync(task.sync, "failed")
  /\ IF phase = "starting" THEN Gone
     ELSE task' = NoWork /\ UNCHANGED <<phase, request, queued, wakeup, catalog>>

(* The task returned an error: a critical task ended, the process stops.    *)
TaskFails ==
  /\ IF phase = "starting" THEN Gone
     ELSE /\ phase' = "stopping" /\ task' = [NoWork EXCEPT !.pc = "done"]
          /\ UNCHANGED <<request, queued, wakeup, catalog>>

Start ==
  /\ phase = "down" /\ config # 0
  /\ phase' = "starting" /\ task' = [NoWork EXCEPT !.pc = "reconcile"]
  /\ UNCHANGED <<tables, retained, remote, request, queued, wakeup, catalog, budget>>

(* prepare_startup: what a previous process left is over *)
Reconcile ==
  /\ Writes("reconcile")
  /\ IF Active = {} THEN UNCHANGED tables
     ELSE \E s \in Active : FinishSync(s, "failed")
  /\ Goto("begin")
  /\ UNCHANGED <<retained, remote, phase, request, queued, wakeup, catalog, budget>>

Take(s) == task' = [NoWork EXCEPT !.pc = "fetch", !.sync = s]

BeginStartup ==
  /\ Writes("begin")
  /\ BeginSync(config)
  /\ Take(FreshSync)
  /\ UNCHANGED <<config, revisions, installed, aliases, claimed, retained, remote,
                 phase, request, queued, wakeup, catalog, budget>>

(* The timer of run: the task leaves its select, and waits for the lock. *)
PollFires ==
  /\ At("idle") /\ phase = "live"
  /\ Goto("lock")
  /\ UNCHANGED <<tables, retained, remote, phase, request, queued, wakeup, catalog, budget>>

(* Mutant: a poll that finds an operation waiting leaves it to its          *)
(* requester.                                                               *)
PollDefers ==
  /\ At("lock") /\ request = None
  /\ task' = IF Active = {} THEN [NoWork EXCEPT !.pc = "poll", !.version = config]
             ELSE NoWork
  /\ UNCHANGED <<tables, retained, remote, phase, request, queued, wakeup, catalog, budget>>

(* Under the lock, a poll begins an operation unless one is waiting. *)
Poll ==
  /\ At("lock") /\ request = None
  /\ task' = IF Active = {} THEN [NoWork EXCEPT !.pc = "poll", !.version = config]
             ELSE [NoWork EXCEPT !.pc = "pick"]
  /\ UNCHANGED <<tables, retained, remote, phase, request, queued, wakeup, catalog, budget>>

BeginPoll ==
  /\ Writes("poll")
  /\ IF Admits(task.version)
       THEN /\ BeginSync(task.version) /\ Goto("pick")
            /\ UNCHANGED <<phase, request, queued, wakeup, catalog>>
       ELSE TaskFails /\ UNCHANGED <<syncs, history>>
  /\ UNCHANGED <<config, revisions, installed, aliases, claimed, retained, remote, budget>>

Wake ==
  /\ At("idle") /\ phase = "live" /\ wakeup
  /\ wakeup' = FALSE /\ Goto("pick")
  /\ UNCHANGED <<tables, retained, remote, phase, request, queued, catalog, budget>>

(* process_active *)
Pick ==
  /\ At("pick")
  /\ IF Active = {} THEN task' = NoWork /\ UNCHANGED tables
     ELSE \E s \in Active :
       IF syncs[s].state = "queued" THEN Take(s) /\ UNCHANGED tables
       ELSE queued = None /\ FinishSync(s, "failed") /\ task' = NoWork
  /\ UNCHANGED <<retained, remote, phase, request, queued, wakeup, catalog, budget>>

(* Mutant: the known commit may be another configuration's. *)
BeginFetchKnown ==
  /\ Writes("fetch")
  /\ Row.state = "queued"
  /\ syncs' = Store(syncs, task.sync, [Row EXCEPT !.state = "fetching"])
  /\ task' = [task EXCEPT !.pc = "advertise",
       !.known = IF installed # None THEN installed.commit ELSE None]
  /\ UNCHANGED <<config, revisions, history, installed, aliases, claimed, retained, remote,
                 phase, request, queued, wakeup, catalog, budget>>

(* prepare_operation reads the installation, then fetch_operation advances  *)
BeginFetch ==
  /\ Writes("fetch")
  /\ Row.state = "queued"
  /\ syncs' = Store(syncs, task.sync, [Row EXCEPT !.state = "fetching"])
  /\ task' = [task EXCEPT !.pc = "advertise",
       !.known = IF installed # None /\ installed.config = Row.config
                   THEN installed.commit ELSE None]
  /\ UNCHANGED <<config, revisions, history, installed, aliases, claimed, retained, remote,
                 phase, request, queued, wakeup, catalog, budget>>

(* GitSync::synchronize: the advertised commit, and the branch if it moved *)
Advertise ==
  /\ At("advertise")
  /\ task' = IF remote[Setting] = task.known
               THEN [task EXCEPT !.pc = "resolve", !.commit = task.known]
               ELSE [task EXCEPT !.pc = "download"]
  /\ UNCHANGED <<tables, retained, remote, phase, request, queued, wakeup, catalog, budget>>

Download ==
  /\ At("download")
  /\ task' = [task EXCEPT !.pc = "resolve", !.commit = remote[Setting], !.known = None]
  /\ UNCHANGED <<tables, retained, remote, phase, request, queued, wakeup, catalog, budget>>

Resolve ==
  /\ Writes("resolve")
  /\ Advance("fetching", "resolving_commit", None, None,
       IF task.known = None THEN "prepare" ELSE IF phase = "starting" THEN "load" ELSE "finish")

(* Mutant: startup recovers a lost tree from whatever the branch holds. *)
LoadBranch ==
  /\ Writes("load")
  /\ task' = [task EXCEPT !.pc = "finish", !.tree =
       IF installed.tree \in retained THEN installed.tree ELSE TreeOf[<<Setting, remote[Setting]>>]]
  /\ retained' = retained \cup {task'.tree}
  /\ UNCHANGED <<tables, remote, phase, request, queued, wakeup, catalog, budget>>

(* load_or_recover_candidate: startup needs the installed tree itself *)
LoadInstalled ==
  /\ At("load")
  /\ IF installed.tree \in retained
       THEN /\ task' = [task EXCEPT !.pc = "finish", !.tree = installed.tree]
            /\ UNCHANGED retained
       ELSE IF remote[Setting] = task.commit
         THEN /\ task' = [task EXCEPT !.pc = "finish", !.tree = TreeOf[<<Setting, task.commit>>]]
              /\ retained' = retained \cup {task'.tree}
         ELSE /\ task' = [task EXCEPT !.pc = "prepare", !.commit = remote[Setting]]
              /\ UNCHANGED retained
  /\ UNCHANGED <<tables, remote, phase, request, queued, wakeup, catalog, budget>>

(* finish_sync with NoChange *)
InstalledIs(commit) ==
  /\ config = Row.config
  /\ installed # None /\ installed.config = Row.config /\ installed.commit = commit

FinishNoChange ==
  /\ Writes("finish")
  /\ Row.state = "resolving_commit"
  /\ InstalledIs(task.commit)
  /\ Terminalize(task.sync,
       [Row EXCEPT !.state = "no_change", !.commit = task.commit, !.tree = installed.tree],
       [installed EXCEPT !.sync = task.sync])
  /\ task' = IF phase = "starting" THEN [task EXCEPT !.pc = "serve"] ELSE NoWork
  /\ UNCHANGED <<config, revisions, aliases, claimed, retained, remote,
                 phase, request, queued, wakeup, catalog, budget>>

Prepare ==
  Writes("prepare") /\ Advance("resolving_commit", "preparing_candidate", task.commit, None, "compiling")

Compiling ==
  Writes("compiling") /\ Advance("preparing_candidate", "compiling", task.commit, None, "compile")

(* prepare_immutable_candidate compiles the tree and retains it *)
Compile ==
  /\ At("compile")
  /\ task' = [task EXCEPT !.pc = "reload", !.tree = TreeOf[<<Setting, task.commit>>]]
  /\ retained' = retained \cup {task'.tree}
  /\ UNCHANGED <<tables, remote, phase, request, queued, wakeup, catalog, budget>>

Reload ==
  Writes("reload") /\ Advance("compiling", "reloading", task.commit, task.tree, "apply")

(* activate_sync_configuration *)
Activatable == config = IF Row.expected = 0 THEN Row.config ELSE Row.expected

(* apply_catalog, directly at startup and by the coordinator's actor in a   *)
(* live process, which then installs the private catalog                    *)
ApplyCatalog ==
  /\ Writes("apply")
  /\ Row.state = "reloading" /\ Row.commit = task.commit /\ Row.tree = task.tree
  /\ Activatable
  /\ config' = Row.config
  /\ Terminalize(task.sync, [Row EXCEPT !.state = "applied"],
       [config |-> Row.config, commit |-> task.commit, tree |-> task.tree, sync |-> task.sync])
  /\ IF phase = "starting" THEN task' = [task EXCEPT !.pc = "serve"] /\ UNCHANGED catalog
     ELSE task' = NoWork /\ catalog' = task.tree
  /\ UNCHANGED <<revisions, aliases, claimed, retained, remote, phase, request, queued, wakeup, budget>>

(* The remote, the compiler, the candidate store or the reload failed. *)
OperationFails ==
  /\ \/ At("advertise") \/ At("download") \/ At("compile")
     \/ At("load")
     \/ At("apply") /\ phase # "starting"
  /\ queued = None /\ Spend("failures")
  /\ FailOperation
  /\ UNCHANGED <<retained, remote>>

(* Cancellation is observed by the transport only. *)
CancelOperation ==
  /\ phase = "stopping" /\ (Writes("advertise") \/ Writes("download"))
  /\ FinishSync(task.sync, "cancelled") /\ task' = NoWork
  /\ UNCHANGED <<retained, remote, phase, request, queued, wakeup, catalog, budget>>

(* A read fails, or a full queue refuses one of the task's own writes, the  *)
(* one that records a failure included.                                     *)
StoreUnavailable ==
  /\ phase # "down" /\ task.pc # "done"
  /\ Spend("failures")
  /\ TaskFails
  /\ UNCHANGED <<tables, retained, remote>>

(* prepare_serving_state, and the listeners *)
Serve ==
  /\ At("serve")
  /\ phase' = "live" /\ catalog' = task.tree /\ task' = NoWork
  /\ UNCHANGED <<tables, retained, remote, request, queued, wakeup, budget>>

(* The cancelled branch of run, under the lock *)
Stop ==
  /\ At("idle") /\ phase = "stopping" /\ request = None
  /\ IF Active = {} THEN UNCHANGED tables
     ELSE queued = None /\ \E s \in Active : FinishSync(s, "cancelled")
  /\ Goto("done")
  /\ UNCHANGED <<retained, remote, phase, request, queued, wakeup, catalog, budget>>

-----------------------------------------------------------------------------
(* Operators. *)

Locked == request # None \/ (phase # "down" /\ task.pc = "poll")

(* begin_manual, which reads the configuration, and reconfigure, which is   *)
(* given the version its author read, up to their write                     *)
Ask(key, setting, version) ==
  /\ phase = "live" /\ ~Locked
  /\ setting = None => version = config
  /\ request' = [key |-> key, version |-> version, setting |-> setting]
  /\ UNCHANGED <<tables, retained, remote, phase, task, queued, wakeup, catalog, budget>>

(* A new operation, one that was joined, or a replayed one still active *)
WakesFor(req) ==
  \/ Accepted(req)
  \/ /\ req.key \in DOMAIN aliases
     /\ aliases[req.key].setting = req.setting
     /\ req.setting # None => aliases[req.key].version = req.version
     /\ aliases[req.key].sync \in Active

Answer ==
  /\ request # None /\ queued = None
  /\ Execute(request)
  /\ wakeup' = (wakeup \/ WakesFor(request))
  /\ request' = None
  /\ UNCHANGED <<retained, remote, phase, task, queued, catalog, budget>>

(* ADMIN_REQUEST_TIMEOUT drops the handler and its lock, not a queued write. *)
Abandon ==
  /\ request # None /\ queued = None /\ Spend("lost")
  /\ queued' \in {request, None} /\ request' = None
  /\ UNCHANGED <<tables, retained, remote, phase, task, wakeup, catalog>>

ExecuteQueued ==
  /\ queued # None
  /\ Execute(queued)
  /\ queued' = None
  /\ UNCHANGED <<retained, remote, phase, task, request, wakeup, catalog, budget>>

(* put_configuration, offline *)
PutConfiguration(setting) ==
  /\ phase = "down" /\ Active = {} /\ Len(revisions) < MaxRevision
  /\ revisions' = Append(revisions, setting)
  /\ config' = NextRevision
  /\ UNCHANGED <<syncs, history, installed, aliases, claimed, retained, remote, process, budget>>

-----------------------------------------------------------------------------
(* The environment. *)

Push(setting, commit) ==
  /\ remote[setting] # commit /\ Spend("pushes")
  /\ remote' = [remote EXCEPT ![setting] = commit]
  /\ UNCHANGED <<tables, retained, process>>

(* A restored instance may come without its candidates. *)
LoseCandidates ==
  /\ phase = "down" /\ retained # {}
  /\ retained' = {}
  /\ UNCHANGED <<tables, remote, process, budget>>

Shutdown ==
  /\ phase = "live" /\ Spend("stops")
  /\ phase' = "stopping"
  /\ UNCHANGED <<tables, retained, remote, task, request, queued, wakeup, catalog>>

Exit ==
  /\ phase = "stopping" /\ task.pc = "done" /\ request = None /\ queued = None
  /\ Gone
  /\ UNCHANGED <<tables, retained, remote, budget>>

Crash ==
  /\ phase # "down" /\ Spend("stops")
  /\ Gone
  /\ UNCHANGED <<tables, retained, remote>>

Init ==
  /\ config = 0 /\ revisions = <<>> /\ syncs = [s \in {} |-> s] /\ history = {}
  /\ installed = None /\ aliases = [k \in {} |-> k] /\ claimed = <<>> /\ retained = {}
  /\ remote \in [Settings -> Commits]
  /\ phase = "down" /\ task = None /\ request = None /\ queued = None
  /\ wakeup = FALSE /\ catalog = None
  /\ budget = [stops |-> MaxStops, pushes |-> MaxPushes, failures |-> MaxFailures,
               lost |-> MaxLost, troubles |-> MaxTroubles]

Work ==
  \/ Reconcile \/ BeginStartup \/ Poll \/ BeginPoll \/ Pick \/ BeginFetch \/ Advertise \/ Download
  \/ Resolve \/ LoadInstalled \/ FinishNoChange \/ Prepare \/ Compiling \/ Compile \/ Reload
  \/ ApplyCatalog \/ CancelOperation \/ Serve \/ Stop

Operator ==
  \/ \E key \in Keys, setting \in Settings \cup {None}, version \in 1..Len(revisions) :
       Ask(key, setting, version)
  \/ Answer \/ Abandon \/ ExecuteQueued
  \/ \E setting \in Settings : PutConfiguration(setting)

Environment ==
  \/ \E setting \in Settings, commit \in Commits : Push(setting, commit)
  \/ LoseCandidates \/ OperationFails \/ StoreUnavailable
  \/ Shutdown \/ Exit \/ Crash \/ Start

Next == Work \/ PollFires \/ Wake \/ Operator \/ Environment

Spec == Init /\ [][Next]_vars

(* The task runs, and gets its turn in the writer's queue and at the fair   *)
(* lock; its timer fires; the writer drains its queue, a     *)
(* request ends one way or the other, and a process that failed is started  *)
(* again.                                                                   *)
Fairness ==
  /\ SF_vars(Work) /\ WF_vars(PollFires) /\ WF_vars(Wake)
  /\ WF_vars(Answer \/ Abandon) /\ WF_vars(ExecuteQueued)
  /\ WF_vars(Exit) /\ WF_vars(Start)

FairSpec == Spec /\ Fairness

-----------------------------------------------------------------------------
(* Properties. *)

TypeOK ==
  /\ config \in 0..Len(revisions) /\ revisions \in Seq(Settings)
  /\ DOMAIN syncs \subseteq Syncs /\ syncs \in [DOMAIN syncs -> Sync]
  /\ history \subseteq (DOMAIN syncs) \X (DOMAIN syncs)
  /\ installed \in Installation \cup {None}
  /\ DOMAIN aliases \subseteq Keys /\ aliases \in [DOMAIN aliases -> Alias]
  /\ claimed \in Seq(Keys)
  /\ retained \subseteq Trees /\ remote \in [Settings -> Commits]
  /\ phase \in {"down", "starting", "live", "stopping"}
  /\ task \in Task \cup {None}
  /\ request \in Request \cup {None} /\ queued \in Request \cup {None}
  /\ wakeup \in BOOLEAN /\ catalog \in Trees \cup {None}
  /\ phase = "down" <=> task = None
  /\ phase = "down" => request = None /\ queued = None

(* "A single durable operation owns managed-source coordination across      *)
(* startup, scheduled polls, and manual requests": no two operations are    *)
(* active, and while the task executes one, the durable row is at the very  *)
(* stage the task's next write expects and nothing installed meanwhile      *)
(* makes that write fail.                                                   *)
OneActive ==
  /\ \A s, t \in Active : s = t
  /\ phase # "down" /\ task.pc \in DOMAIN Reached =>
       /\ task.sync \in Active /\ Row.state = Reached[task.pc]
       /\ task.pc = "finish" => InstalledIs(task.commit)
       /\ task.pc = "apply" => Activatable

(* "A retained retry key returns its original result": the operation behind *)
(* a key that is still answered is never pruned, its fingerprint is the one *)
(* a retry computes from it; yet however long the source is polled, the     *)
(* history stays bounded.                                                   *)
HistoryKept ==
  /\ \A k \in DOMAIN aliases :
       /\ aliases[k].sync \in DOMAIN syncs
       /\ aliases[k].setting = None => aliases[k].version = syncs[aliases[k].sync].config
       /\ k \in ClaimedKeys
  /\ Cardinality(DOMAIN aliases) <= RetainedAliases
  /\ Cardinality(DOMAIN syncs \ Active) <= RetainedSyncs + RetainedAliases + 1

(* The installed commit, its tree and the operation that installed or last  *)
(* confirmed it agree, and name the settings they came from; a live process *)
(* previews exactly what is installed, retains it, and runs under the       *)
(* configuration that produced it.                                          *)
InstalledConsistent ==
  /\ installed # None =>
       /\ installed.sync \in DOMAIN syncs
       /\ syncs[installed.sync].state \in {"applied", "no_change"}
       /\ syncs[installed.sync].commit = installed.commit
       /\ syncs[installed.sync].tree = installed.tree
       /\ syncs[installed.sync].config = installed.config
       /\ installed.tree = TreeOf[<<revisions[installed.config], installed.commit>>]
  /\ phase = "live" =>
       /\ installed # None /\ catalog = installed.tree /\ catalog \in retained
       /\ installed.config = config

(* "The proposal must fetch and compile successfully before its settings    *)
(* and private catalog replace the current installation": in a running      *)
(* process settings change only together with a catalog compiled from them. *)
ConfigurationFollowsCatalog ==
  [][phase # "down" /\ config' # config =>
       /\ installed'.config = config'
       /\ syncs'[installed'.sync].state = "applied"
       /\ installed'.tree = TreeOf[<<revisions[config'], installed'.commit>>]
       /\ installed'.tree \in retained]_vars

(* Every operation gets an outcome, also when its requester disappears      *)
(* before it could wake the task, or the process dies with it.              *)
SyncsEnd == \A s \in Syncs : (s \in Active) ~> (s \notin Active)

(* Once nobody pushes any more (pushes are bounded here), what the branch   *)
(* holds gets installed, through failures, lost requests and restarts.      *)
Settled ==
  config # 0 => /\ installed # None /\ installed.config = config
                /\ installed.commit = remote[revisions[config]]

Converges == []<>Settled
=============================================================================
