------------------------- MODULE ManagedSourceProofs -------------------------
(***************************************************************************)
(* Proofs about the managed Git source.                                    *)
(*                                                                         *)
(* The safety of the source rests on one correspondence: while a process   *)
(* lives, where its task is determines what the durable rows hold.  The    *)
(* inductive invariant is that correspondence, in five parts: the types,   *)
(* the operation in progress (Single), the phases of the process (Phased), *)
(* the position of the task (Positioned), and what a process serves        *)
(* (Served), beside the agreement of the installation with the operation   *)
(* that confirmed it (Confirmed).  The history of operations has an        *)
(* invariant of its own (Kept), proved from the first.                     *)
(***************************************************************************)
EXTENDS ManagedSource, FiniteSetTheorems, TLAPS

Typed ==
  /\ TypeOK
  /\ IsFiniteSet(DOMAIN syncs)
  /\ \A s \in DOMAIN syncs : syncs[s].config \in 1..Len(revisions)
  /\ installed # None => installed.config \in 1..Len(revisions)
  /\ phase # "down" => config # 0

(* The configuration that must be installed when an operation ends well. *)
Base(row) == IF row.expected = 0 THEN row.config ELSE row.expected

(* One operation at most, begun on the installed configuration; a proposal  *)
(* is a revision nothing was installed from.                                *)
Single ==
  /\ \A s, t \in Active : s = t
  /\ \A s \in Active : config = Base(syncs[s])
  /\ \A s \in Active :
       syncs[s].expected # 0 /\ installed # None => installed.config # syncs[s].config

(* Requests come to a process that listens, and startup has steps no later  *)
(* operation has.                                                           *)
Phased ==
  /\ phase = "starting" =>
       /\ request = None /\ queued = None
       /\ task.pc \notin {"idle", "lock", "poll", "pick", "done"}
  /\ phase \in {"live", "stopping"} => task.pc \notin {"reconcile", "begin", "load", "serve"}
  /\ phase # "down" /\ task.pc = "begin" => Active = {}

(* What the task remembers at each of its steps. *)
Positioned ==
  phase # "down" /\ task.pc \in DOMAIN Reached =>
    /\ task.sync \in Active /\ Row.state = Reached[task.pc]
    /\ task.pc \in {"advertise", "resolve", "load", "finish"} /\ task.known # None =>
         InstalledIs(task.known)
    /\ task.pc = "resolve" /\ task.known # None => task.commit = task.known
    /\ task.pc \in {"load", "finish"} => task.known # None /\ task.commit = task.known
    /\ task.pc \in {"resolve", "prepare", "compiling", "compile", "reload", "apply"} =>
         task.commit \in Commits
    /\ task.pc \in {"reload", "apply"} =>
         task.tree = TreeOf[<<Setting, task.commit>>] /\ task.tree \in retained

(* What startup is about to serve, and what a process serves, is what is    *)
(* installed.                                                               *)
Served ==
  /\ phase = "starting" /\ task.pc \in {"finish", "serve"} =>
       installed # None /\ task.tree = installed.tree /\ task.tree \in retained
  /\ phase = "starting" /\ task.pc = "serve" => installed.config = config
  /\ phase \in {"live", "stopping"} =>
       /\ installed # None /\ catalog = installed.tree /\ catalog \in retained
       /\ installed.config = config

Confirmed ==
  installed # None =>
    /\ installed.sync \in DOMAIN syncs
    /\ syncs[installed.sync].state \in {"applied", "no_change"}
    /\ syncs[installed.sync].commit = installed.commit
    /\ syncs[installed.sync].tree = installed.tree
    /\ syncs[installed.sync].config = installed.config
    /\ installed.tree = TreeOf[<<revisions[installed.config], installed.commit>>]

Inv == Typed /\ Single /\ Phased /\ Positioned /\ Served /\ Confirmed

(* The times of request order the operations strictly. *)
Ordered(order, set) ==
  /\ \A s \in set : <<s, s>> \notin order
  /\ \A s, t \in set : s # t => <<s, t>> \in order \/ <<t, s>> \in order
  /\ \A s, t, u \in set : <<s, t>> \in order /\ <<t, u>> \in order => <<s, u>> \in order

Kept == HistoryKept /\ Ordered(history, DOMAIN syncs) /\ IsFiniteSet(DOMAIN aliases)

-----------------------------------------------------------------------------
(* The types, in two halves: what the writer keeps, and what a process      *)
(* holds.                                                                   *)

TablesTyped ==
  /\ config \in 0..Len(revisions) /\ revisions \in Seq(Settings)
  /\ DOMAIN syncs \subseteq Syncs /\ syncs \in [DOMAIN syncs -> Sync]
  /\ history \subseteq (DOMAIN syncs) \X (DOMAIN syncs)
  /\ installed \in Installation \cup {None}
  /\ DOMAIN aliases \subseteq Keys /\ aliases \in [DOMAIN aliases -> Alias]
  /\ claimed \in Seq(Keys)
  /\ IsFiniteSet(DOMAIN syncs)
  /\ \A s \in DOMAIN syncs : syncs[s].config \in 1..Len(revisions)
  /\ installed # None => installed.config \in 1..Len(revisions)

ProcessTyped ==
  /\ retained \subseteq Trees /\ remote \in [Settings -> Commits]
  /\ phase \in {"down", "starting", "live", "stopping"}
  /\ task \in Task \cup {None}
  /\ request \in Request \cup {None} /\ queued \in Request \cup {None}
  /\ wakeup \in BOOLEAN /\ catalog \in Trees \cup {None}
  /\ phase = "down" <=> task = None
  /\ phase = "down" => request = None /\ queued = None
  /\ phase # "down" => config # 0

LEMMA TypedHalves == Typed <=> TablesTyped /\ ProcessTyped
  BY DEF Typed, TypeOK, TablesTyped, ProcessTyped

LEMMA TypedHalvesNext == Typed' <=> TablesTyped' /\ ProcessTyped'
  BY DEF Typed, TypeOK, TablesTyped, ProcessTyped

LEMMA TablesStay == TablesTyped /\ UNCHANGED tables => TablesTyped'
  BY DEF TablesTyped, tables

LEMMA ReachedIs ==
  /\ DOMAIN Reached = {"fetch", "advertise", "download", "resolve", "load", "finish",
                       "prepare", "compiling", "compile", "reload", "apply"}
  /\ Reached["fetch"] = "queued" /\ Reached["advertise"] = "fetching"
  /\ Reached["download"] = "fetching" /\ Reached["resolve"] = "fetching"
  /\ Reached["load"] = "resolving_commit" /\ Reached["finish"] = "resolving_commit"
  /\ Reached["prepare"] = "resolving_commit" /\ Reached["compiling"] = "preparing_candidate"
  /\ Reached["compile"] = "compiling" /\ Reached["reload"] = "compiling"
  /\ Reached["apply"] = "reloading"
  BY DEF Reached

(* A task that moves keeps everything else it remembers. *)
LEMMA GotoMoves ==
  ASSUME task \in Task, NEW pc \in Steps, Goto(pc)
  PROVE  /\ task' \in Task /\ task' # None
         /\ task'.pc = pc /\ task'.sync = task.sync /\ task'.version = task.version
         /\ task'.known = task.known /\ task'.commit = task.commit /\ task'.tree = task.tree
  BY NoRecord DEF Goto, Task

LEMMA NoWorkTask ==
  /\ NoWork \in Task /\ NoWork # None /\ NoWork.pc = "idle"
  /\ \A pc \in Steps :
       LET t == [NoWork EXCEPT !.pc = pc] IN t \in Task /\ t # None /\ t.pc = pc
  /\ \A pc \in Steps, version \in Nat :
       LET t == [NoWork EXCEPT !.pc = pc, !.version = version] IN
       t \in Task /\ t # None /\ t.pc = pc
<1>1. NoWork \in Task
  BY DEF NoWork, Task, Steps
<1>2. \A pc \in Steps : [NoWork EXCEPT !.pc = pc] \in Task /\ [NoWork EXCEPT !.pc = pc].pc = pc
  BY <1>1 DEF Task
<1>3. \A pc \in Steps, version \in Nat :
        /\ [NoWork EXCEPT !.pc = pc, !.version = version] \in Task
        /\ [NoWork EXCEPT !.pc = pc, !.version = version].pc = pc
  BY <1>1 DEF Task
<1>4. NoWork.pc = "idle"
  BY DEF NoWork
<1> QED
  BY <1>1, <1>2, <1>3, <1>4, NoRecord

LEMMA TakeTask ==
  ASSUME NEW s \in Syncs, Take(s)
  PROVE  /\ task' \in Task /\ task' # None /\ task'.pc = "fetch" /\ task'.sync = s
<1>1. NoWork \in Task
  BY NoWorkTask
<1>2. "fetch" \in Steps
  BY DEF Steps
<1>3. task' = [NoWork EXCEPT !.pc = "fetch", !.sync = s]
  BY DEF Take
<1>4. task' \in Task /\ task'.pc = "fetch" /\ task'.sync = s
  BY <1>1, <1>2, <1>3 DEF Task
<1> QED
  BY <1>4, NoRecord

LEMMA StoredKnown ==
  ASSUME NEW table, NEW key \in DOMAIN table, NEW row
  PROVE  DOMAIN Store(table, key, row) = DOMAIN table
  BY DEF Store
-----------------------------------------------------------------------------
(* What one transaction does to the rows: an operation advances, ends, or   *)
(* is begun.                                                                *)

LEMMA ActiveTyped ==
  ASSUME TablesTyped, NEW s \in Active
  PROVE  /\ s \in Syncs /\ s \in DOMAIN syncs /\ syncs[s] \in Sync
         /\ syncs[s].config \in 1..Len(revisions) /\ Len(revisions) \in Nat
  BY DEF TablesTyped, Active

LEMMA StagesEnd == \A x \in Stages : x \notin Outcomes
  BY DEF Stages, Outcomes

(* An operation that advances stays the operation in progress. *)
LEMMA Advances ==
  ASSUME TablesTyped, Single, Confirmed, NEW s \in Active, NEW row \in Sync,
         row.state \in Stages, row.config = syncs[s].config, row.expected = syncs[s].expected,
         syncs' = Store(syncs, s, row),
         UNCHANGED <<config, revisions, history, installed, aliases, claimed>>
  PROVE  /\ TablesTyped' /\ Single' /\ Confirmed'
         /\ Active' = Active /\ syncs'[s] = row
<1>1. /\ s \in DOMAIN syncs /\ s \in Syncs
  BY ActiveTyped
<1>2. DOMAIN syncs' = DOMAIN syncs
  BY <1>1, StoredKnown
<1>3. syncs'[s] = row /\ \A t \in DOMAIN syncs : t # s => syncs'[t] = syncs[t]
  BY DEF Store
<1>4. Active' = Active
  <2>1. syncs[s].state \in Stages
    BY DEF Active
  <2> QED
    BY <1>1, <1>2, <1>3, <2>1 DEF Active
<1>5. syncs' \in [DOMAIN syncs' -> Sync]
  <2>1. syncs' = [t \in DOMAIN syncs' |-> syncs'[t]]
    BY DEF Store
  <2>2. \A t \in DOMAIN syncs' : syncs'[t] \in Sync
    BY <1>2, <1>3 DEF TablesTyped
  <2> QED
    BY <2>1, <2>2
<1>6. \A t \in DOMAIN syncs' : syncs'[t].config \in 1..Len(revisions')
  BY <1>2, <1>3, <1>1 DEF TablesTyped
<1>7. TablesTyped'
  BY <1>2, <1>5, <1>6 DEF TablesTyped
<1>8. Single'
  <2>1. \A t \in Active' : /\ syncs'[t].config = syncs[t].config
                           /\ syncs'[t].expected = syncs[t].expected
    BY <1>3, <1>4 DEF Active
  <2> QED
    BY <1>4, <2>1 DEF Single, Base
<1>9. Confirmed'
  <2> SUFFICES ASSUME installed # None
               PROVE  installed.sync \in DOMAIN syncs' /\ syncs'[installed.sync] = syncs[installed.sync]
    BY DEF Confirmed
  <2>1. installed.sync \in DOMAIN syncs /\ syncs[installed.sync].state \in Outcomes
    BY DEF Confirmed, Outcomes
  <2>2. installed.sync # s
    BY <2>1, StagesEnd DEF Active
  <2> QED
    BY <1>2, <1>3, <2>1, <2>2
<1> QED
  BY <1>3, <1>4, <1>7, <1>8, <1>9

(* When an operation ends, none is in progress, the other rows that are     *)
(* left are as they were, and no row behind a key or behind the             *)
(* installation goes.                                                       *)
LEMMA Terminalizes ==
  ASSUME TablesTyped, Single, NEW s \in Active, NEW row \in Sync, row.state \in Outcomes,
         NEW current, Terminalize(s, row, current)
  PROVE  /\ Active' = {}
         /\ DOMAIN syncs' \subseteq DOMAIN syncs
         /\ \A t \in DOMAIN syncs' : syncs'[t] = IF t = s THEN row ELSE syncs[t]
         /\ \A k \in DOMAIN aliases : aliases[k].sync \in DOMAIN syncs =>
              aliases[k].sync \in DOMAIN syncs'
         /\ current # None /\ current.sync \in DOMAIN syncs => current.sync \in DOMAIN syncs'
         /\ DOMAIN syncs' = DOMAIN syncs \ Expired(Store(syncs, s, row), current)
         /\ history' \subseteq history
         /\ history' \subseteq (DOMAIN syncs') \X (DOMAIN syncs')
<1> DEFINE table == Store(syncs, s, row)
           gone  == Expired(table, current)
<1>1. s \in DOMAIN syncs /\ syncs[s].state \in Stages
  BY DEF Active
<1>2. DOMAIN table = DOMAIN syncs
  BY <1>1, StoredKnown
<1>3. \A t \in DOMAIN syncs : table[t] = IF t = s THEN row ELSE syncs[t]
  BY DEF Store
<1>4. /\ syncs' = [t \in DOMAIN table \ gone |-> table[t]]
      /\ history' = {p \in history : p[1] \notin gone /\ p[2] \notin gone}
  BY DEF Terminalize
<1> HIDE DEF table
<1>5. DOMAIN syncs' = DOMAIN syncs \ gone /\ \A t \in DOMAIN syncs' : syncs'[t] = table[t]
  BY <1>2, <1>4
<1>6. gone \cap (Aliased \cup InstalledBy(current)) = {}
  BY DEF Expired
<1> HIDE DEF gone
<1>7. Active' = {}
  <2>1. \A t \in DOMAIN syncs' : t # s => syncs[t].state \notin Stages
    BY <1>1, <1>5 DEF Single, Active
  <2>2. \A t \in DOMAIN syncs' : syncs'[t].state \notin Stages
    BY <1>3, <1>5, <2>1, StagesEnd
  <2> QED
    BY <2>2 DEF Active
<1>8. \A k \in DOMAIN aliases : aliases[k].sync \notin gone
  BY <1>6 DEF Aliased
<1>9. current # None => current.sync \notin gone
  BY <1>6 DEF InstalledBy
<1>10. history' \subseteq history /\ history' \subseteq (DOMAIN syncs') \X (DOMAIN syncs')
  <2>1. history \subseteq (DOMAIN syncs) \X (DOMAIN syncs)
    BY DEF TablesTyped
  <2> QED
    BY <1>4, <1>5, <2>1
<1> QED
  BY <1>3, <1>5, <1>7, <1>8, <1>9, <1>10 DEF table, gone

LEMMA TerminalizesTyped ==
  ASSUME TablesTyped, Single, NEW s \in Active, NEW row \in Sync, row.state \in Outcomes,
         row.config = syncs[s].config,
         NEW current \in Installation \cup {None}, Terminalize(s, row, current),
         current # None => current.config \in 1..Len(revisions),
         config' \in 0..Len(revisions), UNCHANGED <<revisions, aliases, claimed>>
  PROVE  /\ TablesTyped' /\ Single' /\ installed' = current
<1>1. /\ DOMAIN syncs' \subseteq DOMAIN syncs
      /\ \A t \in DOMAIN syncs' : syncs'[t] = IF t = s THEN row ELSE syncs[t]
      /\ history' \subseteq (DOMAIN syncs') \X (DOMAIN syncs')
      /\ Active' = {}
  BY Terminalizes
<1>2. \A t \in DOMAIN syncs' : /\ syncs'[t] \in Sync
                               /\ syncs'[t].config \in 1..Len(revisions)
  BY <1>1, ActiveTyped DEF TablesTyped
<1>3. syncs' \in [DOMAIN syncs' -> Sync]
  <2>1. syncs' = [t \in DOMAIN syncs' |-> syncs'[t]]
    BY DEF Terminalize
  <2> QED
    BY <1>2, <2>1
<1>4. IsFiniteSet(DOMAIN syncs')
  BY <1>1, FS_Subset DEF TablesTyped
<1>5. installed' = current
  BY DEF Terminalize
<1>6. TablesTyped'
  BY <1>1, <1>2, <1>3, <1>4, <1>5 DEF TablesTyped
<1>7. Single'
  BY <1>1 DEF Single
<1> QED
  BY <1>5, <1>6, <1>7

(* A failed or cancelled operation leaves the installation alone. *)
LEMMA Finishes ==
  ASSUME TablesTyped, Single, Confirmed, NEW s \in Active,
         NEW outcome \in {"failed", "cancelled"}, FinishSync(s, outcome)
  PROVE  /\ TablesTyped' /\ Single' /\ Confirmed' /\ Active' = {}
         /\ UNCHANGED <<config, revisions, installed, aliases, claimed>>
<1> DEFINE row == [syncs[s] EXCEPT !.state = outcome]
<1>1. outcome \in Outcomes /\ outcome \in Stages \cup Outcomes
  BY DEF Outcomes
<1>2. row \in Sync /\ row.state = outcome /\ row.config = syncs[s].config
  BY <1>1, ActiveTyped DEF Sync
<1>3. Terminalize(s, row, installed) /\ UNCHANGED <<config, revisions, aliases, claimed>>
  BY DEF FinishSync
<1> HIDE DEF row
<1>4. /\ installed \in Installation \cup {None}
      /\ installed # None => installed.config \in 1..Len(revisions)
      /\ config' \in 0..Len(revisions)
  BY <1>3 DEF TablesTyped
<1>5. TablesTyped' /\ Single' /\ installed' = installed
  BY <1>1, <1>2, <1>3, <1>4, TerminalizesTyped
<1>6. /\ Active' = {}
      /\ \A t \in DOMAIN syncs' : syncs'[t] = IF t = s THEN row ELSE syncs[t]
      /\ installed # None /\ installed.sync \in DOMAIN syncs => installed.sync \in DOMAIN syncs'
  BY <1>1, <1>2, <1>3, Terminalizes
<1>7. Confirmed'
  <2> SUFFICES ASSUME installed # None
               PROVE  installed.sync \in DOMAIN syncs' /\ syncs'[installed.sync] = syncs[installed.sync]
    BY <1>3, <1>5 DEF Confirmed
  <2>1. installed.sync \in DOMAIN syncs /\ syncs[installed.sync].state \in Outcomes
    BY DEF Confirmed, Outcomes
  <2>2. installed.sync # s
    BY <2>1, StagesEnd DEF Active
  <2> QED
    BY <1>6, <2>1, <2>2
<1> QED
  BY <1>3, <1>5, <1>6, <1>7

(* A new operation is the only one, and has a row nothing refers to yet. *)
LEMMA Inserts ==
  ASSUME TablesTyped, Single, Confirmed, Active = {},
         NEW revision \in Nat, NEW expected \in Nat,
         InsertSync(revision, expected)
  PROVE  /\ FreshSync \in Syncs /\ FreshSync \notin DOMAIN syncs
         /\ DOMAIN syncs' = DOMAIN syncs \cup {FreshSync}
         /\ syncs'[FreshSync].config = revision /\ syncs'[FreshSync].expected = expected
         /\ syncs'[FreshSync].state = "queued"
         /\ \A t \in DOMAIN syncs : syncs'[t] = syncs[t]
         /\ syncs' \in [DOMAIN syncs' -> Sync]
         /\ history' \subseteq (DOMAIN syncs') \X (DOMAIN syncs')
         /\ IsFiniteSet(DOMAIN syncs')
         /\ Active' = {FreshSync}
<1> DEFINE row == [config |-> revision, expected |-> expected, state |-> "queued",
                   commit |-> None, tree |-> None]
<1>1. FreshSync \in Syncs /\ FreshSync \notin DOMAIN syncs
  BY DEF InsertSync, FreshSync
<1>2. row \in Sync /\ row.config = revision /\ row.expected = expected /\ row.state = "queued"
  BY DEF Sync, Stages
<1>3. /\ syncs' = Store(syncs, FreshSync, row)
      /\ history' = history \cup ((DOMAIN syncs) \X {FreshSync})
  BY DEF InsertSync
<1> HIDE DEF row
<1>4. DOMAIN syncs' = DOMAIN syncs \cup {FreshSync}
  BY <1>3 DEF Store
<1>5. syncs'[FreshSync] = row /\ \A t \in DOMAIN syncs : syncs'[t] = syncs[t]
  BY <1>1, <1>3 DEF Store
<1>6. syncs' \in [DOMAIN syncs' -> Sync]
  <2>1. syncs' = [t \in DOMAIN syncs' |-> syncs'[t]]
    BY <1>3 DEF Store
  <2>2. \A t \in DOMAIN syncs' : syncs'[t] \in Sync
    BY <1>2, <1>4, <1>5 DEF TablesTyped
  <2> QED
    BY <2>1, <2>2
<1>7. history' \subseteq (DOMAIN syncs') \X (DOMAIN syncs')
  <2>1. history \subseteq (DOMAIN syncs) \X (DOMAIN syncs)
    BY DEF TablesTyped
  <2> QED
    BY <1>3, <1>4, <2>1
<1>8. IsFiniteSet(DOMAIN syncs')
  BY <1>4, FS_AddElement DEF TablesTyped
<1>9. Active' = {FreshSync}
  <2>1. \A t \in DOMAIN syncs : syncs'[t].state \notin Stages
    BY <1>5 DEF Active
  <2>2. syncs'[FreshSync].state \in Stages
    BY <1>2, <1>5 DEF Stages
  <2> QED
    BY <1>4, <2>1, <2>2 DEF Active
<1> QED
  BY <1>1, <1>2, <1>4, <1>5, <1>6, <1>7, <1>8, <1>9

LEMMA ConfirmedStays ==
  ASSUME TablesTyped, Confirmed, UNCHANGED installed,
         DOMAIN syncs \subseteq DOMAIN syncs',
         \A t \in DOMAIN syncs : syncs'[t] = syncs[t],
         \A i \in 1..Len(revisions) : revisions'[i] = revisions[i]
  PROVE  Confirmed'
<1> SUFFICES ASSUME installed # None
             PROVE  Confirmed'
  BY DEF Confirmed
<1>1. /\ installed.sync \in DOMAIN syncs'
      /\ syncs'[installed.sync] = syncs[installed.sync]
      /\ revisions'[installed.config] = revisions[installed.config]
  BY DEF Confirmed, TablesTyped
<1> QED
  BY <1>1 DEF Confirmed

(* begin_sync: the operation in progress is joined, or there is a new one. *)
LEMMA Begins ==
  ASSUME TablesTyped, Single, Confirmed, config # 0,
         NEW version, BeginSync(version), UNCHANGED <<config, revisions, installed>>
  PROVE  /\ Single' /\ Confirmed'
         /\ DOMAIN syncs' \subseteq Syncs /\ syncs' \in [DOMAIN syncs' -> Sync]
         /\ history' \subseteq (DOMAIN syncs') \X (DOMAIN syncs')
         /\ IsFiniteSet(DOMAIN syncs')
         /\ \A s \in DOMAIN syncs' : syncs'[s].config \in 1..Len(revisions)
         /\ Active # {} => UNCHANGED <<syncs, history>>
         /\ Active = {} => /\ FreshSync \in Syncs /\ Active' = {FreshSync}
                           /\ FreshSync \in DOMAIN syncs'
                           /\ syncs'[FreshSync].config = version
                           /\ syncs'[FreshSync].state = "queued"
         /\ DOMAIN syncs \subseteq DOMAIN syncs'
         /\ \A t \in DOMAIN syncs : syncs'[t] = syncs[t]
<1>1. CASE Active # {}
  <2>1. UNCHANGED <<syncs, history>>
    BY <1>1 DEF BeginSync
  <2>2. Single' /\ Confirmed'
    BY <2>1 DEF Single, Confirmed, Active, Base
  <2> QED
    BY <1>1, <2>1, <2>2 DEF TablesTyped
<1>2. CASE Active = {}
  <2>1. config = version /\ InsertSync(version, 0)
    BY <1>2 DEF BeginSync, Admits
  <2>2. version \in Nat /\ version \in 1..Len(revisions) /\ 0 \in Nat
    BY <2>1 DEF TablesTyped
  <2>3. /\ FreshSync \in Syncs /\ FreshSync \notin DOMAIN syncs
        /\ DOMAIN syncs' = DOMAIN syncs \cup {FreshSync}
        /\ syncs'[FreshSync].config = version /\ syncs'[FreshSync].expected = 0
        /\ syncs'[FreshSync].state = "queued"
        /\ \A t \in DOMAIN syncs : syncs'[t] = syncs[t]
        /\ syncs' \in [DOMAIN syncs' -> Sync]
        /\ history' \subseteq (DOMAIN syncs') \X (DOMAIN syncs')
        /\ IsFiniteSet(DOMAIN syncs')
        /\ Active' = {FreshSync}
    BY <1>2, <2>1, <2>2, Inserts
  <2>4. Single'
    BY <2>1, <2>3 DEF Single, Base
  <2>5. Confirmed'
    BY <2>3, ConfirmedStays
  <2>6. \A s \in DOMAIN syncs' : syncs'[s].config \in 1..Len(revisions)
    BY <2>2, <2>3 DEF TablesTyped
  <2>7. DOMAIN syncs' \subseteq Syncs
    BY <2>3 DEF TablesTyped
  <2> QED
    BY <1>2, <2>3, <2>4, <2>5, <2>6, <2>7
<1> QED
  BY <1>1, <1>2

-----------------------------------------------------------------------------
(* What the transaction of a request does.                                  *)

LEMMA NewestAre ==
  ASSUME NEW table, NEW keys
  PROVE  LET newest == NewestAliases(table, keys) IN
         /\ newest = [k \in DOMAIN newest |-> newest[k]]
         /\ DOMAIN newest \subseteq DOMAIN table
         /\ DOMAIN newest \subseteq {keys[i] : i \in DOMAIN keys}
         /\ \A k \in DOMAIN newest : newest[k] = table[k]
<1> DEFINE indices == {i \in DOMAIN keys : keys[i] \in DOMAIN table}
           kept == {keys[i] : i \in {j \in indices :
                      Cardinality({m \in indices : m > j}) < RetainedAliases}}
<1>1. NewestAliases(table, keys) = [k \in kept |-> table[k]]
  BY DEF NewestAliases
<1>2. kept \subseteq DOMAIN table /\ kept \subseteq {keys[i] : i \in DOMAIN keys}
  OBVIOUS
<1> HIDE DEF kept
<1> QED
  BY <1>1, <1>2

(* The new key is answered, the others that are still answered as before.   *)
LEMMA Records ==
  ASSUME TablesTyped, NEW req \in Request, NEW s \in Syncs, RecordAlias(req, s)
  PROVE  /\ claimed' = Append(claimed, req.key) /\ claimed' \in Seq(Keys)
         /\ DOMAIN aliases' \subseteq Keys /\ aliases' \in [DOMAIN aliases' -> Alias]
         /\ DOMAIN aliases' \subseteq {claimed'[i] : i \in DOMAIN claimed'}
         /\ DOMAIN aliases' \subseteq DOMAIN aliases \cup {req.key}
         /\ \A k \in DOMAIN aliases' : aliases'[k] =
              IF k = req.key THEN [sync |-> s, setting |-> req.setting, version |-> req.version]
              ELSE aliases[k]
<1> DEFINE entry == [sync |-> s, setting |-> req.setting, version |-> req.version]
           table == Store(aliases, req.key, entry)
<1>1. req.key \in Keys /\ entry \in Alias
  BY DEF Request, Alias
<1>2. claimed' = Append(claimed, req.key) /\ aliases' = NewestAliases(table, claimed')
  BY DEF RecordAlias
<1> HIDE DEF entry
<1>3. claimed' \in Seq(Keys)
  BY <1>1, <1>2 DEF TablesTyped
<1>4. /\ DOMAIN table = DOMAIN aliases \cup {req.key}
      /\ \A k \in DOMAIN table : table[k] = IF k = req.key THEN entry ELSE aliases[k]
  BY DEF Store
<1> HIDE DEF table
<1>5. /\ aliases' = [k \in DOMAIN aliases' |-> aliases'[k]]
      /\ DOMAIN aliases' \subseteq DOMAIN table
      /\ DOMAIN aliases' \subseteq {claimed'[i] : i \in DOMAIN claimed'}
      /\ \A k \in DOMAIN aliases' : aliases'[k] = table[k]
  <2> DEFINE newest == NewestAliases(table, claimed')
  <2>1. /\ newest = [k \in DOMAIN newest |-> newest[k]]
        /\ DOMAIN newest \subseteq DOMAIN table
        /\ DOMAIN newest \subseteq {claimed'[i] : i \in DOMAIN claimed'}
        /\ \A k \in DOMAIN newest : newest[k] = table[k]
    BY NewestAre
  <2>2. aliases' = newest
    BY <1>2
  <2> HIDE DEF newest
  <2> QED
    BY <2>1, <2>2
<1>6. \A k \in DOMAIN aliases' : aliases'[k] = IF k = req.key THEN entry ELSE aliases[k]
  BY <1>4, <1>5
<1>7. \A k \in DOMAIN aliases' : aliases'[k] \in Alias
  BY <1>1, <1>4, <1>5, <1>6 DEF TablesTyped
<1>8. aliases' \in [DOMAIN aliases' -> Alias]
  BY <1>5, <1>7
<1>9. DOMAIN aliases' \subseteq Keys
  BY <1>1, <1>4, <1>5 DEF TablesTyped
<1> QED
  BY <1>2, <1>3, <1>4, <1>5, <1>6, <1>8, <1>9 DEF entry

LEMMA SyncsNow ==
  ASSUME TablesTyped, Single, Confirmed, config # 0, NEW req \in Request, SyncNow(req),
         UNCHANGED <<config, installed>>
  PROVE  TablesTyped' /\ Single' /\ Confirmed' /\ (Active # {} => UNCHANGED <<syncs, revisions>>)
<1>1. BeginSync(req.version) /\ UNCHANGED revisions
  BY DEF SyncNow
<1> DEFINE s == IF Active = {} THEN FreshSync ELSE CHOOSE t \in Active : TRUE
<1>2. /\ Single' /\ Confirmed'
      /\ DOMAIN syncs' \subseteq Syncs /\ syncs' \in [DOMAIN syncs' -> Sync]
      /\ history' \subseteq (DOMAIN syncs') \X (DOMAIN syncs')
      /\ IsFiniteSet(DOMAIN syncs')
      /\ \A t \in DOMAIN syncs' : syncs'[t].config \in 1..Len(revisions)
      /\ Active # {} => UNCHANGED <<syncs, history>>
      /\ Active = {} => FreshSync \in Syncs
  BY <1>1, Begins
<1>3. s \in Syncs
  BY <1>2, ActiveTyped
<1>4. RecordAlias(req, s)
  BY DEF SyncNow
<1>5. /\ claimed' \in Seq(Keys)
      /\ DOMAIN aliases' \subseteq Keys /\ aliases' \in [DOMAIN aliases' -> Alias]
  BY <1>3, <1>4, Records
<1>6. TablesTyped'
  BY <1>1, <1>2, <1>5 DEF TablesTyped
<1> QED
  BY <1>1, <1>2, <1>6

LEMMA Appended ==
  ASSUME TablesTyped, NEW setting \in Settings, revisions' = Append(revisions, setting)
  PROVE  /\ revisions' \in Seq(Settings) /\ Len(revisions') = Len(revisions) + 1
         /\ Len(revisions) \in Nat
         /\ \A i \in 1..Len(revisions) : revisions'[i] = revisions[i]
  BY DEF TablesTyped

LEMMA Proposes ==
  ASSUME TablesTyped, Single, Confirmed, config # 0, NEW req \in Request, req.setting # None,
         Propose(req), UNCHANGED <<config, installed>>
  PROVE  TablesTyped' /\ Single' /\ Confirmed' /\ Active = {}
<1>1. /\ config = req.version /\ Active = {}
      /\ revisions' = Append(revisions, req.setting)
      /\ InsertSync(NextRevision, req.version)
      /\ RecordAlias(req, FreshSync)
  BY DEF Propose
<1>2. req.setting \in Settings /\ req.version \in Nat
  BY DEF Request
<1>3. /\ revisions' \in Seq(Settings) /\ Len(revisions') = NextRevision
      /\ NextRevision = Len(revisions) + 1 /\ Len(revisions) \in Nat /\ NextRevision \in Nat
      /\ \A i \in 1..Len(revisions) : revisions'[i] = revisions[i]
  BY <1>1, <1>2, Appended DEF NextRevision
<1>4. /\ FreshSync \in Syncs /\ FreshSync \notin DOMAIN syncs
      /\ DOMAIN syncs' = DOMAIN syncs \cup {FreshSync}
      /\ syncs'[FreshSync].config = NextRevision /\ syncs'[FreshSync].expected = req.version
      /\ \A t \in DOMAIN syncs : syncs'[t] = syncs[t]
      /\ syncs' \in [DOMAIN syncs' -> Sync]
      /\ history' \subseteq (DOMAIN syncs') \X (DOMAIN syncs')
      /\ IsFiniteSet(DOMAIN syncs')
      /\ Active' = {FreshSync}
  BY <1>1, <1>2, <1>3, Inserts
<1>5. /\ claimed' \in Seq(Keys)
      /\ DOMAIN aliases' \subseteq Keys /\ aliases' \in [DOMAIN aliases' -> Alias]
  BY <1>1, <1>4, Records
<1>6. \A t \in DOMAIN syncs' : syncs'[t].config \in 1..Len(revisions')
  BY <1>3, <1>4 DEF TablesTyped
<1>7. installed # None => installed.config \in 1..Len(revisions) /\ installed.config # NextRevision
  BY <1>3 DEF TablesTyped
<1>8. TablesTyped'
  <2>1. config' \in 0..Len(revisions')
    BY <1>3 DEF TablesTyped
  <2>2. installed' # None => installed'.config \in 1..Len(revisions')
    BY <1>3, <1>7
  <2>3. DOMAIN syncs' \subseteq Syncs /\ installed' \in Installation \cup {None}
    BY <1>4 DEF TablesTyped
  <2> QED
    BY <1>3, <1>4, <1>5, <1>6, <2>1, <2>2, <2>3 DEF TablesTyped
<1>9. Single'
  BY <1>1, <1>4, <1>7 DEF Single, Base
<1>10. Confirmed'
  BY <1>3, <1>4, ConfirmedStays
<1> QED
  BY <1>1, <1>8, <1>9, <1>10

(* A request changes what the task works on only when there is nothing it   *)
(* works on.                                                                *)
LEMMA Executes ==
  ASSUME TablesTyped, Single, Confirmed, config # 0, NEW req \in Request, Execute(req)
  PROVE  /\ TablesTyped' /\ Single' /\ Confirmed'
         /\ UNCHANGED <<config, installed>>
         /\ Active # {} => UNCHANGED <<syncs, revisions>>
<1>1. UNCHANGED <<config, installed>>
  BY DEF Execute
<1>2. CASE UNCHANGED <<revisions, syncs, history, aliases, claimed>>
  BY <1>1, <1>2 DEF TablesTyped, Single, Confirmed, Active, Base
<1>3. CASE req.setting = None /\ SyncNow(req)
  BY <1>1, <1>3, SyncsNow
<1>4. CASE req.setting # None /\ Propose(req)
  BY <1>1, <1>4, Proposes
<1> QED
  BY <1>1, <1>2, <1>3, <1>4 DEF Execute

-----------------------------------------------------------------------------
(* Steps after which the task holds nothing, and steps of others.           *)

(* Where no operation is in the task's hands. *)
Between == {"idle", "lock", "poll", "pick", "done"}

LEMMA InvParts ==
  Inv <=> /\ TablesTyped /\ ProcessTyped /\ Single /\ Phased /\ Positioned /\ Served
          /\ Confirmed
  BY TypedHalves DEF Inv

LEMMA InvPartsNext ==
  Inv' <=> /\ TablesTyped' /\ ProcessTyped' /\ Single' /\ Phased' /\ Positioned' /\ Served'
           /\ Confirmed'
  BY TypedHalvesNext DEF Inv

LEMMA TablesKept ==
  ASSUME Inv, UNCHANGED tables
  PROVE  TablesTyped' /\ Single' /\ Confirmed' /\ Active' = Active
<1>1. TablesTyped'
  BY InvParts, TablesStay
<1>2. Active' = Active
  BY DEF Active, tables
<1>3. Single'
  BY <1>2 DEF Inv, Single, Base, tables
<1>4. Confirmed'
  BY DEF Inv, Confirmed, tables
<1> QED
  BY <1>1, <1>2, <1>3, <1>4

LEMMA ProcessGone ==
  ASSUME ProcessTyped, Gone, retained' \subseteq Trees, remote' \in [Settings -> Commits],
         TablesTyped', Single', Confirmed'
  PROVE  Inv'
<1>1. ProcessTyped'
  BY DEF ProcessTyped, Gone
<1>2. Phased' /\ Positioned' /\ Served'
  BY DEF Gone, Phased, Positioned, Served
<1> QED
  BY <1>1, <1>2, InvPartsNext

LEMMA ProcessMoves ==
  ASSUME ProcessTyped, phase # "down", phase' \in {"starting", "live", "stopping"},
         task' \in Task, task' # None, retained' \subseteq Trees,
         catalog' \in Trees \cup {None},
         wakeup' \in BOOLEAN, config' # 0, UNCHANGED <<remote, request, queued>>
  PROVE  ProcessTyped'
  BY DEF ProcessTyped

(* The task of a process that listens is left without an operation.         *)
LEMMA Idles ==
  ASSUME Inv, phase \in {"live", "stopping"}, phase' \in {phase, "stopping"},
         task' \in Task, task' # None, task'.pc \in Between,
         TablesTyped', Single', Confirmed',
         wakeup' \in BOOLEAN,
         UNCHANGED <<config, installed, retained, remote, request, queued, catalog>>
  PROVE  Inv'
<1>1. ProcessTyped
  BY InvParts
<1>2. ProcessTyped'
  BY <1>1, ProcessMoves DEF ProcessTyped
<1>3. Phased'
  BY DEF Phased, Between
<1>4. Positioned'
  BY ReachedIs DEF Positioned, Between
<1>5. Served'
  BY DEF Inv, Served
<1> QED
  BY <1>2, <1>3, <1>4, <1>5, InvPartsNext

LEMMA Fails ==
  ASSUME Inv, phase # "down", TaskFails, TablesTyped', Single', Confirmed',
         UNCHANGED <<config, installed, retained, remote>>
  PROVE  Inv'
<1>1. ProcessTyped
  BY InvParts
<1>2. CASE phase = "starting"
  BY <1>1, <1>2, ProcessGone DEF TaskFails, ProcessTyped
<1>3. CASE phase # "starting"
  <2>1. /\ phase' = "stopping" /\ task' = [NoWork EXCEPT !.pc = "done"]
        /\ UNCHANGED <<request, queued, wakeup, catalog>>
    BY <1>3 DEF TaskFails
  <2>2. task' \in Task /\ task' # None /\ task'.pc = "done"
    BY <2>1, NoWorkTask DEF Steps
  <2>3. phase \in {"live", "stopping"} /\ wakeup' \in BOOLEAN
    BY <1>1, <1>3, <2>1 DEF ProcessTyped
  <2> QED
    BY <2>1, <2>2, <2>3, Idles DEF Between
<1> QED
  BY <1>2, <1>3

(* What others do leaves the operation of the task where it is.             *)
LEMMA TaskStays ==
  ASSUME Inv, phase # "down", phase' \in {"starting", "live", "stopping"},
         phase = "starting" => UNCHANGED <<phase, request, queued, syncs>>,
         phase # "starting" => phase' # "starting",
         UNCHANGED <<task, config, installed, catalog>>,
         retained' = retained, remote' \in [Settings -> Commits],
         request' \in Request \cup {None}, queued' \in Request \cup {None},
         wakeup' \in BOOLEAN,
         TablesTyped', Single', Confirmed',
         Active # {} => UNCHANGED <<syncs, revisions>>
  PROVE  Inv'
<1>1. ProcessTyped /\ Phased /\ Positioned /\ Served
  BY InvParts
<1>2. ProcessTyped'
  BY <1>1 DEF ProcessTyped
<1>3. Phased'
  BY <1>1 DEF Phased, ProcessTyped, Active
<1>4. Positioned'
  <2> SUFFICES ASSUME phase' # "down", task'.pc \in (DOMAIN Reached)'
               PROVE  Positioned'
    BY DEF Positioned
  <2>1. (DOMAIN Reached)' = DOMAIN Reached /\ Reached' = Reached
    BY DEF Reached
  <2>2. task.pc \in DOMAIN Reached /\ Positioned
    BY <1>1, <2>1
  <2>3. UNCHANGED <<syncs, revisions>>
    BY <2>2 DEF Positioned
  <2> QED
    BY <2>1, <2>2, <2>3 DEF Positioned, Row, Setting, InstalledIs, Active
<1>5. Served'
  BY <1>1 DEF Served, ProcessTyped
<1> QED
  BY <1>2, <1>3, <1>4, <1>5, InvPartsNext

-----------------------------------------------------------------------------
(* Operators and the environment.                                           *)

LEMMA AskKeeps ==
  ASSUME Inv, NEW key \in Keys, NEW setting \in Settings \cup {None},
         NEW version \in 1..Len(revisions), Ask(key, setting, version)
  PROVE  Inv'
<1>1. /\ phase = "live"
      /\ request' = [key |-> key, version |-> version, setting |-> setting]
      /\ UNCHANGED <<tables, retained, remote, phase, task, queued, wakeup, catalog>>
  BY DEF Ask
<1>2. ProcessTyped /\ TablesTyped
  BY InvParts
<1>3. request' \in Request
  BY <1>1, <1>2 DEF Request, TablesTyped
<1>4. TablesTyped' /\ Single' /\ Confirmed'
  BY <1>1, TablesKept
<1> QED
  BY <1>1, <1>2, <1>3, <1>4, TaskStays DEF ProcessTyped, tables

LEMMA AnswerKeeps ==
  ASSUME Inv, Answer
  PROVE  Inv'
<1>1. /\ request # None /\ Execute(request)
      /\ wakeup' = (wakeup \/ WakesFor(request)) /\ request' = None
      /\ UNCHANGED <<retained, remote, phase, task, queued, catalog>>
  BY DEF Answer
<1>2. ProcessTyped /\ TablesTyped /\ Phased /\ Single /\ Confirmed
  BY InvParts
<1>3. request \in Request /\ phase # "down" /\ phase # "starting" /\ config # 0
  BY <1>1, <1>2 DEF ProcessTyped, Phased
<1>4. /\ TablesTyped' /\ Single' /\ Confirmed'
      /\ UNCHANGED <<config, installed>>
      /\ Active # {} => UNCHANGED <<syncs, revisions>>
  BY <1>1, <1>2, <1>3, Executes
<1>5. wakeup' \in BOOLEAN
  BY <1>1
<1> QED
  BY <1>1, <1>2, <1>3, <1>4, <1>5, TaskStays DEF ProcessTyped

LEMMA ExecuteQueuedKeeps ==
  ASSUME Inv, ExecuteQueued
  PROVE  Inv'
<1>1. /\ queued # None /\ Execute(queued) /\ queued' = None
      /\ UNCHANGED <<retained, remote, phase, task, request, wakeup, catalog>>
  BY DEF ExecuteQueued
<1>2. ProcessTyped /\ TablesTyped /\ Phased /\ Single /\ Confirmed
  BY InvParts
<1>3. queued \in Request /\ phase # "down" /\ phase # "starting" /\ config # 0
  BY <1>1, <1>2 DEF ProcessTyped, Phased
<1>4. /\ TablesTyped' /\ Single' /\ Confirmed'
      /\ UNCHANGED <<config, installed>>
      /\ Active # {} => UNCHANGED <<syncs, revisions>>
  BY <1>1, <1>2, <1>3, Executes
<1> QED
  BY <1>1, <1>2, <1>3, <1>4, TaskStays DEF ProcessTyped

LEMMA AbandonKeeps ==
  ASSUME Inv, Abandon
  PROVE  Inv'
<1>1. /\ request # None /\ queued' \in {request, None} /\ request' = None
      /\ UNCHANGED <<tables, retained, remote, phase, task, wakeup, catalog>>
  BY DEF Abandon
<1>2. ProcessTyped /\ Phased
  BY InvParts
<1>3. TablesTyped' /\ Single' /\ Confirmed'
  BY <1>1, TablesKept
<1>4. phase # "down" /\ phase # "starting"
  BY <1>1, <1>2 DEF ProcessTyped, Phased
<1> QED
  BY <1>1, <1>2, <1>3, <1>4, TaskStays DEF ProcessTyped, tables

LEMMA ShutdownKeeps ==
  ASSUME Inv, Shutdown
  PROVE  Inv'
<1>1. /\ phase = "live" /\ phase' = "stopping"
      /\ UNCHANGED <<tables, retained, remote, task, request, queued, wakeup, catalog>>
  BY DEF Shutdown
<1>2. ProcessTyped
  BY InvParts
<1>3. TablesTyped' /\ Single' /\ Confirmed'
  BY <1>1, TablesKept
<1> QED
  BY <1>1, <1>2, <1>3, TaskStays DEF ProcessTyped, tables

(* While there is no process, only the tables and the types count.          *)
LEMMA DownKeeps ==
  ASSUME phase' = "down", TablesTyped', ProcessTyped', Single', Confirmed'
  PROVE  Inv'
<1>1. Phased' /\ Positioned' /\ Served'
  BY DEF Phased, Positioned, Served
<1> QED
  BY <1>1, InvPartsNext

LEMMA PushKeeps ==
  ASSUME Inv, NEW setting \in Settings, NEW commit \in Commits, Push(setting, commit)
  PROVE  Inv'
<1>1. /\ remote' = [remote EXCEPT ![setting] = commit]
      /\ UNCHANGED <<tables, retained, process>>
  BY DEF Push
<1>2. ProcessTyped
  BY InvParts
<1>3. remote' \in [Settings -> Commits]
  BY <1>1, <1>2 DEF ProcessTyped
<1>4. TablesTyped' /\ Single' /\ Confirmed'
  BY <1>1, TablesKept
<1>5. CASE phase = "down"
  <2>1. ProcessTyped'
    BY <1>1, <1>2, <1>3 DEF ProcessTyped, process, tables
  <2> QED
    BY <1>1, <1>4, <1>5, <2>1, DownKeeps DEF process
<1>6. CASE phase # "down"
  BY <1>1, <1>2, <1>3, <1>4, <1>6, TaskStays DEF ProcessTyped, process, tables
<1> QED
  BY <1>5, <1>6

LEMMA LoseCandidatesKeeps ==
  ASSUME Inv, LoseCandidates
  PROVE  Inv'
<1>1. phase = "down" /\ retained' = {} /\ UNCHANGED <<tables, remote, process>>
  BY DEF LoseCandidates
<1>2. ProcessTyped
  BY InvParts
<1>3. TablesTyped' /\ Single' /\ Confirmed'
  BY <1>1, TablesKept
<1>4. ProcessTyped'
  BY <1>1, <1>2 DEF ProcessTyped, process, tables
<1> QED
  BY <1>1, <1>3, <1>4, DownKeeps DEF process

LEMMA PutConfigurationKeeps ==
  ASSUME Inv, NEW setting \in Settings, PutConfiguration(setting)
  PROVE  Inv'
<1>1. /\ phase = "down" /\ Active = {}
      /\ revisions' = Append(revisions, setting) /\ config' = Len(revisions) + 1
      /\ UNCHANGED <<syncs, history, installed, aliases, claimed, retained, remote, process>>
  BY DEF PutConfiguration, NextRevision
<1>2. ProcessTyped /\ TablesTyped /\ Confirmed
  BY InvParts
<1>3. /\ revisions' \in Seq(Settings) /\ Len(revisions') = Len(revisions) + 1
      /\ Len(revisions) \in Nat
      /\ \A i \in 1..Len(revisions) : revisions'[i] = revisions[i]
  BY <1>1, <1>2, Appended
<1>4. TablesTyped'
  <2>1. \A s \in DOMAIN syncs : syncs[s].config \in 1..Len(revisions')
    BY <1>2, <1>3 DEF TablesTyped
  <2>2. installed # None => installed.config \in 1..Len(revisions')
    BY <1>2, <1>3 DEF TablesTyped
  <2>3. config' \in 0..Len(revisions')
    BY <1>1, <1>3
  <2> QED
    BY <1>1, <1>2, <1>3, <2>1, <2>2, <2>3 DEF TablesTyped
<1>5. Single'
  BY <1>1 DEF Single, Active
<1>6. Confirmed'
  BY <1>1, <1>2, <1>3, ConfirmedStays
<1>7. ProcessTyped'
  BY <1>1, <1>2 DEF ProcessTyped, process
<1> QED
  BY <1>1, <1>4, <1>5, <1>6, <1>7, DownKeeps DEF process

LEMMA CrashKeeps ==
  ASSUME Inv, Gone, UNCHANGED <<tables, retained, remote>>
  PROVE  Inv'
<1>1. ProcessTyped
  BY InvParts
<1>2. TablesTyped' /\ Single' /\ Confirmed'
  BY TablesKept
<1> QED
  BY <1>1, <1>2, ProcessGone DEF ProcessTyped

LEMMA StoreUnavailableKeeps ==
  ASSUME Inv, StoreUnavailable
  PROVE  Inv'
<1>1. phase # "down" /\ TaskFails /\ UNCHANGED <<tables, retained, remote>>
  BY DEF StoreUnavailable
<1>2. TablesTyped' /\ Single' /\ Confirmed'
  BY <1>1, TablesKept
<1> QED
  BY <1>1, <1>2, Fails DEF tables

LEMMA StartKeeps ==
  ASSUME Inv, Start
  PROVE  Inv'
<1>1. /\ phase = "down" /\ config # 0
      /\ phase' = "starting" /\ task' = [NoWork EXCEPT !.pc = "reconcile"]
      /\ UNCHANGED <<tables, retained, remote, request, queued, wakeup, catalog>>
  BY DEF Start
<1>2. ProcessTyped
  BY InvParts
<1>3. TablesTyped' /\ Single' /\ Confirmed'
  BY <1>1, TablesKept
<1>4. task' \in Task /\ task' # None /\ task'.pc = "reconcile"
  BY <1>1, NoWorkTask DEF Steps
<1>5. ProcessTyped'
  BY <1>1, <1>2, <1>4 DEF ProcessTyped, tables
<1>6. Phased'
  BY <1>1, <1>2, <1>4 DEF Phased, ProcessTyped
<1>7. Positioned' /\ Served'
  BY <1>1, <1>4, ReachedIs DEF Positioned, Served
<1> QED
  BY <1>3, <1>5, <1>6, <1>7, InvPartsNext

-----------------------------------------------------------------------------
(* The task between operations.                                             *)

LEMMA AtTask ==
  ASSUME Inv, NEW pc \in Steps, At(pc)
  PROVE  /\ phase \in {"starting", "live", "stopping"} /\ task \in Task /\ task # None
         /\ task.pc = pc /\ ProcessTyped /\ TablesTyped /\ config # 0
         /\ pc \in {"idle", "lock", "poll", "pick"} => phase \in {"live", "stopping"}
         /\ pc \in {"reconcile", "begin", "load", "serve"} => phase = "starting"
<1>1. ProcessTyped /\ TablesTyped /\ Phased
  BY InvParts
<1> QED
  BY <1>1 DEF At, ProcessTyped, Phased

LEMMA PollFiresKeeps ==
  ASSUME Inv, PollFires
  PROVE  Inv'
<1>1. /\ At("idle") /\ Goto("lock")
      /\ UNCHANGED <<tables, retained, remote, phase, request, queued, wakeup, catalog>>
  BY DEF PollFires
<1>2. "idle" \in Steps /\ "lock" \in Steps
  BY DEF Steps
<1>3. /\ phase \in {"live", "stopping"} /\ task \in Task /\ ProcessTyped
  BY <1>1, <1>2, AtTask
<1>4. task' \in Task /\ task' # None /\ task'.pc = "lock"
  BY <1>1, <1>2, <1>3, GotoMoves
<1>5. TablesTyped' /\ Single' /\ Confirmed'
  BY <1>1, TablesKept
<1> QED
  BY <1>1, <1>3, <1>4, <1>5, Idles DEF Between, tables, ProcessTyped

LEMMA WakeKeeps ==
  ASSUME Inv, Wake
  PROVE  Inv'
<1>1. /\ At("idle") /\ Goto("pick") /\ wakeup' = FALSE
      /\ UNCHANGED <<tables, retained, remote, phase, request, queued, catalog>>
  BY DEF Wake
<1>2. "idle" \in Steps /\ "pick" \in Steps
  BY DEF Steps
<1>3. /\ phase \in {"live", "stopping"} /\ task \in Task /\ ProcessTyped
  BY <1>1, <1>2, AtTask
<1>4. task' \in Task /\ task' # None /\ task'.pc = "pick"
  BY <1>1, <1>2, <1>3, GotoMoves
<1>5. TablesTyped' /\ Single' /\ Confirmed'
  BY <1>1, TablesKept
<1> QED
  BY <1>1, <1>3, <1>4, <1>5, Idles DEF Between, tables

LEMMA PollKeeps ==
  ASSUME Inv, Poll
  PROVE  Inv'
<1>1. /\ At("lock")
      /\ task' = IF Active = {} THEN [NoWork EXCEPT !.pc = "poll", !.version = config]
                 ELSE [NoWork EXCEPT !.pc = "pick"]
      /\ UNCHANGED <<tables, retained, remote, phase, request, queued, wakeup, catalog>>
  BY DEF Poll
<1>2. "lock" \in Steps /\ "poll" \in Steps /\ "pick" \in Steps
  BY DEF Steps
<1>3. /\ phase \in {"live", "stopping"} /\ ProcessTyped /\ TablesTyped
  BY <1>1, <1>2, AtTask
<1>4. config \in Nat
  BY <1>3 DEF TablesTyped
<1>5. task' \in Task /\ task' # None /\ task'.pc \in {"poll", "pick"}
  BY <1>1, <1>2, <1>4, NoWorkTask
<1>6. TablesTyped' /\ Single' /\ Confirmed'
  BY <1>1, TablesKept
<1> QED
  BY <1>1, <1>3, <1>5, <1>6, Idles DEF Between, tables, ProcessTyped

LEMMA BeginPollKeeps ==
  ASSUME Inv, BeginPoll
  PROVE  Inv'
<1>1. /\ At("poll")
      /\ UNCHANGED <<config, revisions, installed, aliases, claimed, retained, remote>>
  BY DEF BeginPoll, Writes
<1>2. "poll" \in Steps /\ "pick" \in Steps
  BY DEF Steps
<1>3. /\ phase \in {"live", "stopping"} /\ task \in Task /\ ProcessTyped /\ TablesTyped
      /\ config # 0
  BY <1>1, <1>2, AtTask
<1>4. CASE /\ BeginSync(task.version) /\ Goto("pick")
           /\ UNCHANGED <<phase, request, queued, wakeup, catalog>>
  <2>1. task' \in Task /\ task' # None /\ task'.pc = "pick"
    BY <1>2, <1>3, <1>4, GotoMoves
  <2>2. Single /\ Confirmed
    BY InvParts
  <2>3. /\ Single' /\ Confirmed'
        /\ DOMAIN syncs' \subseteq Syncs /\ syncs' \in [DOMAIN syncs' -> Sync]
        /\ history' \subseteq (DOMAIN syncs') \X (DOMAIN syncs')
        /\ IsFiniteSet(DOMAIN syncs')
        /\ \A s \in DOMAIN syncs' : syncs'[s].config \in 1..Len(revisions)
    BY <1>1, <1>3, <1>4, <2>2, Begins
  <2>4. TablesTyped'
    BY <1>1, <1>3, <2>3 DEF TablesTyped
  <2> QED
    BY <1>1, <1>3, <1>4, <2>1, <2>3, <2>4, Idles DEF Between, ProcessTyped
<1>5. CASE TaskFails /\ UNCHANGED <<syncs, history>>
  <2>1. UNCHANGED tables
    BY <1>1, <1>5 DEF tables
  <2>2. TablesTyped' /\ Single' /\ Confirmed'
    BY <2>1, TablesKept
  <2> QED
    BY <1>1, <1>3, <1>5, <2>2, Fails
<1> QED
  BY <1>4, <1>5 DEF BeginPoll

(* A task that takes an operation has nothing to remember of it yet.        *)
LEMMA TakeKeeps ==
  ASSUME Inv, phase \in {"starting", "live", "stopping"}, NEW s \in Syncs, Take(s),
         TablesTyped', Single', Confirmed',
         s \in Active', syncs'[s].state = "queued",
         UNCHANGED <<config, installed, retained, remote, phase, request, queued, wakeup, catalog>>
  PROVE  Inv'
<1>1. ProcessTyped /\ Phased /\ Served
  BY InvParts
<1>2. task' \in Task /\ task' # None /\ task'.pc = "fetch" /\ task'.sync = s
  BY TakeTask
<1>3. ProcessTyped'
  BY <1>1, <1>2, ProcessMoves DEF ProcessTyped
<1>4. Phased'
  BY <1>1, <1>2 DEF Phased
<1>5. Positioned'
  <2>1. Row' = syncs'[s]
    BY <1>2 DEF Row
  <2> QED
    BY <1>2, <2>1, ReachedIs DEF Positioned
<1>6. Served'
  BY <1>1, <1>2 DEF Served
<1> QED
  BY <1>3, <1>4, <1>5, <1>6, InvPartsNext

LEMMA PickKeeps ==
  ASSUME Inv, Pick
  PROVE  Inv'
<1>1. /\ At("pick")
      /\ UNCHANGED <<retained, remote, phase, request, queued, wakeup, catalog>>
  BY DEF Pick
<1>2. "pick" \in Steps /\ "idle" \in Steps
  BY DEF Steps
<1>3. /\ phase \in {"live", "stopping"} /\ ProcessTyped /\ TablesTyped
  BY <1>1, <1>2, AtTask
<1>4. CASE task' = NoWork /\ UNCHANGED tables
  <2>1. TablesTyped' /\ Single' /\ Confirmed'
    BY <1>4, TablesKept
  <2>2. task' \in Task /\ task' # None /\ task'.pc = "idle"
    BY <1>4, NoWorkTask
  <2> QED
    BY <1>1, <1>3, <1>4, <2>1, <2>2, Idles DEF Between, tables, ProcessTyped
<1>5. ASSUME NEW s \in Active, syncs[s].state = "queued", Take(s), UNCHANGED tables
      PROVE  Inv'
  <2>1. TablesTyped' /\ Single' /\ Confirmed' /\ Active' = Active
    BY <1>5, TablesKept
  <2>2. s \in Syncs
    BY <1>3, ActiveTyped
  <2> QED
    BY <1>1, <1>3, <1>5, <2>1, <2>2, TakeKeeps DEF tables
<1>6. ASSUME NEW s \in Active, FinishSync(s, "failed"), task' = NoWork
      PROVE  Inv'
  <2>1. Single /\ Confirmed
    BY InvParts
  <2>2. /\ TablesTyped' /\ Single' /\ Confirmed'
        /\ UNCHANGED <<config, installed>>
    BY <1>3, <1>6, <2>1, Finishes
  <2>3. task' \in Task /\ task' # None /\ task'.pc = "idle"
    BY <1>6, NoWorkTask
  <2> QED
    BY <1>1, <1>3, <1>6, <2>2, <2>3, Idles DEF Between, ProcessTyped
<1> QED
  BY <1>4, <1>5, <1>6 DEF Pick

LEMMA StopKeeps ==
  ASSUME Inv, Stop
  PROVE  Inv'
<1>1. /\ At("idle") /\ Goto("done")
      /\ UNCHANGED <<retained, remote, phase, request, queued, wakeup, catalog>>
  BY DEF Stop
<1>2. "idle" \in Steps /\ "done" \in Steps
  BY DEF Steps
<1>3. /\ phase \in {"live", "stopping"} /\ task \in Task /\ ProcessTyped /\ TablesTyped
  BY <1>1, <1>2, AtTask
<1>4. task' \in Task /\ task' # None /\ task'.pc = "done"
  BY <1>1, <1>2, <1>3, GotoMoves
<1>5. TablesTyped' /\ Single' /\ Confirmed' /\ UNCHANGED <<config, installed>>
  <2>1. CASE UNCHANGED tables
    BY <2>1, TablesKept DEF tables
  <2>2. ASSUME NEW s \in Active, FinishSync(s, "cancelled")
        PROVE  TablesTyped' /\ Single' /\ Confirmed' /\ UNCHANGED <<config, installed>>
    <3>1. Single /\ Confirmed
      BY InvParts
    <3> QED
      BY <1>3, <2>2, <3>1, Finishes
  <2> QED
    BY <2>1, <2>2 DEF Stop
<1> QED
  BY <1>1, <1>3, <1>4, <1>5, Idles DEF Between, ProcessTyped

-----------------------------------------------------------------------------
(* The task at startup and in an operation.                                 *)

LEMMA ReconcileKeeps ==
  ASSUME Inv, Reconcile
  PROVE  Inv'
<1>1. /\ At("reconcile") /\ Goto("begin")
      /\ UNCHANGED <<retained, remote, phase, request, queued, wakeup, catalog>>
  BY DEF Reconcile, Writes
<1>2. "reconcile" \in Steps /\ "begin" \in Steps
  BY DEF Steps
<1>3. /\ phase = "starting" /\ task \in Task /\ ProcessTyped /\ TablesTyped
  BY <1>1, <1>2, AtTask
<1>4. task' \in Task /\ task' # None /\ task'.pc = "begin"
  BY <1>1, <1>2, <1>3, GotoMoves
<1>5. /\ TablesTyped' /\ Single' /\ Confirmed' /\ UNCHANGED <<config, installed>>
      /\ Active' = {}
  <2>1. CASE Active = {} /\ UNCHANGED tables
    BY <2>1, TablesKept DEF tables
  <2>2. ASSUME NEW s \in Active, FinishSync(s, "failed")
        PROVE  /\ TablesTyped' /\ Single' /\ Confirmed' /\ UNCHANGED <<config, installed>>
               /\ Active' = {}
    <3>1. Single /\ Confirmed
      BY InvParts
    <3> QED
      BY <1>3, <2>2, <3>1, Finishes
  <2> QED
    BY <2>1, <2>2 DEF Reconcile
<1>6. Phased /\ Served
  BY InvParts
<1>7. ProcessTyped'
  BY <1>1, <1>3, <1>4, <1>5, ProcessMoves DEF ProcessTyped
<1>8. Phased' /\ Served'
  BY <1>1, <1>3, <1>4, <1>5, <1>6 DEF Phased, Served
<1>9. Positioned'
  BY <1>4, ReachedIs DEF Positioned
<1> QED
  BY <1>5, <1>7, <1>8, <1>9, InvPartsNext

LEMMA BeginStartupKeeps ==
  ASSUME Inv, BeginStartup
  PROVE  Inv'
<1>1. /\ At("begin") /\ BeginSync(config) /\ Take(FreshSync)
      /\ UNCHANGED <<config, revisions, installed, aliases, claimed, retained, remote,
                     phase, request, queued, wakeup, catalog>>
  BY DEF BeginStartup, Writes
<1>2. "begin" \in Steps
  BY DEF Steps
<1>3. phase = "starting" /\ ProcessTyped /\ TablesTyped /\ task.pc = "begin" /\ config # 0
  BY <1>1, <1>2, AtTask
<1>4. Single /\ Confirmed /\ Active = {}
  BY <1>3, InvParts DEF Phased
<1>5. /\ Single' /\ Confirmed'
      /\ DOMAIN syncs' \subseteq Syncs /\ syncs' \in [DOMAIN syncs' -> Sync]
      /\ history' \subseteq (DOMAIN syncs') \X (DOMAIN syncs')
      /\ IsFiniteSet(DOMAIN syncs')
      /\ \A s \in DOMAIN syncs' : syncs'[s].config \in 1..Len(revisions)
      /\ FreshSync \in Syncs /\ Active' = {FreshSync}
      /\ syncs'[FreshSync].state = "queued"
  BY <1>1, <1>3, <1>4, Begins
<1>6. TablesTyped'
  BY <1>1, <1>3, <1>5 DEF TablesTyped
<1> HIDE DEF FreshSync
<1> QED
  BY <1>1, <1>3, <1>5, <1>6, TakeKeeps

LEMMA AtOperation ==
  ASSUME Inv, NEW pc \in DOMAIN Reached, At(pc)
  PROVE  /\ phase \in {"starting", "live", "stopping"} /\ task \in Task /\ task # None
         /\ task.pc = pc /\ pc \in Steps
         /\ ProcessTyped /\ TablesTyped /\ Single /\ Phased /\ Served /\ Confirmed
         /\ config # 0
         /\ task.sync \in Active /\ Row.state = Reached[pc]
         /\ Row \in Sync /\ Row = syncs[task.sync] /\ Row.config \in 1..Len(revisions)
         /\ Setting \in Settings
<1>1. pc \in Steps
  BY ReachedIs DEF Steps
<1>2. /\ phase \in {"starting", "live", "stopping"} /\ task \in Task /\ task # None
      /\ task.pc = pc /\ ProcessTyped /\ TablesTyped /\ config # 0
  BY <1>1, AtTask
<1>3. Single /\ Phased /\ Served /\ Confirmed /\ Positioned
  BY InvParts
<1>4. task.sync \in Active /\ Row.state = Reached[pc] /\ Row = syncs[task.sync]
  BY <1>2, <1>3 DEF Positioned, Row
<1>5. Row \in Sync /\ Row.config \in 1..Len(revisions)
  BY <1>2, <1>4, ActiveTyped
<1>6. Setting \in Settings
  BY <1>2, <1>5 DEF Setting, TablesTyped
<1> QED
  BY <1>1, <1>2, <1>3, <1>4, <1>5, <1>6

(* The row advances with the task.                                          *)
LEMMA RowAdvances ==
  ASSUME Inv, NEW from \in DOMAIN Reached, At(from), NEW pc \in DOMAIN Reached,
         pc = "load" => phase = "starting",
         NEW commit \in Commits \cup {None}, NEW tree \in Trees \cup {None},
         syncs' = Store(syncs, task.sync, [Row EXCEPT
           !.state = Reached[pc], !.commit = commit, !.tree = tree]),
         task' \in Task, task' # None, task'.pc = pc, task'.sync = task.sync,
         UNCHANGED <<config, revisions, history, installed, aliases, claimed, retained,
                     remote, phase, request, queued, wakeup, catalog>>
  PROVE  /\ TablesTyped' /\ ProcessTyped' /\ Single' /\ Confirmed' /\ Phased'
         /\ task'.sync \in Active' /\ Row'.state = Reached[pc]
         /\ Row'.config = Row.config /\ Setting' = Setting
<1>1. /\ phase \in {"starting", "live", "stopping"} /\ task \in Task /\ task.pc = from
      /\ ProcessTyped /\ TablesTyped /\ Single /\ Phased /\ Served /\ Confirmed
      /\ config # 0
      /\ task.sync \in Active /\ Row \in Sync /\ Row = syncs[task.sync]
  BY AtOperation
<1> DEFINE row == [Row EXCEPT !.state = Reached[pc], !.commit = commit, !.tree = tree]
<1>2. Reached[pc] \in Stages
  BY ReachedIs DEF Stages
<1>3. /\ row \in Sync /\ row.state = Reached[pc] /\ row.config = syncs[task.sync].config
      /\ row.expected = syncs[task.sync].expected
  BY <1>1, <1>2 DEF Sync
<1>4. syncs' = Store(syncs, task.sync, row)
  OBVIOUS
<1> HIDE DEF row
<1>5. /\ TablesTyped' /\ Single' /\ Confirmed'
      /\ Active' = Active /\ syncs'[task.sync] = row
  BY <1>1, <1>2, <1>3, <1>4, Advances
<1>6. ProcessTyped'
  BY <1>1, ProcessMoves DEF ProcessTyped
<1>7. Row' = row
  BY <1>5 DEF Row
<1>8. Row'.config = Row.config /\ Setting' = Setting
  BY <1>1, <1>3, <1>7 DEF Setting
<1>9. Phased'
  <2>1. pc \notin {"idle", "lock", "poll", "pick", "done", "reconcile", "begin", "serve"}
    BY ReachedIs
  <2> QED
    BY <1>1, <2>1 DEF Phased
<1> QED
  BY <1>1, <1>3, <1>5, <1>6, <1>7, <1>8, <1>9

(* The commit that is known was installed under the settings of this        *)
(* operation, whose proposal, if it is one, nothing was installed from.     *)
LEMMA BeginFetchKeeps ==
  ASSUME Inv, BeginFetch
  PROVE  Inv'
<1> DEFINE known == IF installed # None /\ installed.config = Row.config
                      THEN installed.commit ELSE None
<1>1. /\ At("fetch")
      /\ syncs' = Store(syncs, task.sync, [Row EXCEPT !.state = "fetching"])
      /\ task' = [task EXCEPT !.pc = "advertise", !.known = known]
      /\ UNCHANGED <<config, revisions, history, installed, aliases, claimed, retained, remote,
                     phase, request, queued, wakeup, catalog>>
  BY DEF BeginFetch, Writes
<1>2. /\ "fetch" \in DOMAIN Reached /\ "advertise" \in DOMAIN Reached
      /\ Reached["advertise"] = "fetching" /\ "advertise" \in Steps
  BY ReachedIs DEF Steps
<1>3. /\ task \in Task /\ TablesTyped /\ Single /\ Served
      /\ task.sync \in Active /\ Row \in Sync /\ Row = syncs[task.sync]
  BY <1>1, <1>2, AtOperation
<1>4. known \in Commits \cup {None}
  BY <1>3 DEF TablesTyped, Installation
<1>5. known # None => /\ installed # None /\ installed.config = Row.config
                      /\ installed.commit = known /\ config = Row.config
  <2>1. config = Base(Row)
    BY <1>3 DEF Single
  <2>2. Row.expected # 0 /\ installed # None => installed.config # Row.config
    BY <1>3 DEF Single
  <2> QED
    BY <2>1, <2>2 DEF Base
<1> HIDE DEF known
<1>6. /\ task' \in Task /\ task'.pc = "advertise" /\ task'.sync = task.sync
      /\ task'.known = known
  BY <1>1, <1>2, <1>3, <1>4 DEF Task
<1>7. task' # None
  BY <1>6, NoRecord
<1>8. /\ Row.commit \in Commits \cup {None} /\ Row.tree \in Trees \cup {None}
      /\ [Row EXCEPT !.state = "fetching"] = [Row EXCEPT !.state = "fetching",
            !.commit = Row.commit, !.tree = Row.tree]
  BY <1>3 DEF Sync
<1>9. syncs' = Store(syncs, task.sync, [Row EXCEPT
        !.state = Reached["advertise"], !.commit = Row.commit, !.tree = Row.tree])
  BY <1>1, <1>2, <1>8
<1>10. /\ TablesTyped' /\ ProcessTyped' /\ Single' /\ Confirmed' /\ Phased'
       /\ task'.sync \in Active' /\ Row'.state = Reached["advertise"]
       /\ Row'.config = Row.config /\ Setting' = Setting
  BY <1>1, <1>2, <1>6, <1>7, <1>8, <1>9, RowAdvances
<1>11. Positioned'
  <2>1. Reached' = Reached
    BY DEF Reached
  <2>2. task'.known # None => InstalledIs(task.known)'
    BY <1>1, <1>5, <1>6, <1>10 DEF InstalledIs
  <2> QED
    BY <1>6, <1>10, <2>1, <2>2 DEF Positioned
<1>12. Served'
  BY <1>1, <1>3, <1>6 DEF Served
<1> QED
  BY <1>10, <1>11, <1>12, InvPartsNext

(* Steps between two writes: only the task moves. *)
LEMMA TaskMoves ==
  ASSUME Inv, NEW from \in DOMAIN Reached, At(from), NEW pc \in DOMAIN Reached,
         Reached[pc] = Reached[from],
         pc = "load" => phase = "starting",
         task' \in Task, task' # None, task'.pc = pc, task'.sync = task.sync,
         retained' \subseteq Trees,
         UNCHANGED <<tables, remote, phase, request, queued, wakeup, catalog>>
  PROVE  /\ TablesTyped' /\ ProcessTyped' /\ Single' /\ Confirmed' /\ Phased'
         /\ task'.sync \in Active' /\ Row' = Row /\ Row'.state = Reached[pc]
         /\ Setting' = Setting
<1>1. /\ phase \in {"starting", "live", "stopping"} /\ task \in Task /\ task.pc = from
      /\ ProcessTyped /\ Phased /\ config # 0
      /\ task.sync \in Active /\ Row.state = Reached[from] /\ Row = syncs[task.sync]
  BY AtOperation
<1>2. TablesTyped' /\ Single' /\ Confirmed' /\ Active' = Active
  BY TablesKept
<1>3. ProcessTyped'
  BY <1>1, ProcessMoves DEF ProcessTyped, tables
<1>4. Row' = Row /\ Setting' = Setting
  BY DEF Row, Setting, tables
<1>5. Phased'
  <2>1. pc \notin {"idle", "lock", "poll", "pick", "done", "reconcile", "begin", "serve"}
    BY ReachedIs
  <2> QED
    BY <1>1, <2>1 DEF Phased
<1> QED
  BY <1>1, <1>2, <1>3, <1>4, <1>5

LEMMA AdvertiseKeeps ==
  ASSUME Inv, Advertise
  PROVE  Inv'
<1>1. /\ At("advertise")
      /\ task' = IF remote[Setting] = task.known
                   THEN [task EXCEPT !.pc = "resolve", !.commit = task.known]
                   ELSE [task EXCEPT !.pc = "download"]
      /\ UNCHANGED <<tables, retained, remote, phase, request, queued, wakeup, catalog>>
  BY DEF Advertise
<1>2. /\ "advertise" \in DOMAIN Reached /\ "resolve" \in DOMAIN Reached
      /\ "download" \in DOMAIN Reached
      /\ Reached["resolve"] = Reached["advertise"] /\ Reached["download"] = Reached["advertise"]
      /\ "resolve" \in Steps /\ "download" \in Steps
  BY ReachedIs DEF Steps
<1>3. /\ task \in Task /\ task.pc = "advertise" /\ phase # "down" /\ ProcessTyped /\ Served
      /\ Setting \in Settings /\ Positioned
  BY <1>1, <1>2, AtOperation, InvParts
<1>4. remote[Setting] \in Commits /\ retained \subseteq Trees
  BY <1>3 DEF ProcessTyped
<1>5. task.known # None => InstalledIs(task.known)
  BY <1>2, <1>3 DEF Positioned
<1>6. CASE remote[Setting] = task.known
  <2>1. task' = [task EXCEPT !.pc = "resolve", !.commit = task.known]
    BY <1>1, <1>6
  <2>2. /\ task' \in Task /\ task'.pc = "resolve" /\ task'.sync = task.sync
        /\ task'.known = task.known /\ task'.commit = task.known
    BY <1>2, <1>3, <2>1 DEF Task
  <2>3. task' # None
    BY <2>2, NoRecord
  <2>4. /\ TablesTyped' /\ ProcessTyped' /\ Single' /\ Confirmed' /\ Phased'
        /\ task'.sync \in Active' /\ Row' = Row /\ Row'.state = Reached["resolve"]
    BY <1>1, <1>2, <1>4, <2>2, <2>3, TaskMoves
  <2>5. Positioned'
    <3>1. Reached' = Reached
      BY DEF Reached
    <3>2. task'.known # None => InstalledIs(task.known)'
      BY <1>1, <1>5, <2>2, <2>4 DEF InstalledIs, tables
    <3> QED
      BY <1>4, <1>6, <2>2, <2>4, <3>1, <3>2 DEF Positioned
  <2>6. Served'
    BY <1>1, <1>3, <2>2 DEF Served, tables
  <2> QED
    BY <2>4, <2>5, <2>6, InvPartsNext
<1>7. CASE remote[Setting] # task.known
  <2>1. task' = [task EXCEPT !.pc = "download"]
    BY <1>1, <1>7
  <2>2. task' \in Task /\ task'.pc = "download" /\ task'.sync = task.sync
    BY <1>2, <1>3, <2>1 DEF Task
  <2>3. task' # None
    BY <2>2, NoRecord
  <2>4. /\ TablesTyped' /\ ProcessTyped' /\ Single' /\ Confirmed' /\ Phased'
        /\ task'.sync \in Active' /\ Row'.state = Reached["download"]
    BY <1>1, <1>2, <1>4, <2>2, <2>3, TaskMoves
  <2>5. Positioned'
    <3>1. Reached' = Reached
      BY DEF Reached
    <3> QED
      BY <2>2, <2>4, <3>1 DEF Positioned
  <2>6. Served'
    BY <1>1, <1>3, <2>2 DEF Served, tables
  <2> QED
    BY <2>4, <2>5, <2>6, InvPartsNext
<1> QED
  BY <1>6, <1>7

LEMMA DownloadKeeps ==
  ASSUME Inv, Download
  PROVE  Inv'
<1>1. /\ At("download")
      /\ task' = [task EXCEPT !.pc = "resolve", !.commit = remote[Setting], !.known = None]
      /\ UNCHANGED <<tables, retained, remote, phase, request, queued, wakeup, catalog>>
  BY DEF Download
<1>2. /\ "download" \in DOMAIN Reached /\ "resolve" \in DOMAIN Reached
      /\ Reached["resolve"] = Reached["download"] /\ "resolve" \in Steps
  BY ReachedIs DEF Steps
<1>3. task \in Task /\ ProcessTyped /\ Served /\ Setting \in Settings
  BY <1>1, <1>2, AtOperation
<1>4. remote[Setting] \in Commits /\ retained \subseteq Trees
  BY <1>3 DEF ProcessTyped
<1>5. /\ task' \in Task /\ task'.pc = "resolve" /\ task'.sync = task.sync
      /\ task'.known = None /\ task'.commit \in Commits
  BY <1>1, <1>2, <1>3, <1>4 DEF Task
<1>6. task' # None
  BY <1>5, NoRecord
<1>7. /\ TablesTyped' /\ ProcessTyped' /\ Single' /\ Confirmed' /\ Phased'
      /\ task'.sync \in Active' /\ Row'.state = Reached["resolve"]
  BY <1>1, <1>2, <1>4, <1>5, <1>6, TaskMoves
<1>8. Positioned'
  <2>1. Reached' = Reached
    BY DEF Reached
  <2> QED
    BY <1>5, <1>7, <2>1 DEF Positioned
<1>9. Served'
  BY <1>1, <1>3, <1>5 DEF Served, tables
<1> QED
  BY <1>7, <1>8, <1>9, InvPartsNext

(* What a write of the task that advances its row leaves to show. *)
LEMMA AdvanceMoves ==
  ASSUME Inv, NEW from \in DOMAIN Reached, At(from), NEW pc \in DOMAIN Reached,
         pc = "load" => phase = "starting",
         NEW commit \in Commits \cup {None}, NEW tree \in Trees \cup {None},
         Advance(Reached[from], Reached[pc], commit, tree, pc)
  PROVE  /\ TablesTyped' /\ ProcessTyped' /\ Single' /\ Confirmed' /\ Phased'
         /\ task'.pc = pc /\ task'.sync = task.sync /\ task'.known = task.known
         /\ task'.commit = task.commit /\ task'.tree = task.tree
         /\ task'.sync \in Active' /\ Row'.state = Reached[pc]
         /\ Row'.config = Row.config /\ Setting' = Setting
         /\ UNCHANGED <<config, installed, retained, phase, catalog>>
<1>1. /\ syncs' = Store(syncs, task.sync, [Row EXCEPT
           !.state = Reached[pc], !.commit = commit, !.tree = tree])
      /\ Goto(pc)
      /\ UNCHANGED <<config, revisions, history, installed, aliases, claimed, retained, remote,
                     phase, request, queued, wakeup, catalog>>
  BY DEF Advance
<1>2. task \in Task /\ pc \in Steps
  BY AtOperation, ReachedIs DEF Steps
<1>3. /\ task' \in Task /\ task' # None /\ task'.pc = pc /\ task'.sync = task.sync
      /\ task'.known = task.known /\ task'.commit = task.commit /\ task'.tree = task.tree
  BY <1>1, <1>2, GotoMoves
<1> QED
  BY <1>1, <1>3, RowAdvances

LEMMA ResolveKeeps ==
  ASSUME Inv, Resolve
  PROVE  Inv'
<1> DEFINE pc == IF task.known = None THEN "prepare" ELSE IF phase = "starting" THEN "load"
                 ELSE "finish"
<1>1. /\ At("resolve") /\ Advance("fetching", "resolving_commit", None, None, pc)
  BY DEF Resolve, Writes
<1>2. /\ "resolve" \in DOMAIN Reached /\ Reached["resolve"] = "fetching"
      /\ pc \in DOMAIN Reached /\ Reached[pc] = "resolving_commit"
      /\ pc \in {"prepare", "load", "finish"}
      /\ pc = "prepare" <=> task.known = None
      /\ pc = "load" => phase = "starting"
      /\ pc = "finish" => phase # "starting"
  BY ReachedIs
<1> HIDE DEF pc
<1>3. /\ task.pc = "resolve" /\ phase # "down" /\ Served /\ Positioned
  BY <1>1, <1>2, AtOperation, InvParts
<1>4. /\ TablesTyped' /\ ProcessTyped' /\ Single' /\ Confirmed' /\ Phased'
      /\ task'.pc = pc /\ task'.sync = task.sync /\ task'.known = task.known
      /\ task'.commit = task.commit
      /\ task'.sync \in Active' /\ Row'.state = Reached[pc]
      /\ Row'.config = Row.config
      /\ UNCHANGED <<config, installed, retained, phase, catalog>>
  BY <1>1, <1>2, AdvanceMoves
<1>5. /\ task.known # None => InstalledIs(task.known) /\ task.commit = task.known
      /\ task.commit \in Commits
  BY <1>2, <1>3 DEF Positioned
<1>6. Positioned'
  <2>1. Reached' = Reached
    BY DEF Reached
  <2>2. task'.known # None => InstalledIs(task.known)'
    BY <1>4, <1>5 DEF InstalledIs
  <2> QED
    BY <1>2, <1>4, <1>5, <2>1, <2>2 DEF Positioned
<1>7. Served'
  BY <1>2, <1>3, <1>4 DEF Served
<1> QED
  BY <1>4, <1>6, <1>7, InvPartsNext

LEMMA PrepareKeeps ==
  ASSUME Inv, Prepare
  PROVE  Inv'
<1>1. At("prepare")
      /\ Advance("resolving_commit", "preparing_candidate", task.commit, None, "compiling")
  BY DEF Prepare, Writes
<1>2. /\ "prepare" \in DOMAIN Reached /\ Reached["prepare"] = "resolving_commit"
      /\ "compiling" \in DOMAIN Reached /\ Reached["compiling"] = "preparing_candidate"
  BY ReachedIs
<1>3. task.pc = "prepare" /\ phase # "down" /\ Served /\ Positioned /\ task.commit \in Commits
  BY <1>1, <1>2, AtOperation, InvParts DEF Positioned
<1>4. /\ TablesTyped' /\ ProcessTyped' /\ Single' /\ Confirmed' /\ Phased'
      /\ task'.pc = "compiling" /\ task'.commit = task.commit
      /\ task'.sync \in Active' /\ Row'.state = Reached["compiling"]
      /\ UNCHANGED <<config, installed, retained, phase, catalog>>
  BY <1>1, <1>2, <1>3, AdvanceMoves
<1>5. Positioned'
  <2>1. Reached' = Reached
    BY DEF Reached
  <2> QED
    BY <1>3, <1>4, <2>1 DEF Positioned
<1>6. Served'
  BY <1>3, <1>4 DEF Served
<1> QED
  BY <1>4, <1>5, <1>6, InvPartsNext

LEMMA CompilingKeeps ==
  ASSUME Inv, Compiling
  PROVE  Inv'
<1>1. At("compiling")
      /\ Advance("preparing_candidate", "compiling", task.commit, None, "compile")
  BY DEF Compiling, Writes
<1>2. /\ "compiling" \in DOMAIN Reached /\ Reached["compiling"] = "preparing_candidate"
      /\ "compile" \in DOMAIN Reached /\ Reached["compile"] = "compiling"
  BY ReachedIs
<1>3. task.pc = "compiling" /\ phase # "down" /\ Served /\ Positioned /\ task.commit \in Commits
  BY <1>1, <1>2, AtOperation, InvParts DEF Positioned
<1>4. /\ TablesTyped' /\ ProcessTyped' /\ Single' /\ Confirmed' /\ Phased'
      /\ task'.pc = "compile" /\ task'.commit = task.commit
      /\ task'.sync \in Active' /\ Row'.state = Reached["compile"]
      /\ UNCHANGED <<config, installed, retained, phase, catalog>>
  BY <1>1, <1>2, <1>3, AdvanceMoves
<1>5. Positioned'
  <2>1. Reached' = Reached
    BY DEF Reached
  <2> QED
    BY <1>3, <1>4, <2>1 DEF Positioned
<1>6. Served'
  BY <1>3, <1>4 DEF Served
<1> QED
  BY <1>4, <1>5, <1>6, InvPartsNext

LEMMA ReloadKeeps ==
  ASSUME Inv, Reload
  PROVE  Inv'
<1>1. At("reload")
      /\ Advance("compiling", "reloading", task.commit, task.tree, "apply")
  BY DEF Reload, Writes
<1>2. /\ "reload" \in DOMAIN Reached /\ Reached["reload"] = "compiling"
      /\ "apply" \in DOMAIN Reached /\ Reached["apply"] = "reloading"
  BY ReachedIs
<1>3. /\ task.pc = "reload" /\ phase # "down" /\ Served /\ Positioned /\ task.commit \in Commits
      /\ task.tree = TreeOf[<<Setting, task.commit>>] /\ task.tree \in retained
      /\ task \in Task
  BY <1>1, <1>2, AtOperation, InvParts DEF Positioned
<1>4. task.tree \in Trees \cup {None}
  BY <1>3 DEF Task
<1>5. /\ TablesTyped' /\ ProcessTyped' /\ Single' /\ Confirmed' /\ Phased'
      /\ task'.pc = "apply" /\ task'.commit = task.commit /\ task'.tree = task.tree
      /\ task'.sync \in Active' /\ Row'.state = Reached["apply"] /\ Setting' = Setting
      /\ UNCHANGED <<config, installed, retained, phase, catalog>>
  BY <1>1, <1>2, <1>3, <1>4, AdvanceMoves
<1>6. Positioned'
  <2>1. Reached' = Reached
    BY DEF Reached
  <2>2. task'.tree = (TreeOf[<<Setting, task.commit>>])' /\ task'.tree \in retained'
    BY <1>3, <1>5
  <2> QED
    BY <1>3, <1>5, <2>1, <2>2 DEF Positioned
<1>7. Served'
  BY <1>3, <1>5 DEF Served
<1> QED
  BY <1>5, <1>6, <1>7, InvPartsNext

LEMMA ContentIsTree ==
  ASSUME NEW setting \in Settings, NEW commit \in Commits
  PROVE  TreeOf[<<setting, commit>>] \in Trees
  BY SourceConstants

LEMMA CompileKeeps ==
  ASSUME Inv, Compile
  PROVE  Inv'
<1> DEFINE tree == TreeOf[<<Setting, task.commit>>]
<1>1. /\ At("compile") /\ task' = [task EXCEPT !.pc = "reload", !.tree = tree]
      /\ retained' = retained \cup {task'.tree}
      /\ UNCHANGED <<tables, remote, phase, request, queued, wakeup, catalog>>
  BY DEF Compile
<1>2. /\ "compile" \in DOMAIN Reached /\ "reload" \in DOMAIN Reached
      /\ Reached["compile"] = Reached["reload"] /\ "reload" \in Steps
  BY ReachedIs DEF Steps
<1>3. /\ task \in Task /\ task.pc = "compile" /\ phase # "down" /\ ProcessTyped /\ Served
      /\ Positioned /\ task.commit \in Commits /\ Setting \in Settings
  BY <1>1, <1>2, AtOperation, InvParts DEF Positioned
<1>4. tree \in Trees
  BY <1>3, ContentIsTree
<1> HIDE DEF tree
<1>5. /\ task' \in Task /\ task'.pc = "reload" /\ task'.sync = task.sync
      /\ task'.commit = task.commit /\ task'.tree = tree
  BY <1>1, <1>2, <1>3, <1>4 DEF Task
<1>6. task' # None
  BY <1>5, NoRecord
<1>7. retained' \subseteq Trees /\ retained \subseteq retained' /\ tree \in retained'
  BY <1>1, <1>3, <1>4, <1>5 DEF ProcessTyped
<1>8. /\ TablesTyped' /\ ProcessTyped' /\ Single' /\ Confirmed' /\ Phased'
      /\ task'.sync \in Active' /\ Row'.state = Reached["reload"] /\ Setting' = Setting
  BY <1>1, <1>2, <1>5, <1>6, <1>7, TaskMoves
<1>9. Positioned'
  <2>1. Reached' = Reached
    BY DEF Reached
  <2>2. task'.tree = (TreeOf[<<Setting, task.commit>>])'
    BY <1>5, <1>8 DEF tree
  <2> QED
    BY <1>3, <1>5, <1>7, <1>8, <2>1, <2>2 DEF Positioned
<1>10. Served'
  BY <1>1, <1>3, <1>5, <1>7 DEF Served, tables
<1> QED
  BY <1>8, <1>9, <1>10, InvPartsNext

(* Startup ends with the installed tree, or compiles what the branch holds. *)
LEMMA LoadInstalledKeeps ==
  ASSUME Inv, LoadInstalled
  PROVE  Inv'
<1>1. /\ At("load")
      /\ UNCHANGED <<tables, remote, phase, request, queued, wakeup, catalog>>
  BY DEF LoadInstalled
<1>2. /\ "load" \in DOMAIN Reached /\ "finish" \in DOMAIN Reached
      /\ "prepare" \in DOMAIN Reached
      /\ Reached["finish"] = Reached["load"] /\ Reached["prepare"] = Reached["load"]
      /\ "finish" \in Steps /\ "prepare" \in Steps
  BY ReachedIs DEF Steps
<1>3. /\ task \in Task /\ task.pc = "load" /\ phase # "down" /\ ProcessTyped /\ TablesTyped
      /\ Served /\ Phased /\ Confirmed /\ Positioned /\ Setting \in Settings
      /\ Row = syncs[task.sync]
  BY <1>1, <1>2, AtOperation, InvParts
<1>4. task.known # None /\ InstalledIs(task.known) /\ task.commit = task.known
  BY <1>2, <1>3 DEF Positioned
<1>5. /\ installed # None /\ installed.commit = task.commit
      /\ installed.config = Row.config
      /\ installed.tree \in Trees /\ task.commit \in Commits
  BY <1>3, <1>4 DEF InstalledIs, TablesTyped, Installation
<1>6. remote[Setting] \in Commits
  BY <1>3 DEF ProcessTyped
<1>7. ASSUME task' = [task EXCEPT !.pc = "finish", !.tree = installed.tree],
             retained' = retained \cup {installed.tree}
      PROVE  Inv'
  <2>1. /\ task' \in Task /\ task'.pc = "finish" /\ task'.sync = task.sync
        /\ task'.known = task.known /\ task'.commit = task.commit
        /\ task'.tree = installed.tree
    BY <1>2, <1>3, <1>5, <1>7 DEF Task
  <2>2. task' # None
    BY <2>1, NoRecord
  <2>3. retained' \subseteq Trees /\ retained \subseteq retained' /\ installed.tree \in retained'
    BY <1>3, <1>5, <1>7 DEF ProcessTyped
  <2>4. /\ TablesTyped' /\ ProcessTyped' /\ Single' /\ Confirmed' /\ Phased'
        /\ task'.sync \in Active' /\ Row' = Row /\ Row'.state = Reached["finish"]
    BY <1>1, <1>2, <2>1, <2>2, <2>3, TaskMoves
  <2>5. Positioned'
    <3>1. Reached' = Reached
      BY DEF Reached
    <3>2. InstalledIs(task.known)'
      BY <1>1, <1>4, <2>1, <2>4 DEF InstalledIs, tables
    <3> QED
      BY <1>4, <2>1, <2>4, <3>1, <3>2 DEF Positioned
  <2>6. Served'
    BY <1>1, <1>3, <1>5, <2>1, <2>3 DEF Served, tables
  <2> QED
    BY <2>4, <2>5, <2>6, InvPartsNext
<1>8. CASE installed.tree \in retained
  <2>1. /\ task' = [task EXCEPT !.pc = "finish", !.tree = installed.tree]
        /\ retained' = retained
    BY <1>8 DEF LoadInstalled
  <2>2. retained' = retained \cup {installed.tree}
    BY <1>8, <2>1
  <2> QED
    BY <1>7, <2>1, <2>2
<1>9. CASE installed.tree \notin retained /\ remote[Setting] = task.commit
  <2>1. /\ task' = [task EXCEPT !.pc = "finish", !.tree = TreeOf[<<Setting, task.commit>>]]
        /\ retained' = retained \cup {task'.tree}
    BY <1>9 DEF LoadInstalled
  <2>2. TreeOf[<<Setting, task.commit>>] = installed.tree
    BY <1>3, <1>5 DEF Confirmed, Setting
  <2>3. task' = [task EXCEPT !.pc = "finish", !.tree = installed.tree]
    BY <2>1, <2>2
  <2>4. task'.tree = installed.tree
    BY <1>3, <2>3 DEF Task
  <2> QED
    BY <1>7, <2>1, <2>3, <2>4
<1>10. CASE installed.tree \notin retained /\ remote[Setting] # task.commit
  <2>1. /\ task' = [task EXCEPT !.pc = "prepare", !.commit = remote[Setting]]
        /\ retained' = retained
    BY <1>10 DEF LoadInstalled
  <2>2. /\ task' \in Task /\ task'.pc = "prepare" /\ task'.sync = task.sync
        /\ task'.commit \in Commits
    BY <1>2, <1>3, <1>6, <2>1 DEF Task
  <2>3. task' # None
    BY <2>2, NoRecord
  <2>4. retained' \subseteq Trees
    BY <1>3, <2>1 DEF ProcessTyped
  <2>5. /\ TablesTyped' /\ ProcessTyped' /\ Single' /\ Confirmed' /\ Phased'
        /\ task'.sync \in Active' /\ Row'.state = Reached["prepare"]
    BY <1>1, <1>2, <2>2, <2>3, <2>4, TaskMoves
  <2>6. Positioned'
    <3>1. Reached' = Reached
      BY DEF Reached
    <3> QED
      BY <2>2, <2>5, <3>1 DEF Positioned
  <2>7. Served'
    BY <1>1, <1>3, <2>1, <2>2 DEF Served, tables
  <2> QED
    BY <2>5, <2>6, <2>7, InvPartsNext
<1> QED
  BY <1>8, <1>9, <1>10

-----------------------------------------------------------------------------
(* The ends of an operation.                                                *)

(* A process that serves after the end of an operation serves what is       *)
(* installed then.                                                          *)
LEMMA EndKeeps ==
  ASSUME Inv, phase \in {"starting", "live", "stopping"},
         TablesTyped', Single', Confirmed', config' # 0,
         UNCHANGED <<retained, remote, phase, request, queued, wakeup>>,
         installed' # None, installed'.config = config', installed'.tree \in retained,
         phase = "starting" =>
           /\ task' \in Task /\ task'.pc = "serve" /\ task'.tree = installed'.tree
           /\ catalog' = catalog,
         phase # "starting" => task' = NoWork /\ catalog' = installed'.tree
  PROVE  Inv'
<1>1. ProcessTyped /\ Phased
  BY InvParts
<1>2. /\ task' \in Task /\ task'.pc \in {"serve", "idle"} /\ task' # None
      /\ task'.pc = "serve" <=> phase = "starting"
  BY NoWorkTask, NoRecord
<1>3. catalog' \in Trees \cup {None} /\ retained' \subseteq Trees
  BY <1>1 DEF ProcessTyped
<1>4. ProcessTyped'
  BY <1>1, <1>2, <1>3, ProcessMoves DEF ProcessTyped
<1>5. Phased'
  BY <1>1, <1>2 DEF Phased
<1>6. Positioned'
  BY <1>2, ReachedIs DEF Positioned
<1>7. Served'
  BY <1>2 DEF Served
<1> QED
  BY <1>4, <1>5, <1>6, <1>7, InvPartsNext

LEMMA FinishNoChangeKeeps ==
  ASSUME Inv, FinishNoChange
  PROVE  Inv'
<1> DEFINE row == [Row EXCEPT !.state = "no_change", !.commit = task.commit,
                              !.tree = installed.tree]
           current == [installed EXCEPT !.sync = task.sync]
<1>1. /\ At("finish") /\ InstalledIs(task.commit)
      /\ Terminalize(task.sync, row, current)
      /\ task' = IF phase = "starting" THEN [task EXCEPT !.pc = "serve"] ELSE NoWork
      /\ UNCHANGED <<config, revisions, aliases, claimed, retained, remote,
                     phase, request, queued, wakeup, catalog>>
  BY DEF FinishNoChange, Writes
<1>2. "finish" \in DOMAIN Reached /\ "serve" \in Steps
  BY ReachedIs DEF Steps
<1>3. /\ phase \in {"starting", "live", "stopping"} /\ task \in Task /\ task.pc = "finish"
      /\ ProcessTyped /\ TablesTyped /\ Single /\ Served /\ Confirmed /\ config # 0
      /\ task.sync \in Active /\ Row \in Sync /\ Row = syncs[task.sync]
  BY <1>1, <1>2, AtOperation
<1>4. /\ installed # None /\ installed \in Installation
      /\ config = Row.config /\ installed.config = Row.config
      /\ installed.commit = task.commit
  BY <1>1, <1>3 DEF InstalledIs, TablesTyped
<1>5. task.sync \in Syncs
  BY <1>3, ActiveTyped
<1>6. /\ row \in Sync /\ row.state = "no_change" /\ row.commit = task.commit
      /\ row.tree = installed.tree /\ row.config = Row.config /\ row.state \in Outcomes
  BY <1>3, <1>4 DEF Sync, Installation, Outcomes
<1>7. /\ current \in Installation /\ current.config = installed.config
      /\ current.commit = installed.commit /\ current.tree = installed.tree
      /\ current.sync = task.sync
  BY <1>4, <1>5 DEF Installation
<1> HIDE DEF row, current
<1>8. current # None
  BY <1>7, NoRecord
<1>9. TablesTyped' /\ Single' /\ installed' = current
  <2>1. current.config \in 1..Len(revisions) /\ config' \in 0..Len(revisions)
    BY <1>1, <1>3, <1>4, <1>7 DEF TablesTyped
  <2> QED
    BY <1>1, <1>3, <1>6, <1>7, <2>1, TerminalizesTyped
<1>10. task.sync \in DOMAIN syncs' /\ syncs'[task.sync] = row
  <2>1. task.sync \in DOMAIN syncs
    BY <1>3, ActiveTyped
  <2>2. /\ \A t \in DOMAIN syncs' : syncs'[t] = IF t = task.sync THEN row ELSE syncs[t]
        /\ current # None /\ current.sync \in DOMAIN syncs => current.sync \in DOMAIN syncs'
    BY <1>1, <1>3, <1>6, Terminalizes
  <2> QED
    BY <1>7, <1>8, <2>1, <2>2
<1>11. Confirmed'
  <2>1. installed.tree = TreeOf[<<revisions[installed.config], installed.commit>>]
    BY <1>3, <1>4 DEF Confirmed
  <2>2. installed'.tree = (TreeOf[<<revisions[installed.config], installed.commit>>])'
    BY <1>1, <1>7, <1>9, <2>1
  <2> QED
    BY <1>4, <1>6, <1>7, <1>9, <1>10, <2>2 DEF Confirmed
<1>12. phase = "starting" =>
         /\ task' \in Task /\ task'.pc = "serve" /\ task'.tree = task.tree
         /\ task.tree = installed.tree /\ task.tree \in retained
  BY <1>1, <1>2, <1>3 DEF Task, Served
<1>13. phase # "starting" => task' = NoWork /\ catalog = installed.tree /\ catalog \in retained
  BY <1>1, <1>3 DEF Served
<1>14. installed'.config = config' /\ installed'.tree = installed.tree
  BY <1>1, <1>4, <1>7, <1>9
<1> QED
  BY <1>1, <1>3, <1>8, <1>9, <1>11, <1>12, <1>13, <1>14, EndKeeps

LEMMA ApplyCatalogKeeps ==
  ASSUME Inv, ApplyCatalog
  PROVE  Inv'
<1> DEFINE row == [Row EXCEPT !.state = "applied"]
           current == [config |-> Row.config, commit |-> task.commit, tree |-> task.tree,
                       sync |-> task.sync]
<1>1. /\ At("apply") /\ Row.commit = task.commit /\ Row.tree = task.tree
      /\ config' = Row.config
      /\ Terminalize(task.sync, row, current)
      /\ IF phase = "starting" THEN task' = [task EXCEPT !.pc = "serve"] /\ UNCHANGED catalog
         ELSE task' = NoWork /\ catalog' = task.tree
      /\ UNCHANGED <<revisions, aliases, claimed, retained, remote, phase, request, queued, wakeup>>
  BY DEF ApplyCatalog, Writes
<1>2. "apply" \in DOMAIN Reached /\ "serve" \in Steps
  BY ReachedIs DEF Steps
<1>3. /\ phase \in {"starting", "live", "stopping"} /\ task \in Task /\ task.pc = "apply"
      /\ phase # "down"
      /\ ProcessTyped /\ TablesTyped /\ Single /\ Positioned
      /\ task.sync \in Active /\ Row \in Sync /\ Row = syncs[task.sync]
      /\ Row.config \in 1..Len(revisions) /\ Setting \in Settings
  BY <1>1, <1>2, AtOperation, InvParts
<1>4. /\ task.commit \in Commits /\ task.tree \in retained
      /\ task.tree = TreeOf[<<Setting, task.commit>>]
  BY <1>2, <1>3 DEF Positioned
<1>5. task.tree \in Trees /\ task.sync \in Syncs /\ task.sync \in DOMAIN syncs
  BY <1>3, <1>4, ActiveTyped DEF ProcessTyped
<1>6. /\ row \in Sync /\ row.state = "applied" /\ row.commit = task.commit
      /\ row.tree = task.tree /\ row.config = Row.config /\ row.state \in Outcomes
  BY <1>1, <1>3 DEF Sync, Outcomes
<1>7. /\ current \in Installation /\ current.config = Row.config
      /\ current.commit = task.commit /\ current.tree = task.tree
      /\ current.sync = task.sync
  BY <1>3, <1>4, <1>5 DEF Installation, Sync
<1> HIDE DEF row, current
<1>8. current # None
  BY <1>7, NoRecord
<1>9. TablesTyped' /\ Single' /\ installed' = current
  <2>1. current.config \in 1..Len(revisions) /\ config' \in 0..Len(revisions)
    BY <1>1, <1>3, <1>7 DEF TablesTyped
  <2> QED
    BY <1>1, <1>3, <1>6, <1>7, <2>1, TerminalizesTyped
<1>10. task.sync \in DOMAIN syncs' /\ syncs'[task.sync] = row
  <2>1. /\ \A t \in DOMAIN syncs' : syncs'[t] = IF t = task.sync THEN row ELSE syncs[t]
        /\ current # None /\ current.sync \in DOMAIN syncs => current.sync \in DOMAIN syncs'
    BY <1>1, <1>3, <1>6, Terminalizes
  <2> QED
    BY <1>5, <1>7, <1>8, <2>1
<1>11. Confirmed'
  <2>1. installed'.tree = (TreeOf[<<revisions[installed.config], installed.commit>>])'
    BY <1>1, <1>4, <1>7, <1>9 DEF Setting
  <2> QED
    BY <1>6, <1>7, <1>9, <1>10, <2>1 DEF Confirmed
<1>12. phase = "starting" =>
         /\ task' \in Task /\ task'.pc = "serve" /\ task'.tree = task.tree
         /\ catalog' = catalog
  BY <1>1, <1>2, <1>3 DEF Task
<1>13. config' # 0 /\ installed'.config = config' /\ installed'.tree = task.tree
  BY <1>1, <1>3, <1>7, <1>9
<1> QED
  BY <1>1, <1>3, <1>4, <1>8, <1>9, <1>11, <1>12, <1>13, EndKeeps

LEMMA ServeKeeps ==
  ASSUME Inv, Serve
  PROVE  Inv'
<1>1. /\ At("serve") /\ phase' = "live" /\ catalog' = task.tree /\ task' = NoWork
      /\ UNCHANGED <<tables, retained, remote, request, queued, wakeup>>
  BY DEF Serve
<1>2. "serve" \in Steps
  BY DEF Steps
<1>3. phase = "starting" /\ ProcessTyped /\ TablesTyped /\ config # 0 /\ task.pc = "serve"
  BY <1>1, <1>2, AtTask
<1>4. /\ installed # None /\ task.tree = installed.tree /\ task.tree \in retained
      /\ installed.config = config
  BY <1>3, InvParts DEF Served
<1>5. TablesTyped' /\ Single' /\ Confirmed'
  BY <1>1, TablesKept
<1>6. task' \in Task /\ task' # None /\ task'.pc = "idle"
  BY <1>1, NoWorkTask
<1>7. ProcessTyped'
  <2>1. catalog' \in Trees /\ retained' \subseteq Trees
    BY <1>1, <1>3, <1>4 DEF ProcessTyped
  <2> QED
    BY <1>1, <1>3, <1>6, <2>1, ProcessMoves DEF ProcessTyped, tables
<1>8. Phased'
  BY <1>1, <1>6 DEF Phased
<1>9. Positioned'
  BY <1>6, ReachedIs DEF Positioned
<1>10. Served'
  BY <1>1, <1>4, <1>6 DEF Served, tables
<1> QED
  BY <1>5, <1>7, <1>8, <1>9, <1>10, InvPartsNext

(* An operation that fails or is cancelled leaves what is served alone.     *)
LEMMA OperationFailsKeeps ==
  ASSUME Inv, OperationFails
  PROVE  Inv'
<1>1. /\ \E pc \in {"advertise", "download", "compile", "load", "apply"} : At(pc)
      /\ FinishSync(task.sync, "failed")
      /\ IF phase = "starting" THEN Gone
         ELSE task' = NoWork /\ UNCHANGED <<phase, request, queued, wakeup, catalog>>
      /\ UNCHANGED <<retained, remote>>
  BY DEF OperationFails, FailOperation
<1>2. /\ phase \in {"starting", "live", "stopping"} /\ ProcessTyped
      /\ TablesTyped /\ Single /\ Confirmed /\ task.sync \in Active
  BY <1>1, AtOperation, ReachedIs
<1>3. TablesTyped' /\ Single' /\ Confirmed' /\ UNCHANGED <<config, installed>>
  BY <1>1, <1>2, Finishes
<1>4. CASE phase = "starting"
  BY <1>1, <1>2, <1>3, <1>4, ProcessGone DEF ProcessTyped
<1>5. CASE phase # "starting"
  <2>1. task' \in Task /\ task' # None /\ task'.pc = "idle"
    BY <1>1, <1>5, NoWorkTask
  <2> QED
    BY <1>1, <1>2, <1>3, <1>5, <2>1, Idles DEF Between, ProcessTyped
<1> QED
  BY <1>4, <1>5

LEMMA CancelOperationKeeps ==
  ASSUME Inv, CancelOperation
  PROVE  Inv'
<1>1. /\ phase = "stopping" /\ \E pc \in {"advertise", "download"} : At(pc)
      /\ FinishSync(task.sync, "cancelled") /\ task' = NoWork
      /\ UNCHANGED <<retained, remote, phase, request, queued, wakeup, catalog>>
  BY DEF CancelOperation, Writes
<1>2. /\ ProcessTyped /\ TablesTyped /\ Single /\ Confirmed /\ task.sync \in Active
  BY <1>1, AtOperation, ReachedIs
<1>3. TablesTyped' /\ Single' /\ Confirmed' /\ UNCHANGED <<config, installed>>
  BY <1>1, <1>2, Finishes
<1>4. task' \in Task /\ task' # None /\ task'.pc = "idle"
  BY <1>1, NoWorkTask
<1> QED
  BY <1>1, <1>2, <1>3, <1>4, Idles DEF Between, ProcessTyped

-----------------------------------------------------------------------------
(* The invariant. *)

LEMMA InvInit == Init => Inv
<1> SUFFICES ASSUME Init PROVE Inv
  OBVIOUS
<1>1. DOMAIN syncs = {} /\ DOMAIN aliases = {} /\ Active = {}
  BY DEF Init, Active
<1>2. TablesTyped
  <2>1. revisions = <<>> /\ Len(revisions) = 0 /\ revisions \in Seq(Settings)
        /\ claimed \in Seq(Keys)
    BY DEF Init
  <2>2. syncs \in [DOMAIN syncs -> Sync] /\ aliases \in [DOMAIN aliases -> Alias]
    BY DEF Init
  <2>3. IsFiniteSet(DOMAIN syncs)
    BY <1>1, FS_EmptySet
  <2> QED
    BY <1>1, <2>1, <2>2, <2>3 DEF Init, TablesTyped
<1>3. ProcessTyped
  BY DEF Init, ProcessTyped
<1>4. Single /\ Confirmed
  BY <1>1 DEF Init, Single, Confirmed
<1>5. Phased /\ Positioned /\ Served
  BY DEF Init, Phased, Positioned, Served
<1> QED
  BY <1>2, <1>3, <1>4, <1>5, InvParts

LEMMA InvStutters == Inv /\ UNCHANGED vars => Inv'
<1> SUFFICES ASSUME Inv, UNCHANGED vars PROVE Inv'
  OBVIOUS
<1>1. UNCHANGED <<tables, retained, remote, process>>
  BY DEF vars
<1>2. TablesTyped' /\ Single' /\ Confirmed' /\ Active' = Active
  BY <1>1, TablesKept
<1>3. ProcessTyped'
  BY <1>1, InvParts DEF ProcessTyped, process, tables
<1>4. Phased' /\ Served'
  BY <1>1, <1>2, InvParts DEF Phased, Served, process, tables
<1>5. Positioned'
  <2>1. Reached' = Reached
    BY DEF Reached
  <2> QED
    BY <1>1, <1>2, <2>1, InvParts DEF Positioned, Row, Setting, InstalledIs, process, tables
<1> QED
  BY <1>2, <1>3, <1>4, <1>5, InvPartsNext

LEMMA WorkKeeps ==
  ASSUME Inv, Work
  PROVE  Inv'
<1>1. CASE Reconcile
  BY <1>1, ReconcileKeeps
<1>2. CASE BeginStartup
  BY <1>2, BeginStartupKeeps
<1>3. CASE Poll
  BY <1>3, PollKeeps
<1>4. CASE BeginPoll
  BY <1>4, BeginPollKeeps
<1>5. CASE Pick
  BY <1>5, PickKeeps
<1>6. CASE BeginFetch
  BY <1>6, BeginFetchKeeps
<1>7. CASE Advertise
  BY <1>7, AdvertiseKeeps
<1>8. CASE Download
  BY <1>8, DownloadKeeps
<1>9. CASE Resolve
  BY <1>9, ResolveKeeps
<1>10. CASE LoadInstalled
  BY <1>10, LoadInstalledKeeps
<1>11. CASE FinishNoChange
  BY <1>11, FinishNoChangeKeeps
<1>12. CASE Prepare
  BY <1>12, PrepareKeeps
<1>13. CASE Compiling
  BY <1>13, CompilingKeeps
<1>14. CASE Compile
  BY <1>14, CompileKeeps
<1>15. CASE Reload
  BY <1>15, ReloadKeeps
<1>16. CASE ApplyCatalog
  BY <1>16, ApplyCatalogKeeps
<1>17. CASE CancelOperation
  BY <1>17, CancelOperationKeeps
<1>18. CASE Serve
  BY <1>18, ServeKeeps
<1>19. CASE Stop
  BY <1>19, StopKeeps
<1> QED
  BY <1>1, <1>2, <1>3, <1>4, <1>5, <1>6, <1>7, <1>8, <1>9, <1>10, <1>11, <1>12, <1>13,
     <1>14, <1>15, <1>16, <1>17, <1>18, <1>19 DEF Work

LEMMA OperatorKeeps ==
  ASSUME Inv, Operator
  PROVE  Inv'
<1>1. CASE \E key \in Keys, setting \in Settings \cup {None}, version \in 1..Len(revisions) :
             Ask(key, setting, version)
  BY <1>1, AskKeeps
<1>2. CASE Answer
  BY <1>2, AnswerKeeps
<1>3. CASE Abandon
  BY <1>3, AbandonKeeps
<1>4. CASE ExecuteQueued
  BY <1>4, ExecuteQueuedKeeps
<1>5. CASE \E setting \in Settings : PutConfiguration(setting)
  BY <1>5, PutConfigurationKeeps
<1> QED
  BY <1>1, <1>2, <1>3, <1>4, <1>5 DEF Operator

LEMMA EnvironmentKeeps ==
  ASSUME Inv, Environment
  PROVE  Inv'
<1>1. CASE \E setting \in Settings, commit \in Commits : Push(setting, commit)
  BY <1>1, PushKeeps
<1>2. CASE LoseCandidates
  BY <1>2, LoseCandidatesKeeps
<1>3. CASE OperationFails
  BY <1>3, OperationFailsKeeps
<1>4. CASE StoreUnavailable
  BY <1>4, StoreUnavailableKeeps
<1>5. CASE Shutdown
  BY <1>5, ShutdownKeeps
<1>6. CASE Exit
  BY <1>6, CrashKeeps DEF Exit
<1>7. CASE Crash
  BY <1>7, CrashKeeps DEF Crash
<1>8. CASE Start
  BY <1>8, StartKeeps
<1> QED
  BY <1>1, <1>2, <1>3, <1>4, <1>5, <1>6, <1>7, <1>8 DEF Environment

LEMMA InvNext == Inv /\ [Next]_vars => Inv'
<1> SUFFICES ASSUME Inv, [Next]_vars PROVE Inv'
  OBVIOUS
<1>1. CASE UNCHANGED vars
  BY <1>1, InvStutters
<1>2. CASE Next
  BY <1>2, WorkKeeps, PollFiresKeeps, WakeKeeps, OperatorKeeps, EnvironmentKeeps DEF Next
<1> QED
  BY <1>1, <1>2

LEMMA SourceInv == Spec => []Inv
  BY InvInit, InvNext, PTL DEF Spec

(* Every value of the source has its type, and a process that is gone left  *)
(* neither a request nor a write in the queue behind.                       *)
THEOREM SourceTypeOK == Spec => []TypeOK
<1>1. Inv => TypeOK
  BY DEF Inv, Typed
<1> QED
  BY <1>1, SourceInv, PTL

(* "A single durable operation owns managed-source coordination": however   *)
(* requests, polls, restarts and failures interleave, no two operations are *)
(* active, and the write the task makes next finds the row and the          *)
(* configuration it expects (store.rs, begin_sync and advance_sync).        *)
THEOREM SourceOneActive == Spec => []OneActive
<1>1. Inv => OneActive
  <2> SUFFICES ASSUME Inv PROVE OneActive
    OBVIOUS
  <2>1. Single /\ Positioned
    BY InvParts
  <2>2. \A s, t \in Active : s = t
    BY <2>1 DEF Single
  <2>3. ASSUME phase # "down", task.pc \in DOMAIN Reached
        PROVE  /\ task.sync \in Active /\ Row.state = Reached[task.pc]
               /\ task.pc = "finish" => InstalledIs(task.commit)
               /\ task.pc = "apply" => Activatable
    <3>1. /\ task.sync \in Active /\ Row.state = Reached[task.pc]
          /\ task.pc = "finish" => InstalledIs(task.commit)
      BY <2>1, <2>3 DEF Positioned
    <3>2. config = Base(Row)
      BY <2>1, <3>1 DEF Single, Row
    <3> QED
      BY <3>1, <3>2 DEF Activatable, Base
  <2> QED
    BY <2>2, <2>3 DEF OneActive
<1> QED
  BY <1>1, SourceInv, PTL

(* The installation agrees with the operation that last confirmed it and    *)
(* names the content of its commit under its settings, and a live process   *)
(* previews exactly that, after any crash, lost tree or reconfiguration.    *)
THEOREM SourceInstalledConsistent == Spec => []InstalledConsistent
<1>1. Inv => InstalledConsistent
  BY InvParts DEF InstalledConsistent, Confirmed, Served
<1> QED
  BY <1>1, SourceInv, PTL

-----------------------------------------------------------------------------
(* Settings change with their catalog. *)

LEMMA OthersKeepConfiguration ==
  ASSUME Next, ~ApplyCatalog, phase # "down"
  PROVE  config' = config
<1>1. ASSUME NEW s, NEW outcome, FinishSync(s, outcome)
      PROVE  config' = config
  BY <1>1 DEF FinishSync
<1>2. ASSUME NEW from, NEW to, NEW commit, NEW tree, NEW pc, Advance(from, to, commit, tree, pc)
      PROVE  config' = config
  BY <1>2 DEF Advance
<1>3. CASE Work
  <2>1. CASE Reconcile \/ Pick \/ CancelOperation \/ Stop
    BY <1>1, <2>1 DEF Reconcile, Pick, CancelOperation, Stop, tables
  <2>2. CASE Resolve \/ Prepare \/ Compiling \/ Reload
    BY <1>2, <2>2 DEF Resolve, Prepare, Compiling, Reload
  <2>3. CASE \/ BeginStartup \/ Poll \/ BeginPoll \/ BeginFetch \/ Advertise \/ Download
             \/ LoadInstalled \/ FinishNoChange \/ Compile \/ Serve
    BY <2>3 DEF BeginStartup, Poll, BeginPoll, BeginFetch, Advertise, Download, LoadInstalled,
         FinishNoChange, Compile, Serve, tables
  <2> QED
    BY <1>3, <2>1, <2>2, <2>3 DEF Work
<1>4. CASE PollFires \/ Wake
  BY <1>4 DEF PollFires, Wake, tables
<1>5. CASE Operator
  BY <1>5 DEF Operator, Ask, Answer, Abandon, ExecuteQueued, PutConfiguration, Execute, tables
<1>6. CASE Environment
  <2>1. CASE OperationFails
    BY <1>1, <2>1 DEF OperationFails, FailOperation
  <2> QED
    BY <1>6, <2>1 DEF Environment, Push, LoseCandidates, StoreUnavailable, Shutdown, Exit,
         Crash, Start, tables
<1> QED
  BY <1>3, <1>4, <1>5, <1>6 DEF Next

(* "The proposal must fetch and compile successfully before its settings    *)
(* and private catalog replace the current installation": while a process   *)
(* runs, the installed configuration changes only to one whose content was  *)
(* compiled, is retained, and is installed in the same transaction.         *)
THEOREM SourceConfigurationFollowsCatalog == Spec => ConfigurationFollowsCatalog
<1> DEFINE Follows == phase # "down" /\ config' # config =>
             /\ installed'.config = config'
             /\ syncs'[installed'.sync].state = "applied"
             /\ installed'.tree = TreeOf[<<revisions[config'], installed'.commit>>]
             /\ installed'.tree \in retained
<1>1. Inv /\ [Next]_vars => [Follows]_vars
  <2> SUFFICES ASSUME Inv, Next, phase # "down", config' # config
               PROVE  Follows
    OBVIOUS
  <2>1. ApplyCatalog
    BY OthersKeepConfiguration
  <2>2. Inv'
    BY <2>1, ApplyCatalogKeeps
  <2> DEFINE row == [Row EXCEPT !.state = "applied"]
             current == [config |-> Row.config, commit |-> task.commit, tree |-> task.tree,
                         sync |-> task.sync]
  <2>3. /\ At("apply") /\ Terminalize(task.sync, row, current)
        /\ config' = Row.config /\ UNCHANGED revisions
    BY <2>1 DEF ApplyCatalog, Writes
  <2>4. "apply" \in DOMAIN Reached
    BY ReachedIs
  <2>5. /\ TablesTyped /\ Single /\ Positioned /\ phase # "down" /\ task.pc = "apply"
        /\ task.sync \in Active /\ Row \in Sync /\ Row = syncs[task.sync]
    BY <2>3, <2>4, AtOperation, InvParts
  <2>6. /\ task.tree \in retained /\ task.tree = TreeOf[<<revisions[Row.config], task.commit>>]
    BY <2>4, <2>5 DEF Positioned, Setting
  <2>7. row \in Sync /\ row.state = "applied" /\ row.state \in Outcomes
    BY <2>5 DEF Sync, Outcomes
  <2>8. /\ installed' = current /\ current.config = Row.config /\ current.sync = task.sync
        /\ current.commit = task.commit /\ current.tree = task.tree
    BY <2>3 DEF Terminalize
  <2> HIDE DEF row, current
  <2>9. \A t \in DOMAIN syncs' : syncs'[t] = IF t = task.sync THEN row ELSE syncs[t]
    BY <2>3, <2>5, <2>7, Terminalizes
  <2>10. current # None
    <3>1. task.sync \in Syncs /\ task.commit \in Commits /\ task.tree \in Trees
      BY <2>4, <2>5, <2>6, ActiveTyped, InvParts DEF Positioned, ProcessTyped
    <3>2. current \in Installation
      BY <2>5, <3>1 DEF current, Installation, Sync
    <3> QED
      BY <3>2, NoRecord
  <2>11. installed'.sync \in DOMAIN syncs'
    BY <2>2, <2>8, <2>10, InvPartsNext DEF Confirmed
  <2> QED
    BY <2>3, <2>6, <2>7, <2>8, <2>9, <2>11
<1>2. Spec => [][Follows]_vars
  BY <1>1, SourceInv, PTL DEF Spec
<1> QED
  BY <1>2 DEF ConfigurationFollowsCatalog

-----------------------------------------------------------------------------
(* The history: what is pruned, and what that leaves.                       *)

(* The members that fewer than n others follow. *)
Newest(S, order, n) == {s \in S : Cardinality({t \in S : <<s, t>> \in order}) < n}

(* In a strict order they are at most n. *)
LEMMA FewNewest ==
  ASSUME NEW S, IsFiniteSet(S), NEW order, Ordered(order, S), NEW n \in Nat
  PROVE  IsFiniteSet(Newest(S, order, n)) /\ Cardinality(Newest(S, order, n)) <= n
<1> DEFINE After(s) == {t \in S : <<s, t>> \in order}
           newest   == {s \in S : Cardinality(After(s)) < n}
           rank     == [s \in newest |-> Cardinality(After(s))]
<1>1. \A s \in S : IsFiniteSet(After(s)) /\ Cardinality(After(s)) \in Nat
  BY FS_Subset, FS_CardinalityType
<1>2. ASSUME NEW s \in S, NEW t \in S, <<s, t>> \in order
      PROVE  Cardinality(After(s)) # Cardinality(After(t))
  <2>1. After(t) \in SUBSET After(s)
    BY <1>2 DEF Ordered
  <2>2. t \in After(s) /\ t \notin After(t)
    BY <1>2 DEF Ordered
  <2>3. After(s) # After(t)
    BY <2>2
  <2>4. IsFiniteSet(After(s))
    BY <1>1
  <2> HIDE DEF After
  <2> QED
    BY <2>1, <2>3, <2>4, FS_Subset
<1>3. ASSUME NEW s \in S, NEW t \in S, s # t
      PROVE  Cardinality(After(s)) # Cardinality(After(t))
  <2>1. CASE <<s, t>> \in order
    BY <1>2, <2>1
  <2>2. CASE <<t, s>> \in order
    BY <1>2, <2>2
  <2> QED
    BY <1>3, <2>1, <2>2 DEF Ordered
<1> HIDE DEF After
<1>4. newest \in SUBSET S /\ IsFiniteSet(newest)
  BY FS_Subset
<1> DEFINE ranks == 0..(n - 1)
<1>5. rank \in Injection(newest, ranks)
  <2>1. rank \in [newest -> 0..(n - 1)]
    BY <1>1
  <2>2. \A s, t \in newest : rank[s] = rank[t] => s = t
    BY <1>3
  <2> QED
    BY <2>1, <2>2 DEF Injection, IsInjective
<1>6. IsFiniteSet(ranks)
  BY FS_Interval
<1> HIDE DEF newest, rank, ranks
<1>7. Cardinality(newest) <= Cardinality(ranks)
  BY <1>4, <1>5, <1>6, FS_Injection
<1>8. Cardinality(ranks) = n
  <2>1. 0 \in Int /\ n - 1 \in Int
    OBVIOUS
  <2>2. Cardinality(0..(n - 1)) = IF 0 > n - 1 THEN 0 ELSE (n - 1) - 0 + 1
    BY <2>1, FS_Interval
  <2> QED
    BY <2>2 DEF ranks
<1>9. newest = Newest(S, order, n)
  BY DEF newest, After, Newest
<1> QED
  BY <1>4, <1>7, <1>8, <1>9

(* The answered keys are no more than the bound.                            *)
LEMMA FewAliases ==
  ASSUME NEW table, NEW keys, IsFiniteSet(DOMAIN keys), DOMAIN keys \subseteq Nat
  PROVE  /\ IsFiniteSet(DOMAIN NewestAliases(table, keys))
         /\ Cardinality(DOMAIN NewestAliases(table, keys)) <= RetainedAliases
<1> DEFINE indices == {i \in DOMAIN keys : keys[i] \in DOMAIN table}
           order   == {p \in indices \X indices : p[2] > p[1]}
           newest  == {j \in indices : Cardinality({m \in indices : m > j}) < RetainedAliases}
           kept    == {keys[i] : i \in newest}
           key     == [i \in newest |-> keys[i]]
<1>1. IsFiniteSet(indices) /\ indices \subseteq Nat
  BY FS_Subset
<1>2. Ordered(order, indices)
  BY <1>1 DEF Ordered
<1>3. \A j \in indices : {m \in indices : m > j} = {m \in indices : <<j, m>> \in order}
  OBVIOUS
<1> HIDE DEF indices, order
<1>4. newest = Newest(indices, order, RetainedAliases)
  BY <1>3 DEF Newest
<1>5. RetainedAliases \in Nat
  BY SourceConstants
<1>6. IsFiniteSet(newest) /\ Cardinality(newest) <= RetainedAliases
  <2>1. RetainedAliases \in Nat /\ IsFiniteSet(indices)
    BY <1>1, <1>5
  <2>2. /\ IsFiniteSet(Newest(indices, order, RetainedAliases))
        /\ Cardinality(Newest(indices, order, RetainedAliases)) <= RetainedAliases
    BY <1>2, <2>1, FewNewest
  <2> HIDE DEF newest
  <2> QED
    BY <1>4, <2>2
<1> HIDE DEF newest
<1>7. key \in Surjection(newest, kept)
  BY DEF Surjection
<1> HIDE DEF key
<1>8. IsFiniteSet(kept) /\ Cardinality(kept) <= Cardinality(newest)
  BY <1>6, <1>7, FS_Surjection
<1>9. Cardinality(kept) \in Nat /\ Cardinality(newest) \in Nat
  BY <1>6, <1>8, FS_CardinalityType
<1>10. DOMAIN NewestAliases(table, keys) = kept
  BY DEF NewestAliases, kept, newest, indices
<1> QED
  BY <1>5, <1>6, <1>8, <1>9, <1>10

Ended == DOMAIN syncs \ Active

(* What is answered is known, and every bound holds. *)
Answerable ==
  \A k \in DOMAIN aliases :
    /\ aliases[k].sync \in DOMAIN syncs
    /\ aliases[k].setting = None => aliases[k].version = syncs[aliases[k].sync].config
    /\ k \in ClaimedKeys

LEMMA KeptParts ==
  Kept <=> /\ Answerable /\ Cardinality(DOMAIN aliases) <= RetainedAliases
           /\ Cardinality(Ended) <= RetainedSyncs + RetainedAliases + 1
           /\ Ordered(history, DOMAIN syncs) /\ IsFiniteSet(DOMAIN aliases)
  BY DEF Kept, HistoryKept, Answerable, Ended

LEMMA KeptPartsNext ==
  Kept' <=> /\ Answerable' /\ Cardinality(DOMAIN aliases') <= RetainedAliases
            /\ Cardinality(Ended') <= RetainedSyncs + RetainedAliases + 1
            /\ Ordered(history', DOMAIN syncs') /\ IsFiniteSet(DOMAIN aliases')
  BY DEF Kept, HistoryKept, Answerable, Ended, Active, ClaimedKeys

LEMMA KeptStays ==
  ASSUME Kept, UNCHANGED <<syncs, history, aliases, claimed>>
  PROVE  Kept'
  BY DEF Kept, HistoryKept, Active, ClaimedKeys, Ordered

(* The row of the operation in progress moves from stage to stage.          *)
LEMMA KeptAdvances ==
  ASSUME Kept, NEW s \in Active, NEW row, row.state \in Stages, row.config = syncs[s].config,
         syncs' = Store(syncs, s, row), UNCHANGED <<history, aliases, claimed>>
  PROVE  Kept'
<1>1. s \in DOMAIN syncs /\ syncs[s].state \in Stages
  BY DEF Active
<1>2. DOMAIN syncs' = DOMAIN syncs
  BY <1>1, StoredKnown
<1>3. syncs'[s] = row /\ \A t \in DOMAIN syncs : t # s => syncs'[t] = syncs[t]
  BY <1>1 DEF Store
<1>4. Active' = Active
  BY <1>1, <1>2, <1>3 DEF Active
<1>5. Ended' = Ended
  BY <1>2, <1>4 DEF Ended
<1>6. \A t \in DOMAIN syncs : syncs'[t].config = syncs[t].config
  BY <1>3
<1>7. Answerable'
  BY <1>2, <1>6, KeptParts DEF Answerable, ClaimedKeys
<1> QED
  BY <1>2, <1>5, <1>7, KeptParts, KeptPartsNext

(* What is left of the ended operations, once the old ones are pruned.      *)
LEMMA KeptTerminalizes ==
  ASSUME Kept, TablesTyped, Single, NEW s \in Active, NEW row \in Sync, row.state \in Outcomes,
         row.config = syncs[s].config, NEW current, Terminalize(s, row, current),
         UNCHANGED <<aliases, claimed>>
  PROVE  Kept'
<1> DEFINE table    == Store(syncs, s, row)
           finished == {t \in DOMAIN table : table[t].state \in Outcomes}
           young    == Newest(finished, history, RetainedSyncs)
<1>1. /\ Active' = {}
      /\ DOMAIN syncs' \subseteq DOMAIN syncs
      /\ \A t \in DOMAIN syncs' : syncs'[t] = IF t = s THEN row ELSE syncs[t]
      /\ \A k \in DOMAIN aliases : aliases[k].sync \in DOMAIN syncs =>
           aliases[k].sync \in DOMAIN syncs'
      /\ DOMAIN syncs' = DOMAIN syncs \ Expired(table, current)
  BY Terminalizes
<1>2. Answerable /\ Ordered(history, DOMAIN syncs) /\ IsFiniteSet(DOMAIN aliases)
      /\ Cardinality(DOMAIN aliases) <= RetainedAliases
  BY KeptParts
<1>3. Answerable'
  BY <1>1, <1>2 DEF Answerable, ClaimedKeys
<1>4. Ordered(history', DOMAIN syncs')
  <2>1. history' = {p \in history : p[1] \notin Expired(table, current)
                                    /\ p[2] \notin Expired(table, current)}
    BY DEF Terminalize
  <2>2. \A t, u \in DOMAIN syncs' : <<t, u>> \in history' <=> <<t, u>> \in history
    BY <1>1, <2>1
  <2> QED
    BY <1>1, <1>2, <2>2 DEF Ordered
<1>5. DOMAIN table = DOMAIN syncs
  BY StoredKnown DEF Active
<1>6. IsFiniteSet(finished) /\ finished \subseteq DOMAIN syncs
  BY <1>5, FS_Subset DEF TablesTyped
<1>7. Ordered(history, finished)
  BY <1>2, <1>6 DEF Ordered
<1>8. RetainedSyncs \in Nat /\ RetainedAliases \in Nat
  BY SourceConstants
<1>9. IsFiniteSet(young) /\ Cardinality(young) <= RetainedSyncs
  BY <1>6, <1>7, <1>8, FewNewest
<1>10. DOMAIN syncs' \subseteq young \cup Aliased \cup InstalledBy(current)
  <2> SUFFICES ASSUME NEW t \in DOMAIN syncs', t \notin Aliased, t \notin InstalledBy(current)
               PROVE  t \in young
    OBVIOUS
  <2>1. t \notin OlderThan(RetainedSyncs, table)
    BY <1>1 DEF Expired
  <2>2. t \in finished
    <3>1. table[t] = IF t = s THEN row ELSE syncs[t]
      BY <1>1 DEF Store
    <3>2. syncs'[t] = table[t] /\ syncs'[t].state \notin Stages
      BY <1>1, <3>1 DEF Active
    <3>3. table[t] \in Sync
      BY <1>1, <3>1 DEF TablesTyped
    <3> QED
      BY <1>1, <1>5, <3>2, <3>3 DEF Sync
  <2>3. OlderThan(RetainedSyncs, table)
          = {u \in finished : Cardinality({v \in finished : <<u, v>> \in history}) >= RetainedSyncs}
    BY DEF OlderThan
  <2>4. IsFiniteSet({v \in finished : <<t, v>> \in history})
    BY <1>6, FS_Subset
  <2>5. Cardinality({v \in finished : <<t, v>> \in history}) \in Nat
    BY <2>4, FS_CardinalityType
  <2> HIDE DEF finished
  <2> QED
    BY <1>8, <2>1, <2>2, <2>3, <2>5 DEF Newest
<1> HIDE DEF table, finished, young
<1>11. IsFiniteSet(Aliased) /\ Cardinality(Aliased) <= RetainedAliases
  <2> DEFINE named == [k \in DOMAIN aliases |-> aliases[k].sync]
  <2>1. named \in Surjection(DOMAIN aliases, Aliased)
    BY DEF Surjection, Aliased
  <2> HIDE DEF named
  <2>2. IsFiniteSet(Aliased) /\ Cardinality(Aliased) <= Cardinality(DOMAIN aliases)
    BY <1>2, <2>1, FS_Surjection
  <2> QED
    BY <1>2, <1>8, <2>2, FS_CardinalityType
<1>12. IsFiniteSet(InstalledBy(current)) /\ Cardinality(InstalledBy(current)) <= 1
  <2>1. CASE current = None
    BY <2>1, FS_EmptySet DEF InstalledBy
  <2>2. CASE current # None
    <3>1. InstalledBy(current) = {current.sync}
      BY <2>2 DEF InstalledBy
    <3>2. IsFiniteSet({current.sync}) /\ Cardinality({current.sync}) = 1
      BY FS_Singleton
    <3> QED
      BY <3>1, <3>2
  <2> QED
    BY <2>1, <2>2
<1>13. Cardinality(Ended') <= RetainedSyncs + RetainedAliases + 1
  <2> DEFINE left == young \cup Aliased
             all  == left \cup InstalledBy(current)
  <2>1. /\ IsFiniteSet(left)
        /\ Cardinality(left) = Cardinality(young) + Cardinality(Aliased)
                                 - Cardinality(young \cap Aliased)
        /\ IsFiniteSet(young \cap Aliased)
    BY <1>9, <1>11, FS_Union, FS_Subset
  <2>2. Cardinality(left) <= RetainedSyncs + RetainedAliases
    BY <1>8, <1>9, <1>11, <2>1, FS_CardinalityType
  <2> HIDE DEF left
  <2>3. /\ IsFiniteSet(all)
        /\ Cardinality(all) = Cardinality(left) + Cardinality(InstalledBy(current))
                                - Cardinality(left \cap InstalledBy(current))
        /\ IsFiniteSet(left \cap InstalledBy(current))
    BY <1>12, <2>1, FS_Union, FS_Subset
  <2>4. Cardinality(all) <= RetainedSyncs + RetainedAliases + 1
    BY <1>8, <1>12, <2>1, <2>2, <2>3, FS_CardinalityType
  <2>5. Ended' \in SUBSET all
    BY <1>1, <1>10 DEF Ended, left
  <2> HIDE DEF all
  <2>6. IsFiniteSet(Ended') /\ Cardinality(Ended') <= Cardinality(all)
    BY <2>3, <2>5, FS_Subset
  <2> QED
    BY <1>8, <2>3, <2>4, <2>6, FS_CardinalityType
<1> QED
  BY <1>2, <1>3, <1>4, <1>13, KeptPartsNext

(* A new operation follows all others, and adds nothing that has ended.     *)
LEMMA HistoryInserts ==
  ASSUME Kept, TablesTyped, Single, Confirmed, Active = {},
         NEW revision \in Nat, NEW expected \in Nat, InsertSync(revision, expected)
  PROVE  /\ Ordered(history', DOMAIN syncs') /\ Ended' = Ended
         /\ DOMAIN syncs \subseteq DOMAIN syncs' /\ FreshSync \in DOMAIN syncs'
         /\ syncs'[FreshSync].config = revision /\ FreshSync \in Syncs
         /\ \A t \in DOMAIN syncs : syncs'[t] = syncs[t]
<1>1. /\ FreshSync \in Syncs /\ FreshSync \notin DOMAIN syncs
      /\ DOMAIN syncs' = DOMAIN syncs \cup {FreshSync}
      /\ syncs'[FreshSync].config = revision
      /\ \A t \in DOMAIN syncs : syncs'[t] = syncs[t]
      /\ Active' = {FreshSync}
  BY Inserts
<1>2. history' = history \cup ((DOMAIN syncs) \X {FreshSync})
  BY DEF InsertSync
<1>3. history \subseteq (DOMAIN syncs) \X (DOMAIN syncs)
  BY DEF TablesTyped
<1>4. Ordered(history, DOMAIN syncs)
  BY KeptParts
<1> HIDE DEF FreshSync
<1>5. \A t, u \in DOMAIN syncs' : <<t, u>> \in history' <=>
        \/ t \in DOMAIN syncs /\ u \in DOMAIN syncs /\ <<t, u>> \in history
        \/ t \in DOMAIN syncs /\ u = FreshSync
  BY <1>1, <1>2, <1>3
<1>6. Ordered(history', DOMAIN syncs')
  <2>1. \A t \in DOMAIN syncs' : <<t, t>> \notin history'
    BY <1>1, <1>4, <1>5 DEF Ordered
  <2>2. \A t, u \in DOMAIN syncs' : t # u => <<t, u>> \in history' \/ <<u, t>> \in history'
    BY <1>1, <1>4, <1>5 DEF Ordered
  <2>3. ASSUME NEW t \in DOMAIN syncs', NEW u \in DOMAIN syncs', NEW v \in DOMAIN syncs',
               <<t, u>> \in history', <<u, v>> \in history'
        PROVE  <<t, v>> \in history'
    BY <1>1, <1>4, <1>5, <2>3 DEF Ordered
  <2> QED
    BY <2>1, <2>2, <2>3 DEF Ordered
<1>7. Ended' = Ended
  BY <1>1 DEF Ended
<1> QED
  BY <1>1, <1>6, <1>7

LEMMA KeptBegins ==
  ASSUME Kept, TablesTyped, Single, Confirmed,
         NEW version, BeginSync(version), UNCHANGED <<aliases, claimed>>
  PROVE  Kept'
<1>1. CASE Active # {}
  BY <1>1, KeptStays DEF BeginSync
<1>2. CASE Active = {}
  <2>1. config = version /\ InsertSync(version, 0)
    BY <1>2 DEF BeginSync, Admits
  <2>2. version \in Nat /\ 0 \in Nat
    BY <2>1 DEF TablesTyped
  <2>3. /\ Ordered(history', DOMAIN syncs') /\ Ended' = Ended
        /\ DOMAIN syncs \subseteq DOMAIN syncs'
        /\ \A t \in DOMAIN syncs : syncs'[t] = syncs[t]
    BY <1>2, <2>1, <2>2, HistoryInserts
  <2>4. Answerable'
    BY <2>3, KeptParts DEF Answerable, ClaimedKeys
  <2> QED
    BY <2>3, <2>4, KeptParts, KeptPartsNext
<1> QED
  BY <1>1, <1>2

(* The new key names an operation that exists and runs what was asked.      *)
LEMMA KeptRecords ==
  ASSUME Kept, TablesTyped, NEW req \in Request, NEW s \in Syncs, RecordAlias(req, s),
         s \in DOMAIN syncs', req.setting = None => syncs'[s].config = req.version,
         DOMAIN syncs \subseteq DOMAIN syncs',
         \A t \in DOMAIN syncs : syncs'[t] = syncs[t],
         Ended' = Ended, Ordered(history', DOMAIN syncs')
  PROVE  Kept'
<1>1. /\ claimed' = Append(claimed, req.key) /\ claimed' \in Seq(Keys)
      /\ DOMAIN aliases' \subseteq {claimed'[i] : i \in DOMAIN claimed'}
      /\ DOMAIN aliases' \subseteq DOMAIN aliases \cup {req.key}
      /\ \A k \in DOMAIN aliases' : aliases'[k] =
           IF k = req.key THEN [sync |-> s, setting |-> req.setting, version |-> req.version]
           ELSE aliases[k]
  BY Records
<1>2. Answerable
  BY KeptParts
<1>3. Answerable'
  <2> SUFFICES ASSUME NEW k \in DOMAIN aliases'
               PROVE  /\ aliases'[k].sync \in DOMAIN syncs'
                      /\ aliases'[k].setting = None =>
                           aliases'[k].version = syncs'[aliases'[k].sync].config
                      /\ k \in {claimed'[i] : i \in DOMAIN claimed'}
    BY DEF Answerable, ClaimedKeys
  <2>1. CASE k = req.key
    BY <1>1, <2>1
  <2>2. CASE k # req.key
    <3>1. k \in DOMAIN aliases /\ aliases'[k] = aliases[k]
      BY <1>1, <2>2
    <3>2. /\ aliases[k].sync \in DOMAIN syncs
          /\ aliases[k].setting = None => aliases[k].version = syncs[aliases[k].sync].config
      BY <1>2, <3>1 DEF Answerable
    <3> QED
      BY <1>1, <3>1, <3>2
  <2> QED
    BY <2>1, <2>2
<1>4. IsFiniteSet(DOMAIN aliases') /\ Cardinality(DOMAIN aliases') <= RetainedAliases
  <2>1. DOMAIN claimed' = 1..Len(claimed') /\ Len(claimed') \in Nat
    BY <1>1
  <2>2. IsFiniteSet(DOMAIN claimed') /\ DOMAIN claimed' \subseteq Nat
    BY <2>1, FS_Interval
  <2> DEFINE table == Store(aliases, req.key,
               [sync |-> s, setting |-> req.setting, version |-> req.version])
  <2>3. aliases' = NewestAliases(table, claimed')
    BY DEF RecordAlias
  <2> HIDE DEF table
  <2>4. /\ IsFiniteSet(DOMAIN NewestAliases(table, claimed'))
        /\ Cardinality(DOMAIN NewestAliases(table, claimed')) <= RetainedAliases
    BY <2>2, FewAliases
  <2> QED
    BY <2>3, <2>4
<1> QED
  BY <1>3, <1>4, KeptParts, KeptPartsNext

LEMMA KeptExecutes ==
  ASSUME Kept, TablesTyped, Single, Confirmed, NEW req \in Request, Execute(req)
  PROVE  Kept'
<1>1. CASE UNCHANGED <<revisions, syncs, history, aliases, claimed>>
  BY <1>1, KeptStays
<1>2. CASE req.setting = None /\ SyncNow(req)
  <2> DEFINE s == IF Active = {} THEN FreshSync ELSE CHOOSE t \in Active : TRUE
  <2>1. BeginSync(req.version) /\ RecordAlias(req, s) /\ Admits(req.version)
    BY <1>2 DEF SyncNow, BeginSync
  <2>2. CASE Active # {}
    <3>1. s \in Active /\ UNCHANGED <<syncs, history>>
      BY <2>1, <2>2 DEF BeginSync
    <3>2. s \in DOMAIN syncs' /\ syncs'[s].config = req.version /\ s \in Syncs
      BY <2>1, <3>1, ActiveTyped DEF Admits
    <3>3. Ended' = Ended /\ Ordered(history', DOMAIN syncs')
      BY <3>1, KeptParts DEF Ended, Active
    <3> HIDE DEF s
    <3> QED
      BY <2>1, <3>1, <3>2, <3>3, KeptRecords
  <2>3. CASE Active = {}
    <3>1. s = FreshSync /\ InsertSync(req.version, 0)
      BY <2>1, <2>3 DEF BeginSync
    <3>2. req.version \in Nat /\ 0 \in Nat
      BY DEF Request
    <3>3. /\ Ordered(history', DOMAIN syncs') /\ Ended' = Ended
          /\ DOMAIN syncs \subseteq DOMAIN syncs' /\ FreshSync \in DOMAIN syncs'
          /\ syncs'[FreshSync].config = req.version /\ FreshSync \in Syncs
          /\ \A t \in DOMAIN syncs : syncs'[t] = syncs[t]
      BY <2>3, <3>1, <3>2, HistoryInserts
    <3> HIDE DEF s
    <3> QED
      BY <2>1, <3>1, <3>3, KeptRecords
  <2> QED
    BY <2>2, <2>3
<1>3. CASE req.setting # None /\ Propose(req)
  <2>1. Active = {} /\ InsertSync(NextRevision, req.version) /\ RecordAlias(req, FreshSync)
    BY <1>3 DEF Propose
  <2>2. NextRevision \in Nat /\ req.version \in Nat
    BY DEF NextRevision, TablesTyped, Request
  <2>3. /\ Ordered(history', DOMAIN syncs') /\ Ended' = Ended
        /\ DOMAIN syncs \subseteq DOMAIN syncs' /\ FreshSync \in DOMAIN syncs'
        /\ FreshSync \in Syncs
        /\ \A t \in DOMAIN syncs : syncs'[t] = syncs[t]
    BY <2>1, <2>2, HistoryInserts
  <2> HIDE DEF FreshSync
  <2> QED
    BY <1>3, <2>1, <2>3, KeptRecords
<1> QED
  BY <1>1, <1>2, <1>3 DEF Execute

LEMMA KeptFinishes ==
  ASSUME Kept, Inv, NEW s \in Active, NEW outcome \in {"failed", "cancelled"},
         FinishSync(s, outcome)
  PROVE  Kept'
<1> DEFINE row == [syncs[s] EXCEPT !.state = outcome]
<1>1. TablesTyped /\ Single
  BY InvParts
<1>2. row \in Sync /\ row.state \in Outcomes /\ row.config = syncs[s].config
  BY <1>1, ActiveTyped DEF Sync, Outcomes
<1>3. Terminalize(s, row, installed) /\ UNCHANGED <<aliases, claimed>>
  BY DEF FinishSync
<1> HIDE DEF row
<1> QED
  BY <1>1, <1>2, <1>3, KeptTerminalizes

LEMMA KeptRowAdvances ==
  ASSUME Kept, Inv, NEW from \in DOMAIN Reached, At(from), NEW row \in Sync,
         row.state \in Stages, row.config = Row.config,
         syncs' = Store(syncs, task.sync, row), UNCHANGED <<history, aliases, claimed>>
  PROVE  Kept'
<1>1. task.sync \in Active /\ Row = syncs[task.sync]
  BY AtOperation
<1> QED
  BY <1>1, KeptAdvances

LEMMA KeptAdvance ==
  ASSUME Kept, Inv, NEW from \in DOMAIN Reached, At(from), NEW old, NEW to \in Stages,
         NEW commit \in Commits \cup {None}, NEW tree \in Trees \cup {None}, NEW pc,
         Advance(old, to, commit, tree, pc)
  PROVE  Kept'
<1> DEFINE row == [Row EXCEPT !.state = to, !.commit = commit, !.tree = tree]
<1>1. syncs' = Store(syncs, task.sync, row) /\ UNCHANGED <<history, aliases, claimed>>
  BY DEF Advance
<1>2. Row \in Sync
  BY AtOperation
<1>3. row \in Sync /\ row.state \in Stages /\ row.config = Row.config
  BY <1>2 DEF Sync
<1> HIDE DEF row
<1> QED
  BY <1>1, <1>3, KeptRowAdvances

LEMMA KeptWork ==
  ASSUME Kept, Inv, Work
  PROVE  Kept'
<1>1. TablesTyped /\ ProcessTyped /\ Single /\ Confirmed
  BY InvParts
<1>2. CASE Reconcile \/ Pick \/ Stop
  <2>1. CASE UNCHANGED tables
    BY <2>1, KeptStays DEF tables
  <2>2. CASE \E s \in Active : FinishSync(s, "failed") \/ FinishSync(s, "cancelled")
    BY <2>2, KeptFinishes
  <2> QED
    BY <1>2, <2>1, <2>2 DEF Reconcile, Pick, Stop
<1>3. CASE BeginStartup
  <2>1. BeginSync(config) /\ UNCHANGED <<aliases, claimed>>
    BY <1>3 DEF BeginStartup
  <2> QED
    BY <1>1, <2>1, KeptBegins
<1>4. CASE BeginPoll
  <2>1. UNCHANGED <<aliases, claimed>>
    BY <1>4 DEF BeginPoll
  <2>2. CASE BeginSync(task.version)
    BY <1>1, <2>1, <2>2, KeptBegins
  <2>3. CASE UNCHANGED <<syncs, history>>
    BY <2>1, <2>3, KeptStays
  <2> QED
    BY <1>4, <2>2, <2>3 DEF BeginPoll
<1>5. CASE BeginFetch
  <2> DEFINE row == [Row EXCEPT !.state = "fetching"]
  <2>1. /\ At("fetch") /\ syncs' = Store(syncs, task.sync, row)
        /\ UNCHANGED <<history, aliases, claimed>>
    BY <1>5 DEF BeginFetch, Writes
  <2>2. "fetch" \in DOMAIN Reached
    BY ReachedIs
  <2>3. Row \in Sync
    BY <2>1, <2>2, AtOperation
  <2>4. row \in Sync /\ row.state \in Stages /\ row.config = Row.config
    BY <2>3 DEF Sync, Stages
  <2> HIDE DEF row
  <2> QED
    BY <2>1, <2>2, <2>4, KeptRowAdvances
<1>6. CASE Resolve
  <2> DEFINE pc == IF task.known = None THEN "prepare" ELSE IF phase = "starting" THEN "load"
                   ELSE "finish"
  <2>1. At("resolve") /\ Advance("fetching", "resolving_commit", None, None, pc)
    BY <1>6 DEF Resolve, Writes
  <2>2. "resolve" \in DOMAIN Reached /\ "resolving_commit" \in Stages
    BY ReachedIs DEF Stages
  <2> HIDE DEF pc
  <2> QED
    BY <2>1, <2>2, KeptAdvance
<1>7. CASE Prepare \/ Compiling \/ Reload
  <2>1. \E pc \in {"prepare", "compiling", "reload"} : At(pc)
    BY <1>7 DEF Prepare, Compiling, Reload, Writes
  <2>2. {"prepare", "compiling", "reload"} \subseteq DOMAIN Reached
    BY ReachedIs
  <2>3. task \in Task
    BY <2>1, <2>2, AtOperation
  <2>4. task.commit \in Commits \cup {None} /\ task.tree \in Trees \cup {None}
    BY <2>3 DEF Task
  <2>5. {"preparing_candidate", "compiling", "reloading"} \subseteq Stages
    BY DEF Stages
  <2>6. \/ Advance("resolving_commit", "preparing_candidate", task.commit, None, "compiling")
        \/ Advance("preparing_candidate", "compiling", task.commit, None, "compile")
        \/ Advance("compiling", "reloading", task.commit, task.tree, "apply")
    BY <1>7 DEF Prepare, Compiling, Reload
  <2> QED
    BY <2>1, <2>2, <2>4, <2>5, <2>6, KeptAdvance
<1>8. CASE FinishNoChange
  <2> DEFINE row == [Row EXCEPT !.state = "no_change", !.commit = task.commit,
                                !.tree = installed.tree]
             current == [installed EXCEPT !.sync = task.sync]
  <2>1. /\ At("finish") /\ InstalledIs(task.commit)
        /\ Terminalize(task.sync, row, current) /\ UNCHANGED <<aliases, claimed>>
    BY <1>8 DEF FinishNoChange, Writes
  <2>2. "finish" \in DOMAIN Reached
    BY ReachedIs
  <2>3. /\ task \in Task /\ task.sync \in Active /\ Row \in Sync /\ Row = syncs[task.sync]
    BY <2>1, <2>2, AtOperation
  <2>4. installed \in Installation
    BY <1>1, <2>1 DEF InstalledIs, TablesTyped
  <2>5. row \in Sync /\ row.state \in Outcomes /\ row.config = syncs[task.sync].config
    BY <2>3, <2>4 DEF Sync, Outcomes, Task, Installation
  <2> HIDE DEF row, current
  <2> QED
    BY <1>1, <2>1, <2>3, <2>5, KeptTerminalizes
<1>9. CASE ApplyCatalog
  <2> DEFINE row == [Row EXCEPT !.state = "applied"]
             current == [config |-> Row.config, commit |-> task.commit, tree |-> task.tree,
                         sync |-> task.sync]
  <2>1. /\ At("apply") /\ Terminalize(task.sync, row, current) /\ UNCHANGED <<aliases, claimed>>
    BY <1>9 DEF ApplyCatalog, Writes
  <2>2. "apply" \in DOMAIN Reached
    BY ReachedIs
  <2>3. task.sync \in Active /\ Row \in Sync /\ Row = syncs[task.sync]
    BY <2>1, <2>2, AtOperation
  <2>4. row \in Sync /\ row.state \in Outcomes /\ row.config = syncs[task.sync].config
    BY <2>3 DEF Sync, Outcomes
  <2> HIDE DEF row, current
  <2> QED
    BY <1>1, <2>1, <2>3, <2>4, KeptTerminalizes
<1>10. CASE CancelOperation
  <2>1. /\ \E pc \in {"advertise", "download"} : At(pc)
        /\ FinishSync(task.sync, "cancelled")
    BY <1>10 DEF CancelOperation, Writes
  <2>2. task.sync \in Active
    BY <2>1, AtOperation, ReachedIs
  <2> QED
    BY <2>1, <2>2, KeptFinishes
<1>11. CASE Poll \/ Advertise \/ Download \/ LoadInstalled \/ Compile \/ Serve
  BY <1>11, KeptStays DEF Poll, Advertise, Download, LoadInstalled, Compile, Serve, tables
<1> QED
  BY <1>2, <1>3, <1>4, <1>5, <1>6, <1>7, <1>8, <1>9, <1>10, <1>11 DEF Work

LEMMA KeptNext == Kept /\ Inv /\ [Next]_vars => Kept'
<1> SUFFICES ASSUME Kept, Inv, [Next]_vars PROVE Kept'
  OBVIOUS
<1>1. CASE UNCHANGED vars
  BY <1>1, KeptStays DEF vars, tables
<1>2. CASE Work
  BY <1>2, KeptWork
<1>3. CASE PollFires \/ Wake
  BY <1>3, KeptStays DEF PollFires, Wake, tables
<1>4. CASE Operator
  <2>1. TablesTyped /\ ProcessTyped /\ Single /\ Confirmed
    BY InvParts
  <2>2. CASE Answer
    BY <2>1, <2>2, KeptExecutes DEF Answer, ProcessTyped
  <2>3. CASE ExecuteQueued
    BY <2>1, <2>3, KeptExecutes DEF ExecuteQueued, ProcessTyped
  <2>4. CASE UNCHANGED <<syncs, history, aliases, claimed>>
    BY <2>4, KeptStays
  <2> QED
    BY <1>4, <2>2, <2>3, <2>4 DEF Operator, Ask, Abandon, PutConfiguration, tables
<1>5. CASE Environment
  <2>1. CASE OperationFails
    <3>1. /\ \E pc \in {"advertise", "download", "compile", "load", "apply"} : At(pc)
          /\ FinishSync(task.sync, "failed")
      BY <2>1 DEF OperationFails, FailOperation
    <3>2. task.sync \in Active
      BY <3>1, AtOperation, ReachedIs
    <3> QED
      BY <3>1, <3>2, KeptFinishes
  <2>2. CASE UNCHANGED <<syncs, history, aliases, claimed>>
    BY <2>2, KeptStays
  <2> QED
    BY <1>5, <2>1, <2>2 DEF Environment, Push, LoseCandidates, StoreUnavailable, Shutdown,
       Exit, Crash, Start, tables
<1> QED
  BY <1>1, <1>2, <1>3, <1>4, <1>5 DEF Next

LEMMA KeptInit == Init => Kept
<1> SUFFICES ASSUME Init PROVE Kept
  OBVIOUS
<1>1. DOMAIN syncs = {} /\ DOMAIN aliases = {} /\ Ended = {}
  BY DEF Init, Ended
<1>2. Cardinality({}) = 0 /\ IsFiniteSet({})
  BY FS_EmptySet
<1>3. 0 <= RetainedAliases /\ 0 <= RetainedSyncs + RetainedAliases + 1
  BY SourceConstants
<1> QED
  BY <1>1, <1>2, <1>3, KeptParts DEF Answerable, Ordered

(* "A retained retry key returns its original result": however the source   *)
(* is polled, the operation behind an answered key is there and runs what   *)
(* the key asked for; and for any retention limits neither the answered     *)
(* keys nor the ended operations exceed them (store.rs, record_sync_alias   *)
(* and prune_source_sync_history).                                          *)
THEOREM SourceHistoryKept == Spec => []HistoryKept
<1>1. Kept => HistoryKept
  BY DEF Kept
<1>2. Spec => []Kept
  BY KeptInit, KeptNext, SourceInv, PTL DEF Spec
<1> QED
  BY <1>1, <1>2, PTL
=============================================================================
