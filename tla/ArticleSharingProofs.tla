------------------------ MODULE ArticleSharingProofs ------------------------
(***************************************************************************)
(* ArticleSharing never posts an article more often than its Owner had it  *)
(* queued, for any number of articles, attempts, commands, crashes and     *)
(* restores.                                                               *)
(*                                                                         *)
(* The argument is that a queued delivery, and the one the worker carries, *)
(* has room for one more post beside the draft it already knows: posting   *)
(* that draft again adds nothing, and a fresh draft fills the room.        *)
(***************************************************************************)
EXTENDS ArticleSharing, FiniteSetTheorems, TLAPS

Workers == [pc : {"start", "idle", "claim", "create", "publish", "finish"},
            post : Posts \cup {None}, version : Nat, draft : Drafts,
            answer : Answers \cup {"none"}]

Channel == settings \in Channels \cup {None}

Tables ==
  /\ teased \subseteq Posts
  /\ rows \in [Posts -> Rows \cup {None}]
  /\ \A p \in Posts : rows[p] # None => p \in teased

Copied ==
  backup # None =>
    /\ backup.settings \in Channels \cup {None}
    /\ backup.teased \subseteq Posts
    /\ backup.rows \in [Posts -> Rows \cup {None}]
    /\ \A p \in Posts : backup.rows[p] # None => p \in backup.teased

Provider ==
  /\ created \in [Posts -> Nat] /\ allowed \in [Posts -> Nat]
  /\ public \in [Posts -> SUBSET (Nat \ {0})]
  /\ \A p \in Posts : IsFiniteSet(public[p])

(* One more post of p fits beside draft d. *)
Room(p, d) == Cardinality(public[p] \ {d}) < allowed[p]

QueuedHasRoom ==
  \A p \in Posts : rows[p] # None /\ rows[p].state = "queued" => Room(p, rows[p].draft)

Busy == worker.pc \in {"create", "publish", "finish"}

Carried ==
  /\ worker \in Workers
  /\ ~up => worker.pc = "idle"
  /\ worker.pc = "claim" =>
       /\ worker.post \in Posts /\ rows[worker.post] # None
       /\ rows[worker.post].state = "queued" /\ rows[worker.post].draft = worker.draft
       /\ settings \in Channels
  /\ Busy =>
       /\ worker.post \in Posts /\ rows[worker.post] # None
       /\ rows[worker.post].state = "sending"
       /\ worker.draft = NoDraft => rows[worker.post].draft = NoDraft
       /\ settings \in Channels
       /\ Room(worker.post, worker.draft)
  /\ worker.pc = "create" => worker.draft = NoDraft
  /\ worker.pc = "publish" => worker.draft # NoDraft
  /\ worker.pc = "finish" => worker.answer \in Answers

Inv ==
  /\ Channel /\ Tables /\ Copied /\ Provider
  /\ NeverTwiceOnItsOwn /\ QueuedHasRoom /\ Carried

------------------------------------------------------------------------------
(* Taking one element out of a finite set or putting one in. *)
LEMMA OneElement ==
  ASSUME NEW S, IsFiniteSet(S), NEW d
  PROVE  /\ IsFiniteSet(S \cup {d}) /\ IsFiniteSet(S \ {d})
         /\ Cardinality(S) \in Nat /\ Cardinality(S \ {d}) \in Nat
         /\ Cardinality(S \ {d}) <= Cardinality(S)
         /\ Cardinality(S \cup {d}) <= Cardinality(S \ {d}) + 1
<1>1. Cardinality(S) \in Nat
  BY FS_CardinalityType
<1>2. /\ IsFiniteSet(S \ {d})
      /\ Cardinality(S \ {d}) = IF d \in S THEN Cardinality(S) - 1 ELSE Cardinality(S)
  BY FS_RemoveElement
<1>3. /\ IsFiniteSet(S \cup {d})
      /\ Cardinality(S \cup {d}) = IF d \in S THEN Cardinality(S) ELSE Cardinality(S) + 1
  BY FS_AddElement
<1>4. Cardinality(S \ {d}) \in Nat
  BY <1>2, FS_CardinalityType
<1>. QED BY <1>1, <1>2, <1>3, <1>4

LEMMA InitInv == Init => Inv
<1>. SUFFICES ASSUME Init PROVE Inv
  OBVIOUS
<1>1. /\ IsFiniteSet({}) /\ Cardinality({}) = 0
  BY FS_EmptySet
<1>2. Channel /\ Tables /\ Copied
  BY SharingConstants DEF Init, Channel, Tables, Copied
<1>3. Provider
  BY <1>1 DEF Init, Provider
<1>4. NeverTwiceOnItsOwn
  BY <1>1 DEF Init, NeverTwiceOnItsOwn
<1>5. QueuedHasRoom
  BY DEF Init, QueuedHasRoom
<1>6. Carried
  BY DEF Init, Carried, Workers, Idle, Drafts, NoDraft, Busy
<1>. QED BY <1>2, <1>3, <1>4, <1>5, <1>6 DEF Inv

(* Where nothing new is published and the Owner's count does not fall,      *)
(* room stays room.                                                         *)
LEMMA RoomStays ==
  ASSUME Inv, UNCHANGED public, allowed' \in [Posts -> Nat],
         \A q \in Posts : allowed[q] <= allowed'[q]
  PROVE  /\ NeverTwiceOnItsOwn'
         /\ \A p \in Posts, d \in Nat : Room(p, d) => Room(p, d)'
<1>1. \A p \in Posts, d \in Nat :
        Cardinality(public[p]) \in Nat /\ Cardinality(public[p] \ {d}) \in Nat
  BY OneElement DEF Inv, Provider
<1>2. \A p \in Posts : allowed[p] \in Nat /\ allowed'[p] \in Nat
  BY DEF Inv, Provider
<1>3. ASSUME NEW p \in Posts PROVE Cardinality(public'[p]) <= allowed'[p]
  <2>1. Cardinality(public[p]) <= allowed[p]
    BY DEF Inv, NeverTwiceOnItsOwn
  <2>2. Cardinality(public[p]) \in Nat
    BY OneElement DEF Inv, Provider
  <2>. QED BY <1>2, <2>1, <2>2
<1>4. ASSUME NEW p \in Posts, NEW d \in Nat, Room(p, d) PROVE Room(p, d)'
  BY <1>1, <1>2, <1>4 DEF Room
<1>. QED BY <1>3, <1>4 DEF NeverTwiceOnItsOwn

(* A post the Owner has queued once more has room for any draft. *)
LEMMA OrderMakesRoom ==
  ASSUME Inv, UNCHANGED public, NEW p \in Posts, NEW d \in Nat,
         allowed' = [allowed EXCEPT ![p] = @ + 1]
  PROVE  Room(p, d)'
<1>1. /\ Cardinality(public[p]) \in Nat /\ Cardinality(public[p] \ {d}) \in Nat
      /\ Cardinality(public[p] \ {d}) <= Cardinality(public[p])
  BY OneElement DEF Inv, Provider
<1>2. allowed[p] \in Nat /\ allowed'[p] = allowed[p] + 1 /\ Cardinality(public[p]) <= allowed[p]
  BY DEF Inv, Provider, NeverTwiceOnItsOwn
<1>. QED BY <1>1, <1>2 DEF Room

------------------------------------------------------------------------------
(* The types of a row, field by field. *)
LEMMA RowFields ==
  ASSUME Inv, NEW p \in Posts, rows[p] # None
  PROVE  rows[p] \in Rows /\ rows[p].draft \in Nat /\ rows[p].attempts \in Nat
BY DEF Inv, Tables, Rows, Drafts

LEMMA UpdateKeepsInv ==
  ASSUME Inv, NEW mode \in Modes, NEW session \in BOOLEAN, UpdateSubstack(mode, session)
  PROVE  Inv'
<1>. USE DEF UpdateSubstack, tables, remote
<1>1. Channel'
  BY DEF Inv, Channel, Channels
<1>2. Tables' /\ Copied' /\ Provider'
  BY DEF Inv, Tables, Copied, Provider
<1>3. NeverTwiceOnItsOwn' /\ QueuedHasRoom'
  BY DEF Inv, NeverTwiceOnItsOwn, QueuedHasRoom, Room
<1>4. (Busy \/ worker.pc = "claim") => settings' \in Channels
  BY DEF Inv, Carried, Channels
<1>5. Carried'
  BY <1>4 DEF Inv, Carried, Room, Busy
<1>. QED BY <1>1, <1>2, <1>3, <1>5 DEF Inv

(* Queueing p once more, for the Owner, over a row the worker is not at. *)
LEMMA OrderKeepsInv ==
  ASSUME Inv, NEW p \in Posts, NEW d \in Nat,
         rows' = [rows EXCEPT ![p] = [NewRow EXCEPT !.draft = d]],
         allowed' = [allowed EXCEPT ![p] = @ + 1],
         p \in teased', teased \subseteq teased', teased' \subseteq Posts,
         rows[p] # None => rows[p].state = "failed",
         UNCHANGED <<settings, backup, up, worker, created, public>>
  PROVE  Inv'
<1>. DEFINE new == [NewRow EXCEPT !.draft = d]
<1>0. new \in Rows /\ new.state = "queued" /\ new.draft = d
  BY DEF NewRow, Rows, Drafts, NoDraft
<1>1. /\ rows'[p] = new /\ \A q \in Posts \ {p} : rows'[q] = rows[q]
      /\ rows' \in [Posts -> Rows \cup {None}] /\ new # None
  <2>1. rows' = [rows EXCEPT ![p] = new]
    OBVIOUS
  <2>. HIDE DEF new
  <2>. QED BY <1>0, <2>1, SharingConstants DEF Inv, Tables
<1>. HIDE DEF new
<1>2. /\ allowed' \in [Posts -> Nat]
      /\ \A q \in Posts : allowed[q] <= allowed'[q]
  BY DEF Inv, Provider
<1>3. /\ NeverTwiceOnItsOwn'
      /\ \A q \in Posts, e \in Nat : Room(q, e) => Room(q, e)'
  BY <1>2, RoomStays
<1>4. Channel' /\ Copied' /\ Provider'
  BY <1>2 DEF Inv, Channel, Copied, Provider
<1>5. Tables'
  BY <1>1 DEF Inv, Tables
<1>6. QueuedHasRoom'
  <2>1. SUFFICES ASSUME NEW q \in Posts, rows'[q] # None, rows'[q].state = "queued"
                 PROVE  Room(q, rows[q].draft)'
    BY DEF QueuedHasRoom
  <2>2. CASE q = p
    <3>1. Room(p, d)'
      BY OrderMakesRoom
    <3>. QED BY <3>1, <2>2, <1>0, <1>1 DEF Room
  <2>3. CASE q # p
    <3>1. rows'[q] = rows[q] /\ rows[q].draft \in Nat /\ Room(q, rows[q].draft)
      BY <2>1, <2>3, <1>1, RowFields DEF Inv, QueuedHasRoom
    <3>2. Room(q, rows[q].draft) => Cardinality(public'[q] \ {rows[q].draft}) < allowed'[q]
      BY <1>3, <3>1 DEF Room
    <3>. QED BY <3>1, <3>2 DEF Room
  <2>. QED BY <2>2, <2>3
<1>7. Carried'
  <2>1. worker.pc = "claim" \/ Busy => worker.post # p
    BY DEF Inv, Carried
  <2>2. worker.draft \in Nat
    BY DEF Inv, Carried, Workers, Drafts
  <2>3. Busy => Cardinality(public'[worker.post] \ {worker.draft}) < allowed'[worker.post]
    BY <1>3, <2>2 DEF Inv, Carried, Room
  <2>. QED BY <1>1, <2>1, <2>3 DEF Inv, Carried, Busy, Room
<1>. QED BY <1>3, <1>4, <1>5, <1>6, <1>7 DEF Inv

LEMMA ShareKeepsInv ==
  ASSUME Inv, NEW p \in Posts, Share(p)
  PROVE  Inv'
<1>. DEFINE d == IF rows[p] = None THEN NoDraft ELSE rows[p].draft
<1>1. d \in Nat
  BY RowFields DEF NoDraft
<1>2. rows' = [rows EXCEPT ![p] = [NewRow EXCEPT !.draft = d]]
  BY DEF Share, NewRow, Inv, Tables
<1>3. teased' \subseteq Posts /\ p \in teased'
  BY DEF Share, Inv, Tables
<1>4. /\ allowed' = [allowed EXCEPT ![p] = @ + 1] /\ teased \subseteq teased'
      /\ rows[p] # None => rows[p].state = "failed"
      /\ UNCHANGED <<settings, backup, up, worker, created, public>>
  BY DEF Share, remote
<1>. HIDE DEF d
<1>. QED BY <1>1, <1>2, <1>3, <1>4, OrderKeepsInv

LEMMA PublishArticleKeepsInv ==
  ASSUME Inv, NEW p \in Posts, PublishArticle(p)
  PROVE  Inv'
<1>0. teased' = teased \cup {p} /\ UNCHANGED <<settings, backup, up, worker, created, public>>
  BY DEF PublishArticle, remote
<1>1. CASE settings # None /\ settings.mode = "enabled"
  <2>1. rows[p] = None
    BY DEF PublishArticle, Inv, Tables
  <2>2. rows' = [rows EXCEPT ![p] = [NewRow EXCEPT !.draft = 0]]
    BY <1>1 DEF PublishArticle, NewRow, NoDraft
  <2>3. allowed' = [allowed EXCEPT ![p] = @ + 1]
    BY <1>1 DEF PublishArticle
  <2>4. p \in teased' /\ teased \subseteq teased' /\ teased' \subseteq Posts
    BY <1>0 DEF Inv, Tables
  <2>. QED BY <1>0, <2>1, <2>2, <2>3, <2>4, OrderKeepsInv
<1>2. CASE ~(settings # None /\ settings.mode = "enabled")
  <2>1. UNCHANGED <<rows, allowed>>
    BY <1>2 DEF PublishArticle
  <2>. QED BY <1>0, <2>1 DEF Inv, Channel, Tables, Copied, Provider, NeverTwiceOnItsOwn,
                             QueuedHasRoom, Carried, Room, Busy
<1>. QED BY <1>1, <1>2

------------------------------------------------------------------------------
(* The steps of the worker.  Its types follow from the fields a step sets. *)
LEMMA LoadKeepsInv ==
  ASSUME Inv, NEW p \in Posts, Load(p)
  PROVE  Inv'
<1>. USE DEF Load, tables, remote
<1>1. Channel' /\ Tables' /\ Copied' /\ Provider'
  BY DEF Inv, Channel, Tables, Copied, Provider
<1>2. NeverTwiceOnItsOwn' /\ QueuedHasRoom'
  BY DEF Inv, NeverTwiceOnItsOwn, QueuedHasRoom, Room
<1>3. Carried'
  <2>1. rows[p] # None /\ rows[p].state = "queued"
    BY DEF LongestWaiting, IsDue
  <2>2. settings \in Channels /\ settings.version \in Nat
    BY DEF Inv, Channel, Sendable, Channels
  <2>3. rows[p].draft \in Nat
    BY <2>1, RowFields
  <2>4. /\ worker' \in Workers /\ worker'.pc = "claim" /\ worker'.post = p
        /\ worker'.draft = rows[p].draft
    BY <2>2, <2>3 DEF Idle, Workers, Drafts, NoDraft
  <2>. QED BY <2>1, <2>2, <2>4 DEF Inv, Carried, Busy
<1>. QED BY <1>1, <1>2, <1>3 DEF Inv

(* A step of the worker that leaves its row alone and goes idle. *)
LEMMA IdleKeepsInv ==
  ASSUME Inv, worker' \in Workers, worker'.pc \in {"start", "idle"},
         worker'.pc = "start" => up',
         UNCHANGED <<settings, teased, rows, backup, created, public, allowed>>
  PROVE  Inv'
<1>1. Channel' /\ Tables' /\ Copied' /\ Provider'
  BY DEF Inv, Channel, Tables, Copied, Provider
<1>2. NeverTwiceOnItsOwn' /\ QueuedHasRoom'
  BY DEF Inv, NeverTwiceOnItsOwn, QueuedHasRoom, Room
<1>3. Carried'
  BY DEF Carried, Busy
<1>. QED BY <1>1, <1>2, <1>3 DEF Inv

LEMMA IdleTypes == Idle \in Workers /\ Idle.pc = "idle"
BY DEF Idle, Workers, Drafts, NoDraft

LEMMA ClaimKeepsInv ==
  ASSUME Inv, Claim
  PROVE  Inv'
<1>. DEFINE p == worker.post
<1>. USE DEF Claim, remote
<1>1. /\ p \in Posts /\ rows[p] # None /\ rows[p].state = "queued"
      /\ rows[p].draft = worker.draft /\ worker \in Workers /\ up /\ settings \in Channels
  BY DEF Inv, Carried
<1>2. CASE Sendable /\ settings.version = worker.version /\ IsDue(worker.post)
  <2>1. /\ rows' = [rows EXCEPT ![worker.post].state = "sending", ![worker.post].attempts = @ + 1]
        /\ worker' = [worker EXCEPT !.pc = IF worker.draft = NoDraft THEN "create" ELSE "publish"]
        /\ UNCHANGED <<settings, teased, backup, up, created, public, allowed>>
    BY <1>2
  <2>2. /\ rows'[p] \in Rows /\ rows'[p].state = "sending"
        /\ rows'[p].draft = rows[p].draft
        /\ \A q \in Posts \ {p} : rows'[q] = rows[q]
        /\ rows' \in [Posts -> Rows \cup {None}]
    <3>1. rows[p] \in Rows
      BY <1>1, RowFields
    <3>2. rows'[p] = [[rows[p] EXCEPT !.state = "sending"] EXCEPT !.attempts = @ + 1]
      BY <1>1, <2>1 DEF Inv, Tables
    <3>3. rows'[p] \in Rows /\ rows'[p].state = "sending" /\ rows'[p].draft = rows[p].draft
      <4>1. [rows[p] EXCEPT !.state = "sending"] \in Rows
        BY <3>1 DEF Rows
      <4>2. rows[p].attempts + 1 \in Nat
        BY <3>1 DEF Rows
      <4>3. rows'[p] \in Rows
        BY <3>2, <4>1, <4>2 DEF Rows
      <4>. QED BY <3>1, <3>2, <4>3 DEF Rows
    <3>4. /\ DOMAIN rows' = Posts
          /\ \A q \in Posts \ {p} : rows'[q] = rows[q]
      BY <1>1, <2>1 DEF Inv, Tables
    <3>. QED BY <1>1, <2>1, <3>3, <3>4 DEF Inv, Tables
  <2>3. Channel' /\ Copied' /\ Provider' /\ NeverTwiceOnItsOwn'
    BY <2>1 DEF Inv, Channel, Copied, Provider, NeverTwiceOnItsOwn
  <2>4. Tables'
    BY <1>1, <2>1, <2>2 DEF Inv, Tables
  <2>5. QueuedHasRoom'
    BY <1>1, <2>1, <2>2 DEF Inv, QueuedHasRoom, Room
  <2>6. Carried'
    <3>1. /\ worker' \in Workers /\ worker'.post = p /\ worker'.draft = worker.draft
          /\ worker'.pc = IF worker.draft = NoDraft THEN "create" ELSE "publish"
      BY <1>1, <2>1 DEF Workers
    <3>2. Cardinality(public[p] \ {worker.draft}) < allowed[p]
      BY <1>1 DEF Inv, QueuedHasRoom, Room
    <3>. QED BY <1>1, <2>1, <2>2, <3>1, <3>2, SharingConstants DEF Carried, Busy, Room
  <2>. QED BY <2>3, <2>4, <2>5, <2>6 DEF Inv
<1>3. CASE ~(Sendable /\ settings.version = worker.version /\ IsDue(worker.post))
  BY <1>1, <1>3, IdleTypes, IdleKeepsInv
<1>. QED BY <1>2, <1>3

LEMMA CreateKeepsInv ==
  ASSUME Inv, CreateDraft
  PROVE  Inv'
<1>. DEFINE p == worker.post
<1>. USE DEF CreateDraft, tables
<1>1. /\ p \in Posts /\ rows[p] # None /\ rows[p].state = "sending"
      /\ worker.draft = NoDraft /\ rows[p].draft = NoDraft
      /\ worker \in Workers /\ Room(p, NoDraft) /\ up /\ settings \in Channels
  BY DEF Inv, Carried, Busy
<1>2. /\ created[p] \in Nat /\ created' \in [Posts -> Nat]
  BY <1>1 DEF Inv, Provider
<1>3. Channel' /\ Tables' /\ Copied' /\ Provider' /\ NeverTwiceOnItsOwn' /\ QueuedHasRoom'
  BY <1>2 DEF Inv, Channel, Tables, Copied, Provider, NeverTwiceOnItsOwn, QueuedHasRoom, Room
<1>4. \A d \in Nat : Room(p, d)
  <2>1. public[p] \ {NoDraft} = public[p]
    BY <1>1 DEF Inv, Provider, NoDraft
  <2>2. TAKE d \in Nat
  <2>3. /\ Cardinality(public[p]) \in Nat /\ Cardinality(public[p] \ {d}) \in Nat
        /\ Cardinality(public[p] \ {d}) <= Cardinality(public[p])
    BY <1>1, OneElement DEF Inv, Provider
  <2>4. allowed[p] \in Nat /\ Cardinality(public[p]) < allowed[p]
    BY <1>1, <2>1 DEF Inv, Provider, Room
  <2>. QED BY <2>3, <2>4 DEF Room
<1>5. CASE worker' = [worker EXCEPT !.pc = "publish", !.draft = created[worker.post] + 1]
  <2>1. /\ worker' \in Workers /\ worker'.pc = "publish" /\ worker'.post = p
        /\ worker'.draft \in Nat \ {0}
    <3>1. [worker EXCEPT !.pc = "publish"] \in Workers /\ created[p] + 1 \in Nat \ {0}
      BY <1>1, <1>2 DEF Workers
    <3>2. worker' = [[worker EXCEPT !.pc = "publish"] EXCEPT !.draft = created[p] + 1]
      BY <1>5
    <3>3. worker' \in Workers
      BY <3>1, <3>2 DEF Workers, Drafts
    <3>. QED BY <1>1, <3>1, <3>2, <3>3 DEF Workers
  <2>. QED BY <1>1, <1>3, <1>4, <2>1 DEF Inv, Carried, Busy, Room, NoDraft
<1>6. CASE \E answer \in Answers \ {"posted"} : Answered(answer)
  <2>1. /\ worker' \in Workers /\ worker'.pc = "finish" /\ worker'.post = p
        /\ worker'.draft = worker.draft /\ worker'.answer \in Answers
    BY <1>1, <1>6 DEF Workers, Answered
  <2>. QED BY <1>1, <1>3, <1>4, <2>1 DEF Inv, Carried, Busy, Room, NoDraft
<1>. QED BY <1>5, <1>6

(* The draft the worker carries fills the room its delivery has. *)
LEMMA PublishKeepsInv ==
  ASSUME Inv, Publish
  PROVE  Inv'
<1>. DEFINE p == worker.post
            d == worker.draft
<1>1. /\ p \in Posts /\ rows[p] # None /\ rows[p].state = "sending"
      /\ d \in Nat \ {0} /\ worker \in Workers /\ Room(p, d) /\ up /\ settings \in Channels
  <2>1. worker.pc = "publish" /\ up
    BY DEF Publish
  <2>2. worker \in Workers /\ worker.draft # NoDraft
    BY <2>1 DEF Inv, Carried
  <2>3. worker.draft \in Nat \ {0}
    BY <2>2 DEF Workers, Drafts, NoDraft
  <2>. QED BY <2>1, <2>2, <2>3 DEF Inv, Carried, Busy
<1>2. /\ worker' \in Workers /\ worker'.pc = "finish" /\ worker'.post = p /\ worker'.draft = d
      /\ worker'.answer \in Answers
      /\ UNCHANGED <<settings, teased, rows, backup, up, created, allowed>>
  <2>1. \E answer \in Answers : worker' = [worker EXCEPT !.pc = "finish", !.answer = answer]
    BY DEF Publish, Answered, Answers
  <2>2. PICK answer \in Answers : worker' = [worker EXCEPT !.pc = "finish", !.answer = answer]
    BY <2>1
  <2>3. [worker EXCEPT !.pc = "finish"] \in Workers
    BY <1>1 DEF Workers
  <2>4. worker' = [[worker EXCEPT !.pc = "finish"] EXCEPT !.answer = answer]
    BY <2>2
  <2>5. worker' \in Workers
    BY <2>3, <2>4 DEF Workers
  <2>. QED BY <1>1, <2>2, <2>5 DEF Workers, Publish, tables
<1>3. public' = public \/ public' = [public EXCEPT ![p] = @ \cup {d}]
  BY DEF Publish
<1>4. /\ Channel' /\ Tables' /\ Copied'
  BY <1>2 DEF Inv, Channel, Tables, Copied
<1>5. ASSUME NEW q \in Posts, q # p PROVE public'[q] = public[q]
  BY <1>3, <1>5 DEF Inv, Provider
<1>6. /\ public'[p] \in SUBSET (Nat \ {0}) /\ IsFiniteSet(public'[p])
      /\ public'[p] \ {d} = public[p] \ {d}
      /\ Cardinality(public'[p]) <= allowed[p]
  <2>1. /\ IsFiniteSet(public[p] \cup {d})
        /\ Cardinality(public[p] \cup {d}) <= Cardinality(public[p] \ {d}) + 1
        /\ Cardinality(public[p] \ {d}) \in Nat
    BY <1>1, OneElement DEF Inv, Provider
  <2>2. /\ Cardinality(public[p]) <= allowed[p] /\ IsFiniteSet(public[p])
        /\ public[p] \in SUBSET (Nat \ {0}) /\ allowed[p] \in Nat
    BY <1>1 DEF Inv, NeverTwiceOnItsOwn, Provider
  <2>3. CASE public' = public
    BY <2>2, <2>3
  <2>4. CASE public' = [public EXCEPT ![p] = @ \cup {d}]
    <3>1. public'[p] = public[p] \cup {d}
      BY <1>1, <2>4 DEF Inv, Provider
    <3>2. Cardinality(public[p] \cup {d}) \in Nat
      BY <2>1, FS_CardinalityType
    <3>3. Cardinality(public[p] \cup {d}) <= allowed[p]
      BY <1>1, <2>1, <2>2, <3>2 DEF Room
    <3>. QED BY <1>1, <2>1, <2>2, <3>1, <3>3
  <2>. QED BY <1>3, <2>3, <2>4
<1>7. Provider'
  <2>1. DOMAIN public' = Posts /\ public' = [q \in Posts |-> public'[q]]
    BY <1>3 DEF Inv, Provider
  <2>2. ASSUME NEW q \in Posts
        PROVE  public'[q] \in SUBSET (Nat \ {0}) /\ IsFiniteSet(public'[q])
    BY <1>5, <1>6 DEF Inv, Provider
  <2>. QED BY <1>2, <2>1, <2>2 DEF Inv, Provider
<1>8. NeverTwiceOnItsOwn'
  BY <1>2, <1>5, <1>6 DEF Inv, NeverTwiceOnItsOwn
<1>9. QueuedHasRoom'
  <2>. SUFFICES ASSUME NEW q \in Posts, rows[q] # None, rows[q].state = "queued"
                PROVE  Cardinality(public'[q] \ {rows[q].draft}) < allowed[q]
    BY <1>2 DEF QueuedHasRoom, Room
  <2>1. q # p
    BY <1>1
  <2>. QED BY <2>1, <1>5 DEF Inv, QueuedHasRoom, Room
<1>10. Carried'
  <2>1. Cardinality(public'[p] \ {d}) < allowed'[p]
    BY <1>1, <1>2, <1>6 DEF Room
  <2>2. /\ rows'[p] # None /\ rows'[p].state = "sending" /\ d # NoDraft /\ up'
    BY <1>1, <1>2 DEF NoDraft
  <2>. QED BY <1>1, <1>2, <2>1, <2>2 DEF Carried, Busy, Room
<1>. QED BY <1>4, <1>7, <1>8, <1>9, <1>10 DEF Inv

(* What finish leaves of a row, answer by answer: a row queued again knows  *)
(* the draft the worker carried.                                            *)
LEMMA FinishedRow ==
  ASSUME Inv, worker.pc = "finish", worker.answer \in Answers
  PROVE  LET row == Finished(rows[worker.post])
         IN  row \in Rows /\ (row.state = "queued" => row.draft = worker.draft)
<1>. DEFINE old == rows[worker.post]
<1>1. /\ old \in Rows /\ worker \in Workers /\ old.state = "sending"
      /\ worker.draft = NoDraft => old.draft = NoDraft
  BY RowFields DEF Inv, Carried, Busy
<1>2. Kept(old) = worker.draft /\ Kept(old) \in Drafts
  BY <1>1 DEF Kept, Workers
<1>3. old.attempts \in Nat
  BY <1>1 DEF Rows
<1>. DEFINE again == [old EXCEPT !.state = "queued"]
            known == [again EXCEPT !.draft = worker.draft]
            gone  == [old EXCEPT !.state = "failed"]
<1>. HIDE DEF old
<1>4. /\ again \in Rows /\ gone \in Rows /\ gone.state = "failed" /\ again.state = "queued"
      /\ again.attempts = old.attempts
  BY <1>1 DEF Rows
<1>5. known \in Rows /\ known.draft = worker.draft /\ known.attempts = old.attempts
  BY <1>2, <1>4 DEF Rows
<1>. SUFFICES Finished(old) \in Rows
              /\ (Finished(old).state = "queued" => Finished(old).draft = worker.draft)
  BY DEF old
<1>6. CASE worker.answer = "posted"
  <2>1. Finished(old) = [old EXCEPT !.state = "posted"]
    BY <1>6 DEF Finished, Failures
  <2>. QED BY <1>1, <2>1 DEF Rows
<1>7. CASE worker.answer = "retry" /\ old.attempts < MaxAttempts
  <2>1. Finished(old) = [old EXCEPT !.state = "queued", !.waits = TRUE, !.draft = worker.draft]
    BY <1>2, <1>3, <1>7, SharingConstants DEF Finished, Failures
  <2>2. Finished(old) = [known EXCEPT !.waits = TRUE]
    BY <1>1, <2>1 DEF known, again, Rows
  <2>3. Finished(old) \in Rows
    BY <1>5, <2>2 DEF Rows
  <2>. QED BY <1>5, <2>2, <2>3 DEF Rows
<1>8. CASE worker.answer = "retry" /\ old.attempts >= MaxAttempts
  <2>1. Finished(old) = [gone EXCEPT !.failure = "retries_exhausted"]
    BY <1>3, <1>8, SharingConstants DEF Finished, Failures, gone
  <2>. QED BY <1>4, <2>1 DEF Rows, Failures
<1>9. CASE worker.answer = "credentials_rejected"
  <2>. DEFINE n == IF old.attempts > 0 THEN old.attempts - 1 ELSE 0
  <2>1. n \in Nat
    BY <1>3
  <2>2. Finished(old) = [known EXCEPT !.attempts = n]
    BY <1>1, <1>2, <1>9 DEF Finished, Failures, Rows
  <2>. HIDE DEF n
  <2>3. Finished(old) \in Rows
    BY <1>5, <2>1, <2>2 DEF Rows
  <2>. QED BY <1>5, <2>2, <2>3 DEF Rows
<1>10. CASE worker.answer \in Failures
  <2>1. Finished(old) = [gone EXCEPT !.failure = worker.answer]
    BY <1>10 DEF Finished, Failures
  <2>. QED BY <1>4, <1>10, <2>1 DEF Rows
<1>. QED BY <1>3, <1>6, <1>7, <1>8, <1>9, <1>10, SharingConstants DEF Answers, Failures

LEMMA FinishKeepsInv ==
  ASSUME Inv, FinishDelivery
  PROVE  Inv'
<1>. DEFINE p   == worker.post
            new == Finished(rows[p])
<1>1. /\ p \in Posts /\ rows[p] # None /\ worker.pc = "finish" /\ worker \in Workers
      /\ Room(p, worker.draft) /\ settings \in Channels
  BY DEF FinishDelivery, Inv, Carried, Busy
<1>2. /\ rows' = [rows EXCEPT ![p] = new] /\ settings' = Marked /\ worker' = Idle
      /\ UNCHANGED <<teased, backup, up, created, public, allowed>>
  BY DEF FinishDelivery, remote
<1>3. new \in Rows /\ (new.state = "queued" => new.draft = worker.draft)
  <2>1. worker.answer \in Answers
    BY <1>1 DEF FinishDelivery, Inv, Carried
  <2>. QED BY <1>1, <2>1, FinishedRow
<1>. HIDE DEF new
<1>4. /\ rows'[p] = new /\ rows' \in [Posts -> Rows \cup {None}]
      /\ \A q \in Posts \ {p} : rows'[q] = rows[q]
  BY <1>1, <1>2, <1>3 DEF Inv, Tables
<1>5. Channel'
  BY <1>1, <1>2 DEF Channel, Marked, Channels
<1>6. Tables'
  BY <1>1, <1>2, <1>4 DEF Inv, Tables
<1>7. Copied' /\ Provider' /\ NeverTwiceOnItsOwn'
  BY <1>2 DEF Inv, Copied, Provider, NeverTwiceOnItsOwn
<1>8. QueuedHasRoom'
  BY <1>1, <1>2, <1>3, <1>4 DEF Inv, QueuedHasRoom, Room
<1>9. Carried'
  BY <1>2, IdleTypes DEF Carried, Busy
<1>. QED BY <1>5, <1>6, <1>7, <1>8, <1>9 DEF Inv

------------------------------------------------------------------------------
(* Time, the process and the restore: no delivery is queued that was not. *)
LEMMA ElapseKeepsInv ==
  ASSUME Inv, NEW p \in Posts, Elapse(p)
  PROVE  Inv'
<1>1. /\ rows[p] \in Rows /\ rows' = [rows EXCEPT ![p] = [rows[p] EXCEPT !.waits = FALSE]]
      /\ UNCHANGED <<settings, teased, backup, up, worker, created, public, allowed>>
  BY RowFields DEF Elapse, remote, Inv, Tables
<1>2. /\ rows'[p] \in Rows /\ rows'[p].state = rows[p].state /\ rows'[p].draft = rows[p].draft
      /\ rows' \in [Posts -> Rows \cup {None}]
      /\ \A q \in Posts \ {p} : rows'[q] = rows[q]
  BY <1>1 DEF Inv, Tables, Rows
<1>3. Channel' /\ Copied' /\ Provider' /\ NeverTwiceOnItsOwn'
  BY <1>1 DEF Inv, Channel, Copied, Provider, NeverTwiceOnItsOwn
<1>4. rows[p] # None /\ rows'[p] # None
  BY <1>1, <1>2, SharingConstants
<1>5. Tables' /\ QueuedHasRoom'
  BY <1>1, <1>2, <1>4 DEF Inv, Tables, QueuedHasRoom, Room
<1>6. Carried'
  BY <1>1, <1>2, <1>4 DEF Inv, Carried, Busy, Room
<1>. QED BY <1>3, <1>5, <1>6 DEF Inv

(* Failing the rows of some states, none of which the worker is at, only    *)
(* takes rows out of the queue.                                             *)
LEMMA FailedTypes ==
  ASSUME NEW row \in Rows
  PROVE  Fail(row) \in Rows /\ Fail(row).state = "failed"
<1>1. [row EXCEPT !.state = "failed"] \in Rows
  BY DEF Rows
<1>2. Fail(row) = [[row EXCEPT !.state = "failed"] EXCEPT !.failure = "interrupted"]
  BY DEF Fail
<1>. QED BY <1>1, <1>2 DEF Rows, Failures

LEMMA FailInterruptedKeepsInv ==
  ASSUME Inv, FailInterrupted
  PROVE  Inv'
<1>1. /\ worker' = Idle
      /\ UNCHANGED <<settings, teased, backup, up, created, public, allowed>>
  BY DEF FailInterrupted, remote
<1>2. /\ rows' \in [Posts -> Rows \cup {None}]
      /\ \A q \in Posts : /\ rows'[q] # None => rows[q] # None
                          /\ rows'[q] = rows[q] \/ rows'[q].state = "failed"
  BY FailedTypes, SharingConstants DEF FailInterrupted, Inv, Tables
<1>3. Channel' /\ Copied' /\ Provider' /\ NeverTwiceOnItsOwn'
  BY <1>1 DEF Inv, Channel, Copied, Provider, NeverTwiceOnItsOwn
<1>4. Tables'
  BY <1>1, <1>2 DEF Inv, Tables
<1>5. QueuedHasRoom'
  <2>. SUFFICES ASSUME NEW q \in Posts, rows'[q] # None, rows'[q].state = "queued"
                PROVE  Cardinality(public[q] \ {rows'[q].draft}) < allowed[q]
    BY <1>1 DEF QueuedHasRoom, Room
  <2>1. rows'[q] = rows[q]
    BY <1>2
  <2>. QED BY <2>1 DEF Inv, QueuedHasRoom, Room
<1>6. Carried'
  BY <1>1, IdleTypes DEF Carried, Busy
<1>. QED BY <1>3, <1>4, <1>5, <1>6 DEF Inv

LEMMA ProcessKeepsInv ==
  ASSUME Inv, ClaimRefused \/ Start \/ Crash
  PROVE  Inv'
<1>1. [Idle EXCEPT !.pc = "start"] \in Workers /\ [Idle EXCEPT !.pc = "start"].pc = "start"
  BY DEF Idle, Workers, Drafts, NoDraft
<1>. QED BY <1>1, IdleTypes, IdleKeepsInv DEF ClaimRefused, Start, Crash, tables, remote

LEMMA ReplicateKeepsInv ==
  ASSUME Inv, Replicate
  PROVE  Inv'
<1>1. /\ backup' = [settings |-> settings, teased |-> teased, rows |-> rows, line |-> line]
      /\ UNCHANGED <<settings, teased, rows, up, worker, created, public, allowed>>
  BY DEF Replicate, tables, remote
<1>2. Channel' /\ Tables' /\ Provider' /\ NeverTwiceOnItsOwn' /\ QueuedHasRoom' /\ Carried'
  BY <1>1 DEF Inv, Channel, Tables, Provider, NeverTwiceOnItsOwn, QueuedHasRoom, Carried, Room, Busy
<1>3. Copied'
  BY <1>1 DEF Inv, Channel, Tables, Copied
<1>. QED BY <1>2, <1>3 DEF Inv

LEMMA RestoreKeepsInv ==
  ASSUME Inv, AcceptRestore
  PROVE  Inv'
<1>1. /\ ~up /\ backup # None
      /\ settings' = IF backup.settings = None THEN None ELSE [backup.settings EXCEPT !.mode = "paused"]
      /\ teased' = backup.teased /\ rows' = Held(backup.rows)
      /\ UNCHANGED <<backup, up, worker, created, public, allowed>>
  BY DEF AcceptRestore, remote
<1>2. Channel'
  BY <1>1 DEF Inv, Copied, Channel, Channels, Modes
<1>3. /\ rows' \in [Posts -> Rows \cup {None}]
      /\ \A q \in Posts : /\ rows'[q] # None => backup.rows[q] # None
                          /\ rows'[q] # None => rows'[q].state # "queued"
  BY <1>1, FailedTypes, SharingConstants DEF Inv, Copied, Held
<1>4. Tables' /\ Copied'
  BY <1>1, <1>3 DEF Inv, Tables, Copied
<1>7. QueuedHasRoom'
  BY <1>3 DEF QueuedHasRoom
<1>5. Provider' /\ NeverTwiceOnItsOwn'
  BY <1>1 DEF Inv, Provider, NeverTwiceOnItsOwn
<1>6. Carried'
  BY <1>1 DEF Inv, Carried, Busy
<1>. QED BY <1>2, <1>4, <1>5, <1>6, <1>7 DEF Inv

------------------------------------------------------------------------------
LEMMA StepKeepsInv == Inv /\ [Next]_vars => Inv'
<1>. SUFFICES ASSUME Inv, [Next]_vars PROVE Inv'
  OBVIOUS
<1>1. CASE Owner
  BY <1>1, UpdateKeepsInv, ShareKeepsInv, PublishArticleKeepsInv DEF Owner
<1>2. CASE Work
  BY <1>2, FailInterruptedKeepsInv, LoadKeepsInv, ClaimKeepsInv, CreateKeepsInv,
     PublishKeepsInv, FinishKeepsInv DEF Work
<1>3. CASE ClaimRefused \/ Start \/ Crash
  BY <1>3, ProcessKeepsInv
<1>4. CASE \E p \in Posts : Elapse(p)
  BY <1>4, ElapseKeepsInv
<1>5. CASE Replicate
  BY <1>5, ReplicateKeepsInv
<1>6. CASE AcceptRestore
  BY <1>6, RestoreKeepsInv
<1>7. CASE UNCHANGED vars
  BY <1>7 DEF vars, tables, remote, Inv, Channel, Tables, Copied, Provider, NeverTwiceOnItsOwn,
              QueuedHasRoom, Carried, Room, Busy
<1>. QED BY <1>1, <1>2, <1>3, <1>4, <1>5, <1>6, <1>7 DEF Next

(* The recorded deliveries, the copy, the worker and the provider keep     *)
(* their types, and what the worker carries always fits its row.            *)
THEOREM SharingCarries == Spec => [](Tables /\ Carried)
<1>1. Inv => Tables /\ Carried
  BY DEF Inv
<1>. QED BY <1>1, InitInv, StepKeepsInv, PTL DEF Spec

(* However answers are lost, credentials refused, the process stopped and   *)
(* the database restored, an article is posted at most as often as the      *)
(* Owner's commands queued it.                                              *)
THEOREM SharingNeverRepeats == Spec => []NeverTwiceOnItsOwn
<1>1. Inv => NeverTwiceOnItsOwn
  BY DEF Inv
<1>. QED BY <1>1, InitInv, StepKeepsInv, PTL DEF Spec
=============================================================================
