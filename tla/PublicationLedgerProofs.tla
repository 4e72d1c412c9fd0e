------------------------ MODULE PublicationLedgerProofs ------------------------
(***************************************************************************)
(* Proofs about the durable publication ledger, for every set of posts,    *)
(* revisions, routes, releases, operations and digests.                    *)
(***************************************************************************)
EXTENDS PublicationLedger, TLAPS

(* A table of typed rows stays typed when a typed row is put into it. *)
LEMMA PutTyped ==
  ASSUME NEW S, NEW T, NEW table, DOMAIN table \subseteq S, table \in [DOMAIN table -> T],
         NEW key \in S, NEW row \in T
  PROVE  /\ DOMAIN Put(table, key, row) \subseteq S
         /\ Put(table, key, row) \in [DOMAIN Put(table, key, row) -> T]
  BY DEF Put

-----------------------------------------------------------------------------
(* Type correctness needs one fact about rows: an activating release carries *)
(* the digest its site revision will be retained under.                      *)
LEMMA InitTyped == Init => TypeOK /\ RowsRehydrate
  BY DEF Init, Empty, TypeOK, RowsRehydrate, NoHead, Head

(* schedule_publication and begin_publish_now insert well-typed rows. *)
LEMMA ApproveTyped ==
  ASSUME LedgerConstants, TypeOK, RowsRehydrate, Approve
  PROVE  TypeOK' /\ RowsRehydrate'
PROOF
<1>1. PICK r \in Releases, p \in Posts, rev \in Revisions, tree \in Trees, preview \in Previews :
        \/ \E now, at \in Times : SchedulePublication(r, p, rev, tree, preview, head, now, at)
        \/ \E now \in Times, d \in Digests :
             BeginPublishNow(r, p, rev, tree, preview, head, now, d)
  BY DEF Approve
<1>2. CASE \E now, at \in Times : SchedulePublication(r, p, rev, tree, preview, head, now, at)
  <2>1. PICK now \in Times, at \in Times :
          SchedulePublication(r, p, rev, tree, preview, head, now, at)
    BY <1>2
  <2> DEFINE row == [kind |-> "scheduled", post |-> p, rev |-> rev, tree |-> tree,
        preview |-> preview, state |-> "scheduled", version |-> 1, scheduledAt |-> at,
        approvedAt |-> at, activationAt |-> NoTime, candidate |-> NoDigest]
  <2>2. row \in Release
    BY DEF Release, States
  <2>3. releases' = Put(releases, r, row)
    BY <2>1 DEF SchedulePublication
  <2>4. DOMAIN releases' \subseteq Releases /\ releases' \in [DOMAIN releases' -> Release]
    <3> HIDE DEF row
    <3> QED  BY <2>2, <2>3, PutTyped DEF TypeOK
  <2>5. DOMAIN routes' \subseteq Routes /\ routes' \in [DOMAIN routes' -> [post : Posts, rev : Revisions]]
    BY <2>1 DEF SchedulePublication, TypeOK, LedgerConstants, ReserveRoutes
  <2>6. TypeOK'
    BY <2>1, <2>4, <2>5 DEF SchedulePublication, TypeOK
  <2>7. RowsRehydrate'
    BY <2>3 DEF RowsRehydrate, Put, MinimumVersion, NoTime, LedgerConstants
  <2> QED  BY <2>6, <2>7
<1>3. CASE \E now \in Times, d \in Digests : BeginPublishNow(r, p, rev, tree, preview, head, now, d)
  <2>1. PICK now \in Times, d \in Digests :
          BeginPublishNow(r, p, rev, tree, preview, head, now, d)
    BY <1>3
  <2> DEFINE row == [kind |-> "immediate", post |-> p, rev |-> rev, tree |-> tree,
        preview |-> preview, state |-> "activating", version |-> 2, scheduledAt |-> now,
        approvedAt |-> now, activationAt |-> now, candidate |-> d]
  <2>2. row \in Release
    BY DEF Release, States
  <2>3. releases' = Put(releases, r, row)
    BY <2>1 DEF BeginPublishNow
  <2>4. DOMAIN releases' \subseteq Releases /\ releases' \in [DOMAIN releases' -> Release]
    <3> HIDE DEF row
    <3> QED  BY <2>2, <2>3, PutTyped DEF TypeOK
  <2>5. TypeOK'
    BY <2>1, <2>4 DEF BeginPublishNow, TypeOK
  <2>6. RowsRehydrate'
    BY <2>3 DEF RowsRehydrate, Put, MinimumVersion, NoTime, LedgerConstants
  <2> QED  BY <2>5, <2>6
<1> QED  BY <1>1, <1>2, <1>3

(* A row's version stays a number under every transition of the decoder. *)
LEMMA NextVersions == \A n \in Nat : n + 1 \in Nat /\ n + 2 \in Nat
  OBVIOUS

(* Claiming, blocking, retrying and finishing a release keep rows typed. *)
LEMMA ActivateTyped ==
  ASSUME LedgerConstants, TypeOK, RowsRehydrate, Activate
  PROVE  TypeOK' /\ RowsRehydrate'
PROOF
<1>1. PICK r \in DOMAIN releases :
        \/ \E now \in Times, d \in Digests :
             BeginDueActivation(r, releases[r].version, head, now, d)
        \/ \E op \in Operations, now \in Times, d \in Digests :
             BeginRetry(op, r, releases[r].version, head, now, d)
        \/ \E now \in Times : BlockScheduled(r, releases[r].version, now)
        \/ FinishActivation(r, releases[r].version, head, releases[r].candidate)
  BY DEF Activate
<1>2. r \in Releases /\ releases[r] \in Release /\ releases[r].version \in Nat
  BY DEF TypeOK, Release
<1>3. ASSUME NEW now \in Times, NEW d \in Digests,
             ClaimActivation(r, releases[r].version, head, now, d)
      PROVE  /\ releases' \in [DOMAIN releases' -> Release] /\ DOMAIN releases' = DOMAIN releases
             /\ releases[r].state \in {"scheduled", "blocked"} => RowsRehydrate'
  <2> DEFINE row == [releases[r] EXCEPT !.state = "activating", !.version = @ + 1,
                                        !.activationAt = now, !.candidate = d]
  <2>0. row \in Release
    BY <1>2, NextVersions, Zenon DEF Release, States
  <2>1. releases' \in [DOMAIN releases' -> Release] /\ DOMAIN releases' = DOMAIN releases
    <3>1. releases' = Put(releases, r, row)
      BY <1>3 DEF ClaimActivation
    <3> HIDE DEF row
    <3> QED  BY <1>2, <2>0, <3>1, PutTyped DEF TypeOK, Put
  <2>2. ASSUME releases[r].state \in {"scheduled", "blocked"}  PROVE RowsRehydrate'
    BY <1>2, <1>3, <2>2 DEF ClaimActivation, Put, Release, RowsRehydrate, MinimumVersion, NoTime, LedgerConstants
  <2> QED  BY <2>1, <2>2
<1>4. CASE \E now \in Times, d \in Digests :
             BeginDueActivation(r, releases[r].version, head, now, d)
  BY <1>3, <1>4 DEF BeginDueActivation, ClaimActivation, TypeOK, InState
<1>5. CASE \E op \in Operations, now \in Times, d \in Digests :
             BeginRetry(op, r, releases[r].version, head, now, d)
  <2>1. PICK op \in Operations, now \in Times, d \in Digests :
          BeginRetry(op, r, releases[r].version, head, now, d)
    BY <1>5
  <2> DEFINE receipt == [release |-> r, kind |-> "retry", version |-> releases[r].version + 1]
  <2>2. receipt \in Receipt
    BY <1>2 DEF Receipt
  <2>3. receipts' = Put(receipts, op, receipt)
    BY <2>1 DEF BeginRetry
  <2>4. DOMAIN receipts' \subseteq Operations /\ receipts' \in [DOMAIN receipts' -> Receipt]
    <3> HIDE DEF receipt
    <3> QED  BY <2>2, <2>3, PutTyped DEF TypeOK
  <2> QED  BY <1>3, <2>1, <2>4 DEF BeginRetry, ClaimActivation, TypeOK, InState
<1>6. CASE \E now \in Times : BlockScheduled(r, releases[r].version, now)
  <2>1. PICK now \in Times : BlockScheduled(r, releases[r].version, now)
    BY <1>6
  <2> DEFINE row == [releases[r] EXCEPT !.state = "blocked", !.version = @ + 2,
                                        !.activationAt = now]
  <2>0. row \in Release
    BY <1>2, NextVersions, Zenon DEF Release, States
  <2>2. releases' \in [DOMAIN releases' -> Release] /\ DOMAIN releases' = DOMAIN releases
    <3>1. releases' = Put(releases, r, row)
      BY <2>1 DEF BlockScheduled
    <3> HIDE DEF row
    <3> QED  BY <1>2, <2>0, <3>1, PutTyped DEF TypeOK, Put
  <2>3. RowsRehydrate'
    BY <1>2, <2>1 DEF BlockScheduled, Put, Release, RowsRehydrate, MinimumVersion, NoTime, LedgerConstants, InState
  <2> QED  BY <2>1, <2>2, <2>3 DEF BlockScheduled, TypeOK
<1>7. CASE FinishActivation(r, releases[r].version, head, releases[r].candidate)
  <2>1. releases[r].candidate \in Digests
    BY <1>2, <1>7 DEF FinishActivation, RowsRehydrate, InState, Release
  <2>2. DOMAIN releases' = DOMAIN releases
    BY <1>7 DEF FinishActivation
  <2>3. releases' \in [DOMAIN releases' -> Release]
    <3>1. ASSUME NEW s \in DOMAIN releases  PROVE releases'[s] \in Release
      <4>1. releases[s] \in Release
        BY DEF TypeOK
      <4>3. releases[s].version \in Nat
        BY <4>1 DEF Release
      <4>2. releases'[s] \in {releases[s], [releases[s] EXCEPT !.state = "published", !.version = @ + 1],
                              [releases[s] EXCEPT !.state = "superseded", !.version = @ + 1]}
        BY <1>7 DEF FinishActivation
      <4>4. /\ [releases[s] EXCEPT !.state = "published", !.version = @ + 1] \in Release
            /\ [releases[s] EXCEPT !.state = "superseded", !.version = @ + 1] \in Release
        BY <4>1, <4>3, NextVersions, Zenon DEF Release, States
      <4> QED  BY <4>1, <4>2, <4>4
    <3> QED  BY <1>7, <2>2, <3>1 DEF FinishActivation
  <2>4. RowsRehydrate'
    <3>1. ASSUME NEW s \in DOMAIN releases
          PROVE  LET row == releases'[s] IN
                 /\ row.version >= MinimumVersion[row.state]
                 /\ row.activationAt = NoTime => row.state \in {"scheduled", "cancelled"}
                 /\ row.state = "scheduled" => row.activationAt = NoTime
                 /\ row.candidate # NoDigest <=> row.state \in {"activating", "published", "superseded"}
      <4>1. releases[s] \in Release /\ releases[s].version \in Nat
        BY DEF TypeOK, Release
      <4>2. CASE s = r
        <5>1. releases'[s] = [releases[s] EXCEPT !.state = "published", !.version = @ + 1]
          BY <1>7, <4>2 DEF FinishActivation
        <5>2. /\ releases'[s].state = "published" /\ releases'[s].version = releases[s].version + 1
              /\ releases'[s].activationAt = releases[s].activationAt
              /\ releases'[s].candidate = releases[s].candidate
          BY <4>1, <5>1 DEF Release
        <5>3. releases[s].state = "activating"
          BY <1>7, <4>2 DEF FinishActivation, InState
        <5>4. /\ releases[s].version >= 2 /\ releases[s].activationAt # NoTime
              /\ releases[s].candidate # NoDigest
          BY <5>3 DEF RowsRehydrate, MinimumVersion
        <5> QED  BY <4>1, <5>2, <5>4 DEF MinimumVersion
      <4>3. CASE s # r /\ s \in Published(releases[r].post)
        <5>1. releases'[s] = [releases[s] EXCEPT !.state = "superseded", !.version = @ + 1]
          BY <1>7, <4>3 DEF FinishActivation
        <5>2. /\ releases'[s].state = "superseded" /\ releases'[s].version = releases[s].version + 1
              /\ releases'[s].activationAt = releases[s].activationAt
              /\ releases'[s].candidate = releases[s].candidate
          BY <4>1, <5>1 DEF Release
        <5>3. releases[s].state = "published"
          BY <4>3 DEF Published, InState
        <5>4. /\ releases[s].version >= 3 /\ releases[s].activationAt # NoTime
              /\ releases[s].candidate # NoDigest
          BY <5>3 DEF RowsRehydrate, MinimumVersion
        <5> QED  BY <4>1, <5>2, <5>4 DEF MinimumVersion
      <4>4. CASE s # r /\ s \notin Published(releases[r].post)
        BY <1>7, <4>1, <4>4 DEF FinishActivation, RowsRehydrate
      <4> QED  BY <4>2, <4>3, <4>4
    <3> QED  BY <2>2, <3>1 DEF RowsRehydrate
  <2>5. DOMAIN routes' \subseteq Routes /\ routes' \in [DOMAIN routes' -> [post : Posts, rev : Revisions]]
    BY <1>2, <1>7 DEF FinishActivation, TypeOK, LedgerConstants, Release, ClaimRoutes
  <2>6. DOMAIN sites' \subseteq Digests /\ sites' \in [DOMAIN sites' -> Nat] /\ head' \in Head
    <3>1. PICK n \in Nat : n = head.version + 1
      BY DEF TypeOK, Head
    <3>2. sites' = Put(sites, releases[r].candidate, n)
      BY <1>7, <3>1 DEF FinishActivation
    <3>3. DOMAIN sites' = DOMAIN sites \cup {releases[r].candidate}
      BY <3>2 DEF Put
    <3>4. sites' \in [DOMAIN sites \cup {releases[r].candidate} -> Nat]
      BY <3>1, <3>2 DEF Put, TypeOK
    <3> QED  BY <1>7, <2>1, <3>1, <3>3, <3>4 DEF FinishActivation, Head, TypeOK
  <2> QED  BY <1>7, <2>2, <2>3, <2>4, <2>5, <2>6 DEF FinishActivation, TypeOK
<1> QED  BY <1>1, <1>4, <1>5, <1>6, <1>7

(* change_release keeps rows and receipts typed. *)
LEMMA ChangeTyped ==
  ASSUME LedgerConstants, TypeOK, RowsRehydrate, Change
  PROVE  TypeOK' /\ RowsRehydrate'
PROOF
<1>1. PICK op \in Operations, r \in DOMAIN releases :
        \/ \E now, at \in Times : Reschedule(op, r, releases[r].version, now, at)
        \/ Cancel(op, r, releases[r].version)
  BY DEF Change
<1>2. r \in Releases /\ releases[r] \in Release /\ releases[r].version \in Nat
  BY DEF TypeOK, Release
<1>3. PICK kind \in {"reschedule", "cancel"}, state \in {"scheduled", "cancelled"}, at \in Times :
        /\ ChangeRelease(op, r, releases[r].version, kind, state, at)
        /\ releases[r].state \in {"scheduled", "blocked"}
        /\ state = "scheduled" => releases[r].state = "scheduled"
  BY <1>1, <1>2 DEF Reschedule, Cancel, InState, Release
<1> DEFINE receipt == [release |-> r, kind |-> kind, version |-> releases[r].version + 1]
<1>4. receipt \in Receipt
  BY <1>2 DEF Receipt
<1>5. receipts' = Put(receipts, op, receipt)
  BY <1>3 DEF ChangeRelease
<1>6. DOMAIN receipts' \subseteq Operations /\ receipts' \in [DOMAIN receipts' -> Receipt]
  <2> HIDE DEF receipt
  <2> QED  BY <1>4, <1>5, PutTyped DEF TypeOK
<1> DEFINE row == [releases[r] EXCEPT !.state = state, !.version = @ + 1, !.scheduledAt = at]
<1>9. row \in Release
  BY <1>2, NextVersions, Zenon DEF Release, States
<1>7. releases' \in [DOMAIN releases' -> Release] /\ DOMAIN releases' = DOMAIN releases
  <2>1. releases' = Put(releases, r, row)
    BY <1>3 DEF ChangeRelease
  <2> HIDE DEF row
  <2> QED  BY <1>2, <1>9, <2>1, PutTyped DEF TypeOK, Put
<1>8. RowsRehydrate'
  BY <1>2, <1>3 DEF ChangeRelease, Put, Release, RowsRehydrate, MinimumVersion, NoTime
<1> QED  BY <1>3, <1>6, <1>7, <1>8 DEF ChangeRelease, TypeOK

(* Startup and content reloads write posts, sites and the head, typed. *)
LEMMA IndexTyped ==
  ASSUME LedgerConstants, TypeOK, RowsRehydrate, Index
  PROVE  TypeOK' /\ RowsRehydrate'
PROOF
<1>1. PICK tree \in Trees :
        \/ IndexContentCatalog(PostsOf[tree])
        \/ \E d \in Digests : InstallStartup(head, d, PostsOf[tree])
  BY DEF Index
<1>2. PostsOf[tree] \in SUBSET (Posts \X Revisions)
  BY DEF LedgerConstants
<1>3. CASE IndexContentCatalog(PostsOf[tree])
  BY <1>2, <1>3 DEF IndexContentCatalog, TypeOK, RowsRehydrate
<1>4. CASE \E d \in Digests : InstallStartup(head, d, PostsOf[tree])
  BY <1>2, <1>4 DEF InstallStartup, TypeOK, RowsRehydrate, Head, Put
<1> QED  BY <1>1, <1>3, <1>4

(* Type correctness, and every row a restart reads back is one the typed    *)
(* decoder accepts, whatever the commands carry.                            *)
LEMMA LedgerTyped == Spec => [](TypeOK /\ RowsRehydrate)
PROOF
<1>1. LedgerConstants /\ TypeOK /\ RowsRehydrate /\ [Next]_ledgerVars => (TypeOK /\ RowsRehydrate)'
  <2>1. CASE UNCHANGED ledgerVars
    BY <2>1 DEF ledgerVars, TypeOK, RowsRehydrate
  <2> QED  BY <2>1, ApproveTyped, ActivateTyped, ChangeTyped, IndexTyped DEF Next
<1> QED  BY <1>1, InitTyped, LedgerConstants, PTL DEF Spec

(* Every table the ledger ever stores is well typed. *)
THEOREM LedgerTypeOK == Spec => []TypeOK
PROOF
<1>1. TypeOK /\ RowsRehydrate => TypeOK
  OBVIOUS
<1> QED  BY <1>1, LedgerTyped, PTL

(* Every row a restart reads back is one the typed decoder accepts. *)
THEOREM LedgerRehydrates == Spec => []RowsRehydrate
PROOF
<1>1. TypeOK /\ RowsRehydrate => RowsRehydrate
  OBVIOUS
<1> QED  BY <1>1, LedgerTyped, PTL

-----------------------------------------------------------------------------
(* The inductive invariant.  A release becomes public only in a transaction *)
(* that names the durable head and retains a site revision under a fresh    *)
(* digest, so successes are totally ordered by site version and the last    *)
(* one of a post is its only current one; a revision stays used because     *)
(* every approval checks it against all rows that are not cancelled.        *)
IInv == TypeOK /\ RowsRehydrate /\ Approvals /\ History /\ Promises

(* A fresh database satisfies the invariant. *)
LEMMA InitIInv == Init => IInv
PROOF
<1> SUFFICES ASSUME Init  PROVE IInv
  OBVIOUS
<1>1. TypeOK /\ RowsRehydrate
  BY InitTyped
<1>2. DOMAIN releases = {} /\ DOMAIN sites = {} /\ DOMAIN receipts = {} /\ head = NoHead
  BY DEF Init, Empty
<1>3. Approvals /\ Promises
  BY <1>2 DEF Approvals, Promises, OneActivation, OnePendingPerPost, RevisionUsedOnce, RoutesReserved,
     ReceiptsHold, InState, Pending
<1>4. History
  BY <1>2 DEF History, HistoryLoadable, HeadIsLatest, Successful, Published, InState, OfPost
<1> QED  BY <1>1, <1>3, <1>4 DEF IInv

(* Every transaction but FinishActivation writes at most one row of          *)
(* canonical_publications, and never one that is or was public.              *)
Live == {"scheduled", "activating", "blocked"}

WritesRow(r, row) ==
  /\ releases' = Put(releases, r, row)
  /\ row.state \in Live \cup {"cancelled"}
  /\ r \in DOMAIN releases => /\ releases[r].state \in {"scheduled", "blocked"}
                              /\ row.post = releases[r].post /\ row.rev = releases[r].rev
                              /\ row.version > releases[r].version
  /\ r \notin DOMAIN releases => /\ Pending \cap OfPost(row.post) = {}
                                 /\ RevisionFree(row.post, row.rev)
  /\ row.state = "activating" => InState({"activating"}) \ {r} = {}
  /\ head # NoHead

(* Writing a row that is not public respects the limits on approvals: the *)
(* checks of its transaction are what keeps two approvals apart.          *)
LEMMA WriteKeepsApprovals ==
  ASSUME TypeOK, Approvals, NEW r, NEW row, WritesRow(r, row)
  PROVE  Approvals'
PROOF
<1>1. DOMAIN releases' = DOMAIN releases \cup {r} /\ releases'[r] = row
      /\ \A s \in DOMAIN releases : s # r => releases'[s] = releases[s]
  BY DEF WritesRow, Put
<1>2. OneActivation'
  BY <1>1 DEF WritesRow, Approvals, OneActivation, InState
<1>3. OnePendingPerPost'
  BY <1>1 DEF WritesRow, Approvals, OnePendingPerPost, InState, Pending, OfPost
<1>4. RevisionUsedOnce'
  BY <1>1 DEF WritesRow, Approvals, RevisionUsedOnce, RevisionFree, OfPost
<1> QED  BY <1>2, <1>3, <1>4 DEF Approvals

(* Writing a row that is not public leaves the public history as it was. *)
LEMMA WriteKeepsHistory ==
  ASSUME TypeOK, History, NEW r, NEW row, WritesRow(r, row), UNCHANGED <<sites, head>>
  PROVE  History'
PROOF
<1>1. DOMAIN releases' = DOMAIN releases \cup {r} /\ releases'[r] = row
      /\ \A s \in DOMAIN releases : s # r => releases'[s] = releases[s]
  BY DEF WritesRow, Put
<1>2. Successful' = Successful /\ \A p : Published(p)' = Published(p)
  BY <1>1 DEF WritesRow, Successful, Published, InState, OfPost, Live
<1>3. \A s \in Successful : releases'[s] = releases[s] /\ s \in DOMAIN releases
  BY <1>1 DEF WritesRow, Successful, InState
<1>4. \A p : (Successful \cap OfPost(p))' = Successful \cap OfPost(p)
  BY <1>1, <1>2, <1>3 DEF OfPost, Successful, InState
<1>5. \A s \in Successful : SiteVersion(s)' = SiteVersion(s)
  BY <1>3 DEF SiteVersion
<1>6. \A p : Published(p) \subseteq Successful
  BY DEF Published, Successful, InState
<1>7. HistoryLoadable'
  BY <1>2, <1>3, <1>4, <1>5, <1>6 DEF History, HistoryLoadable
<1>8. HeadIsLatest'
  BY DEF History, HeadIsLatest, WritesRow
<1> QED  BY <1>7, <1>8 DEF History

(* Every transaction keeps the owner of a claimed route. *)
KeepsRoutes ==
  \A t \in DOMAIN routes : t \in DOMAIN routes' /\ routes'[t].post = routes[t].post

(* A row that owns its routes can be written, since routes are never lost. *)
LEMMA WriteKeepsRoutes ==
  ASSUME TypeOK, Promises, NEW r, NEW row, WritesRow(r, row), KeepsRoutes,
         row.state = "scheduled" => \A t \in RoutesOf[<<row.post, row.rev>>] :
                                       t \in DOMAIN routes' /\ routes'[t].post = row.post,
         row.state = "blocked" => r \in DOMAIN releases
  PROVE  RoutesReserved'
PROOF
<1>1. DOMAIN releases' = DOMAIN releases \cup {r} /\ releases'[r] = row
      /\ \A s \in DOMAIN releases : s # r => releases'[s] = releases[s]
  BY DEF WritesRow, Put
<1>2. ASSUME NEW s \in InState({"scheduled", "blocked", "published"})',
             NEW t \in RoutesOf[<<releases'[s].post, releases'[s].rev>>]
      PROVE  t \in DOMAIN routes' /\ routes'[t].post = releases'[s].post
  <2>1. CASE s # r
    <3>1. s \in InState({"scheduled", "blocked", "published"}) /\ releases'[s] = releases[s]
      BY <1>1, <1>2, <2>1 DEF InState
    <3> QED  BY <1>2, <3>1 DEF Promises, RoutesReserved, KeepsRoutes
  <2>2. CASE s = r
    <3>1. CASE row.state = "scheduled"
      BY <1>1, <1>2, <2>2, <3>1
    <3>2. CASE row.state # "scheduled"
      <4>1. r \in InState({"scheduled", "blocked", "published"})
            /\ row.post = releases[r].post /\ row.rev = releases[r].rev
        BY <1>1, <1>2, <2>2, <3>2 DEF WritesRow, InState, Live
      <4> QED  BY <1>1, <1>2, <2>2, <4>1 DEF Promises, RoutesReserved, KeepsRoutes
    <3> QED  BY <3>1, <3>2
  <2> QED  BY <2>1, <2>2
<1> QED  BY <1>2 DEF RoutesReserved

(* Receipts stay true of a row that keeps moving, for cancelled rows do not. *)
LEMMA WriteKeepsReceipts ==
  ASSUME TypeOK, Promises, NEW r, NEW row, WritesRow(r, row), row.version \in Nat,
         UNCHANGED receipts
  PROVE  ReceiptsHold'
PROOF
<1>1. DOMAIN releases' = DOMAIN releases \cup {r} /\ releases'[r] = row
      /\ \A s \in DOMAIN releases : s # r => releases'[s] = releases[s]
  BY DEF WritesRow, Put
<1>2. ASSUME NEW op \in DOMAIN receipts
      PROVE  LET now == releases'[receipts[op].release] IN
             /\ receipts[op].release \in DOMAIN releases'
             /\ receipts[op].version <= now.version
             /\ receipts[op].kind = "cancel" =>
                  now.state = "cancelled" /\ now.version = receipts[op].version
             /\ receipts[op].kind = "retry" => now.state \in {"activating", "published", "superseded"}
  <2>1. /\ receipts[op].release \in DOMAIN releases
        /\ receipts[op].version <= releases[receipts[op].release].version
        /\ receipts[op].kind = "cancel" =>
             /\ releases[receipts[op].release].state = "cancelled"
             /\ releases[receipts[op].release].version = receipts[op].version
        /\ receipts[op].kind = "retry" =>
             releases[receipts[op].release].state \in {"activating", "published", "superseded"}
    BY DEF Promises, ReceiptsHold
  <2>2. receipts[op].version \in Nat
    BY DEF TypeOK, Receipt
  <2>3. CASE receipts[op].release # r
    BY <1>1, <2>1, <2>3
  <2>4. CASE receipts[op].release = r
    <3>1. releases[r].version \in Nat
      BY <2>1, <2>4 DEF TypeOK, Release
    <3> QED  BY <1>1, <2>1, <2>2, <2>4, <3>1 DEF WritesRow
  <2> QED  BY <2>3, <2>4
<1> QED  BY <1>2 DEF ReceiptsHold

(* The receipt of the operation that wrote the row. *)
LEMMA WriteAddsReceipt ==
  ASSUME TypeOK, Promises, NEW r, NEW row, WritesRow(r, row), row.version \in Nat,
         NEW op, op \notin DOMAIN receipts, NEW kind,
         receipts' = Put(receipts, op, [release |-> r, kind |-> kind, version |-> row.version]),
         kind = "cancel" => row.state = "cancelled",
         kind = "retry" => row.state = "activating"
  PROVE  ReceiptsHold'
PROOF
<1>1. DOMAIN releases' = DOMAIN releases \cup {r} /\ releases'[r] = row
      /\ \A s \in DOMAIN releases : s # r => releases'[s] = releases[s]
  BY DEF WritesRow, Put
<1> DEFINE receipt == [release |-> r, kind |-> kind, version |-> row.version]
<1>2. /\ DOMAIN receipts' = DOMAIN receipts \cup {op} /\ receipts'[op] = receipt
      /\ \A o \in DOMAIN receipts : receipts'[o] = receipts[o]
  BY DEF Put
<1>3. /\ receipts'[op].release = r /\ receipts'[op].kind = kind
      /\ receipts'[op].version = row.version
  BY <1>2
<1>4. ASSUME NEW o \in DOMAIN receipts'
      PROVE  LET now == releases'[receipts'[o].release] IN
             /\ receipts'[o].release \in DOMAIN releases'
             /\ receipts'[o].version <= now.version
             /\ receipts'[o].kind = "cancel" =>
                  now.state = "cancelled" /\ now.version = receipts'[o].version
             /\ receipts'[o].kind = "retry" => now.state \in {"activating", "published", "superseded"}
  <2>1. CASE o = op
    BY <1>1, <1>3, <2>1
  <2>2. CASE o # op
    <3>1. o \in DOMAIN receipts /\ receipts'[o] = receipts[o]
      BY <1>2, <2>2
    <3>2. /\ receipts[o].release \in DOMAIN releases
          /\ receipts[o].version <= releases[receipts[o].release].version
          /\ receipts[o].kind = "cancel" =>
               /\ releases[receipts[o].release].state = "cancelled"
               /\ releases[receipts[o].release].version = receipts[o].version
          /\ receipts[o].kind = "retry" =>
               releases[receipts[o].release].state \in {"activating", "published", "superseded"}
      BY <3>1 DEF Promises, ReceiptsHold
    <3>3. receipts[o].version \in Nat
      BY <3>1 DEF TypeOK, Receipt
    <3>4. CASE receipts[o].release # r
      BY <1>1, <3>1, <3>2, <3>4
    <3>5. CASE receipts[o].release = r
      <4>1. releases[r].version \in Nat
        BY <3>2, <3>5 DEF TypeOK, Release
      <4> QED  BY <1>1, <3>1, <3>2, <3>3, <3>5, <4>1 DEF WritesRow
    <3> QED  BY <3>4, <3>5
  <2> QED  BY <2>1, <2>2
<1> QED  BY <1>4 DEF ReceiptsHold

(* Approvals keep the invariant. *)
LEMMA ApproveSafe ==
  ASSUME LedgerConstants, IInv, Approve
  PROVE  Approvals' /\ History' /\ Promises' /\ KeepsRoutes
PROOF
<1>1. PICK r \in Releases, p \in Posts, rev \in Revisions, tree \in Trees, preview \in Previews :
        \/ \E now, at \in Times : SchedulePublication(r, p, rev, tree, preview, head, now, at)
        \/ \E now \in Times, d \in Digests :
             BeginPublishNow(r, p, rev, tree, preview, head, now, d)
  BY DEF Approve
<1>2. CASE \E now, at \in Times : SchedulePublication(r, p, rev, tree, preview, head, now, at)
  <2>1. PICK now \in Times, at \in Times :
          SchedulePublication(r, p, rev, tree, preview, head, now, at)
    BY <1>2
  <2> DEFINE row == [kind |-> "scheduled", post |-> p, rev |-> rev, tree |-> tree,
        preview |-> preview, state |-> "scheduled", version |-> 1, scheduledAt |-> at,
        approvedAt |-> at, activationAt |-> NoTime, candidate |-> NoDigest]
  <2>2. row.state = "scheduled" /\ row.post = p /\ row.rev = rev /\ row.version = 1
    OBVIOUS
  <2>3. releases' = Put(releases, r, row) /\ UNCHANGED <<sites, head, receipts>>
    BY <2>1 DEF SchedulePublication
  <2>4. KeepsRoutes /\ \A t \in RoutesOf[<<p, rev>>] : t \in DOMAIN routes' /\ routes'[t].post = p
    BY <2>1 DEF SchedulePublication, KeepsRoutes, RoutesAvailable, ReserveRoutes
  <2> HIDE DEF row
  <2>5. WritesRow(r, row)
    BY <2>1, <2>2, <2>3 DEF SchedulePublication, WritesRow, Live
  <2> QED  BY <2>2, <2>3, <2>4, <2>5, WriteKeepsApprovals, WriteKeepsHistory, WriteKeepsRoutes,
              WriteKeepsReceipts DEF IInv, Promises
<1>3. CASE \E now \in Times, d \in Digests : BeginPublishNow(r, p, rev, tree, preview, head, now, d)
  <2>1. PICK now \in Times, d \in Digests :
          BeginPublishNow(r, p, rev, tree, preview, head, now, d)
    BY <1>3
  <2> DEFINE row == [kind |-> "immediate", post |-> p, rev |-> rev, tree |-> tree,
        preview |-> preview, state |-> "activating", version |-> 2, scheduledAt |-> now,
        approvedAt |-> now, activationAt |-> now, candidate |-> d]
  <2>2. row.state = "activating" /\ row.post = p /\ row.rev = rev /\ row.version = 2
    OBVIOUS
  <2>3. releases' = Put(releases, r, row) /\ UNCHANGED <<routes, sites, head, receipts>>
    BY <2>1 DEF BeginPublishNow
  <2>4. KeepsRoutes
    BY <2>3 DEF KeepsRoutes
  <2> HIDE DEF row
  <2>5. WritesRow(r, row)
    BY <2>1, <2>2, <2>3 DEF BeginPublishNow, WritesRow, Live
  <2>6. Approvals' /\ History'
    BY <2>3, <2>5, WriteKeepsApprovals, WriteKeepsHistory DEF IInv
  <2>7. RoutesReserved'
    BY <2>2, <2>4, <2>5, WriteKeepsRoutes DEF IInv
  <2>8. ReceiptsHold'
    BY <2>2, <2>3, <2>5, WriteKeepsReceipts DEF IInv
  <2> QED  BY <2>4, <2>6, <2>7, <2>8 DEF Promises
<1> QED  BY <1>1, <1>2, <1>3

(* Reschedule and cancel keep the invariant. *)
LEMMA ChangeSafe ==
  ASSUME LedgerConstants, IInv, Change
  PROVE  Approvals' /\ History' /\ Promises' /\ KeepsRoutes
PROOF
<1>1. PICK op \in Operations, r \in DOMAIN releases :
        \/ \E now, at \in Times : Reschedule(op, r, releases[r].version, now, at)
        \/ Cancel(op, r, releases[r].version)
  BY DEF Change
<1>2. releases[r] \in Release /\ releases[r].version \in Nat
  BY DEF IInv, TypeOK, Release
<1>3. PICK kind \in {"reschedule", "cancel"}, state \in {"scheduled", "cancelled"}, at \in Times :
        /\ ChangeRelease(op, r, releases[r].version, kind, state, at)
        /\ releases[r].state \in {"scheduled", "blocked"}
        /\ state = "scheduled" => releases[r].state = "scheduled"
        /\ kind = "cancel" => state = "cancelled"
  BY <1>1, <1>2 DEF Reschedule, Cancel, InState, Release
<1> DEFINE row == [releases[r] EXCEPT !.state = state, !.version = @ + 1, !.scheduledAt = at]
<1>4. /\ row.state = state /\ row.version = releases[r].version + 1
      /\ row.post = releases[r].post /\ row.rev = releases[r].rev
  BY <1>2 DEF Release
<1>5. releases' = Put(releases, r, row) /\ UNCHANGED <<routes, sites, head>>
  BY <1>3 DEF ChangeRelease
<1>6. receipts' = Put(receipts, op, [release |-> r, kind |-> kind, version |-> row.version])
      /\ op \notin DOMAIN receipts
  BY <1>3, <1>4 DEF ChangeRelease
<1> HIDE DEF row
<1>7. WritesRow(r, row) /\ row.version \in Nat /\ KeepsRoutes
  BY <1>2, <1>3, <1>4, <1>5 DEF WritesRow, Live, IInv, History, HeadIsLatest, KeepsRoutes
<1>8. row.state = "scheduled" => \A t \in RoutesOf[<<row.post, row.rev>>] :
                                   t \in DOMAIN routes' /\ routes'[t].post = row.post
  BY <1>3, <1>4, <1>5 DEF IInv, Promises, RoutesReserved, InState
<1>9. Approvals' /\ History' /\ RoutesReserved'
  BY <1>3, <1>4, <1>5, <1>7, <1>8, WriteKeepsApprovals, WriteKeepsHistory, WriteKeepsRoutes DEF IInv
<1>10. ReceiptsHold'
  BY <1>3, <1>4, <1>6, <1>7, WriteAddsReceipt DEF IInv
<1> QED  BY <1>7, <1>9, <1>10 DEF Promises

(* Startup and content reloads keep the invariant. *)
LEMMA IndexSafe ==
  ASSUME LedgerConstants, IInv, Index
  PROVE  Approvals' /\ History' /\ Promises' /\ KeepsRoutes
PROOF
<1>1. PICK tree \in Trees :
        \/ IndexContentCatalog(PostsOf[tree])
        \/ \E d \in Digests : InstallStartup(head, d, PostsOf[tree])
  BY DEF Index
<1>2. UNCHANGED <<releases, routes, receipts>>
  BY <1>1 DEF IndexContentCatalog, InstallStartup
<1>3. Approvals' /\ Promises' /\ KeepsRoutes
  BY <1>2 DEF IInv, Approvals, Promises, OneActivation, OnePendingPerPost, RevisionUsedOnce,
     RoutesReserved, ReceiptsHold, InState, Pending, KeepsRoutes
<1>4. CASE UNCHANGED <<sites, head>>
  <2>1. HistoryLoadable'
    BY <1>2, <1>4 DEF IInv, History, HistoryLoadable, Successful, Published, InState, OfPost,
       SiteVersion
  <2>2. HeadIsLatest'
    BY <1>2, <1>4 DEF IInv, History, HeadIsLatest
  <2> QED  BY <1>3, <2>1, <2>2 DEF History
<1>5. CASE ~UNCHANGED <<sites, head>>
  <2>1. PICK d \in Digests : InstallStartup(head, d, PostsOf[tree])
    BY <1>1, <1>5 DEF IndexContentCatalog
  <2>2. /\ head' = [digest |-> d, version |-> head.version + 1]
        /\ sites' = IF d \in DOMAIN sites THEN sites ELSE Put(sites, d, head.version + 1)
    BY <1>5, <2>1 DEF InstallStartup
  <2>3. /\ \A x \in DOMAIN sites : x \in DOMAIN sites' /\ sites'[x] = sites[x] /\ sites[x] \in Nat
        /\ DOMAIN sites' = DOMAIN sites \cup {d}
        /\ d \notin DOMAIN sites => sites'[d] = head.version + 1
    BY <2>2 DEF Put, IInv, TypeOK
  <2>4. head.version \in Nat
    BY DEF IInv, TypeOK, Head
  <2>5. Successful' = Successful /\ \A p : Published(p)' = Published(p) /\ OfPost(p)' = OfPost(p)
    BY <1>2 DEF Successful, Published, InState, OfPost
  <2>6. \A s \in Successful : SiteVersion(s)' = SiteVersion(s) /\ s \in DOMAIN releases
                              /\ releases[s].candidate \in DOMAIN sites
    BY <1>2, <2>3 DEF SiteVersion, IInv, History, HistoryLoadable, Successful, InState
  <2>7. \A p : Published(p) \subseteq Successful
    BY DEF Published, Successful, InState
  <2>8. HistoryLoadable'
    BY <1>2, <2>3, <2>5, <2>6, <2>7 DEF IInv, History, HistoryLoadable
  <2>9. HeadIsLatest'
    <3>1. head' # NoHead
      <4>1. head'.digest = d /\ NoHead.digest = NoDigest
        BY <2>2 DEF NoHead
      <4> QED  BY <4>1 DEF LedgerConstants
    <3>2. head'.digest = d /\ head'.version = head.version + 1
      BY <2>2
    <3> QED  BY <2>3, <2>4, <3>1, <3>2 DEF IInv, History, HeadIsLatest
  <2> QED  BY <1>3, <2>8, <2>9 DEF History
<1> QED  BY <1>3, <1>4, <1>5

(* FinishActivation, field by field: one release becomes public, the current *)
(* one of the same post is superseded, nothing else moves.                   *)
Finished(r) ==
  /\ r \in DOMAIN releases /\ releases[r].state = "activating"
  /\ DOMAIN releases' = DOMAIN releases
  /\ \A s \in DOMAIN releases :
       /\ releases'[s].post = releases[s].post /\ releases'[s].rev = releases[s].rev
       /\ releases'[s].candidate = releases[s].candidate
       /\ releases'[s].activationAt = releases[s].activationAt
       /\ releases[s].version \in Nat /\ releases'[s].version \in Nat
       /\ releases'[s].version >= releases[s].version
       /\ s = r => releases'[s].state = "published"
       /\ s # r /\ releases[s].post = releases[r].post /\ releases[s].state = "published"
            => releases'[s].state = "superseded"
       /\ s # r /\ ~(releases[s].post = releases[r].post /\ releases[s].state = "published")
            => releases'[s].state = releases[s].state /\ releases'[s].version = releases[s].version
  /\ releases[r].candidate \notin DOMAIN sites
  /\ DOMAIN sites' = DOMAIN sites \cup {releases[r].candidate}
  /\ \A d \in DOMAIN sites : sites'[d] = sites[d] /\ sites[d] \in Nat
  /\ sites'[releases[r].candidate] = head.version + 1
  /\ head'.digest = releases[r].candidate /\ head'.version = head.version + 1
  /\ head.version \in Nat /\ head' # NoHead
  /\ receipts' = receipts

(* finish_activation does to rows, sites and the head what Finished says. *)
LEMMA FinishRows ==
  ASSUME LedgerConstants, TypeOK, RowsRehydrate, NEW r \in DOMAIN releases,
         FinishActivation(r, releases[r].version, head, releases[r].candidate)
  PROVE  Finished(r)
PROOF
<1>1. releases[r].state = "activating" /\ DOMAIN releases' = DOMAIN releases /\ receipts' = receipts
  BY DEF FinishActivation, InState
<1>2. ASSUME NEW s \in DOMAIN releases
      PROVE  /\ releases'[s].post = releases[s].post /\ releases'[s].rev = releases[s].rev
             /\ releases'[s].candidate = releases[s].candidate
             /\ releases'[s].activationAt = releases[s].activationAt
             /\ releases[s].version \in Nat /\ releases'[s].version \in Nat
             /\ releases'[s].version >= releases[s].version
             /\ s = r => releases'[s].state = "published"
             /\ s # r /\ releases[s].post = releases[r].post /\ releases[s].state = "published"
                  => releases'[s].state = "superseded"
             /\ s # r /\ ~(releases[s].post = releases[r].post /\ releases[s].state = "published")
                  => releases'[s].state = releases[s].state /\ releases'[s].version = releases[s].version
  <2>1. releases[s] \in Release /\ releases[s].version \in Nat
    BY DEF TypeOK, Release
  <2>2. CASE s = r
    <3>1. releases'[s] = [releases[s] EXCEPT !.state = "published", !.version = @ + 1]
      BY <2>2 DEF FinishActivation
    <3>2. /\ releases'[s].post = releases[s].post /\ releases'[s].rev = releases[s].rev
          /\ releases'[s].candidate = releases[s].candidate
          /\ releases'[s].activationAt = releases[s].activationAt
          /\ releases'[s].version = releases[s].version + 1
          /\ releases'[s].state = "published"
      BY <2>1, <3>1 DEF Release
    <3> QED  BY <2>1, <2>2, <3>2
  <2>3. CASE s # r /\ releases[s].post = releases[r].post /\ releases[s].state = "published"
    <3>1. releases'[s] = [releases[s] EXCEPT !.state = "superseded", !.version = @ + 1]
      BY <2>3 DEF FinishActivation, Published, InState, OfPost
    <3>2. /\ releases'[s].post = releases[s].post /\ releases'[s].rev = releases[s].rev
          /\ releases'[s].candidate = releases[s].candidate
          /\ releases'[s].activationAt = releases[s].activationAt
          /\ releases'[s].version = releases[s].version + 1
          /\ releases'[s].state = "superseded"
      BY <2>1, <3>1 DEF Release
    <3> QED  BY <2>1, <2>3, <3>2
  <2>4. CASE s # r /\ ~(releases[s].post = releases[r].post /\ releases[s].state = "published")
    <3>1. releases'[s] = releases[s]
      BY <2>4 DEF FinishActivation, Published, InState, OfPost
    <3> QED  BY <2>1, <2>4, <3>1
  <2> QED  BY <2>2, <2>3, <2>4
<1>3. /\ releases[r].candidate \notin DOMAIN sites
      /\ DOMAIN sites' = DOMAIN sites \cup {releases[r].candidate}
      /\ \A d \in DOMAIN sites : sites'[d] = sites[d] /\ sites[d] \in Nat
      /\ sites'[releases[r].candidate] = head.version + 1
  BY DEF FinishActivation, FinishCorrupt, Put, TypeOK
<1>4. head' = [digest |-> releases[r].candidate, version |-> head.version + 1]
  BY DEF FinishActivation
<1>5. head'.digest = releases[r].candidate /\ head'.version = head.version + 1
  BY <1>4
<1>6. head.version \in Nat
  BY DEF TypeOK, Head
<1>7. head' # NoHead
  BY <1>1, <1>5 DEF RowsRehydrate, NoHead
<1> QED  BY <1>1, <1>2, <1>3, <1>5, <1>6, <1>7 DEF Finished

(* Publishing and superseding free the post for its next approval. *)
LEMMA FinishKeepsApprovals ==
  ASSUME IInv, NEW r \in DOMAIN releases, Finished(r)
  PROVE  Approvals'
PROOF
<1>1. OneActivation'
  BY DEF Finished, IInv, Approvals, OneActivation, InState
<1>2. OnePendingPerPost'
  BY DEF Finished, IInv, Approvals, OnePendingPerPost, Pending, InState
<1>3. RevisionUsedOnce'
  BY DEF Finished, IInv, Approvals, RevisionUsedOnce
<1> QED  BY <1>1, <1>2, <1>3 DEF Approvals

(* A retry's receipt stays true when the retried release is published. *)
LEMMA FinishKeepsReceipts ==
  ASSUME IInv, NEW r \in DOMAIN releases, Finished(r)
  PROVE  ReceiptsHold'
PROOF
<1>1. ASSUME NEW op \in DOMAIN receipts
      PROVE  LET now == releases'[receipts[op].release] IN
             /\ receipts[op].release \in DOMAIN releases'
             /\ receipts[op].version <= now.version
             /\ receipts[op].kind = "cancel" =>
                  now.state = "cancelled" /\ now.version = receipts[op].version
             /\ receipts[op].kind = "retry" => now.state \in {"activating", "published", "superseded"}
  <2> DEFINE s == receipts[op].release
  <2>1. /\ s \in DOMAIN releases
        /\ receipts[op].version <= releases[s].version
        /\ receipts[op].kind = "cancel" =>
             releases[s].state = "cancelled" /\ releases[s].version = receipts[op].version
        /\ receipts[op].kind = "retry" => releases[s].state \in {"activating", "published", "superseded"}
    BY DEF IInv, Promises, ReceiptsHold
  <2>2. receipts[op].version \in Nat
    BY DEF IInv, TypeOK, Receipt
  <2> QED  BY <2>1, <2>2 DEF Finished
<1> QED  BY <1>1 DEF ReceiptsHold, Finished

(* Publishing claims every route of the release and gives none up. *)
LEMMA FinishKeepsRoutes ==
  ASSUME LedgerConstants, IInv, NEW r \in DOMAIN releases, Finished(r),
         FinishActivation(r, releases[r].version, head, releases[r].candidate)
  PROVE  KeepsRoutes /\ RoutesReserved'
PROOF
<1> DEFINE p   == releases[r].post
           rev == releases[r].rev
<1>1. /\ \A t \in RoutesOf[<<p, rev>>] \cap DOMAIN routes : routes[t].post = p
      /\ DOMAIN routes' = DOMAIN routes \cup RoutesOf[<<p, rev>>]
      /\ \A t \in DOMAIN routes' : routes'[t] = IF t \in DOMAIN routes /\ routes[t].post # p
                                                  THEN routes[t] ELSE [post |-> p, rev |-> rev]
  BY DEF FinishActivation, RoutesAvailable, ClaimRoutes
<1>2. KeepsRoutes
  BY <1>1 DEF KeepsRoutes
<1>3. ASSUME NEW s \in InState({"scheduled", "blocked", "published"})',
             NEW t \in RoutesOf[<<releases'[s].post, releases'[s].rev>>]
      PROVE  t \in DOMAIN routes' /\ routes'[t].post = releases'[s].post
  <2>1. CASE s = r
    BY <1>1, <2>1 DEF Finished
  <2>2. CASE s # r
    <3>1. s \in InState({"scheduled", "blocked", "published"})
          /\ releases'[s].post = releases[s].post /\ releases'[s].rev = releases[s].rev
      BY <1>3, <2>2 DEF Finished, InState
    <3> QED  BY <1>2, <1>3, <3>1 DEF IInv, Promises, RoutesReserved, KeepsRoutes
  <2> QED  BY <2>1, <2>2
<1> QED  BY <1>2, <1>3 DEF RoutesReserved

(* The new release has the highest site version and is its post's only one. *)
LEMMA FinishKeepsHistory ==
  ASSUME IInv, NEW r \in DOMAIN releases, Finished(r)
  PROVE  History'
PROOF
<1>1. Successful' = Successful \cup {r} /\ r \notin Successful /\ Successful \subseteq DOMAIN releases
  BY DEF Finished, Successful, InState
<1>2. \A s \in Successful : SiteVersion(s)' = SiteVersion(s) /\ SiteVersion(s) \in Nat
                            /\ SiteVersion(s) <= head.version
  BY <1>1 DEF SiteVersion, Finished, IInv, History, HistoryLoadable, HeadIsLatest
<1>3. SiteVersion(r)' = head.version + 1
  BY DEF SiteVersion, Finished
<1>4. \A s \in Successful : SiteVersion(s)' < SiteVersion(r)'
  BY <1>2, <1>3 DEF Finished
<1>5. \A p : Published(p)' = IF p = releases[r].post THEN {r} ELSE Published(p)
  BY DEF Finished, Published, InState, OfPost
<1>6. \A s \in Successful' : releases'[s].candidate \in DOMAIN sites'
  BY <1>1 DEF Finished, IInv, History, HistoryLoadable
<1>7. ASSUME NEW s \in Successful'
      PROVE  \E c \in Published(releases[s].post)' : s = c \/ SiteVersion(s)' < SiteVersion(c)'
  <2>1. CASE releases[s].post = releases[r].post
    <3>1. r \in Published(releases[s].post)'
      BY <1>1, <2>1 DEF Finished, Published, InState, OfPost
    <3>2. s = r \/ SiteVersion(s)' < SiteVersion(r)'
      BY <1>1, <1>4
    <3> QED  BY <3>1, <3>2
  <2>2. CASE releases[s].post # releases[r].post
    <3>1. PICK c \in Published(releases[s].post) : s = c \/ SiteVersion(s) < SiteVersion(c)
      BY <1>1, <2>2 DEF IInv, History, HistoryLoadable
    <3>2. c \in Successful
      BY DEF Published, Successful, InState
    <3>3. c \in Published(releases[s].post)'
      BY <1>1, <2>2, <3>1 DEF Finished, Published, InState, OfPost
    <3>4. s = c \/ SiteVersion(s)' < SiteVersion(c)'
      BY <1>1, <1>2, <2>2, <3>1, <3>2
    <3> QED  BY <3>3, <3>4
  <2> QED  BY <2>1, <2>2
<1>8. \A p \in Posts : \A s, c \in Published(p)' : s = c
  BY <1>5 DEF IInv, History, HistoryLoadable
<1>9. ASSUME NEW p \in Posts, (Successful \cap OfPost(p))' # {}
      PROVE  \E f \in (Successful \cap OfPost(p))' :
               \A s \in (Successful \cap OfPost(p))' : SiteVersion(f)' <= SiteVersion(s)'
  <2>1. (Successful \cap OfPost(p))' =
          (Successful \cap OfPost(p)) \cup (IF p = releases[r].post THEN {r} ELSE {})
    BY <1>1 DEF Finished, OfPost
  <2>2. CASE Successful \cap OfPost(p) = {}
    BY <1>3, <1>9, <2>1, <2>2 DEF Finished
  <2>3. CASE Successful \cap OfPost(p) # {}
    <3>1. PICK f \in Successful \cap OfPost(p) :
            \A s \in Successful \cap OfPost(p) : SiteVersion(f) <= SiteVersion(s)
      BY <2>3 DEF IInv, History, HistoryLoadable
    <3> QED  BY <1>2, <1>3, <1>4, <2>1, <3>1 DEF Finished
  <2> QED  BY <2>2, <2>3
<1>10. \A s, c \in Successful' : SiteVersion(s)' = SiteVersion(c)' => s = c
  BY <1>1, <1>2, <1>3 DEF Finished, IInv, History, HistoryLoadable
<1>11. HistoryLoadable'
  BY <1>6, <1>7, <1>8, <1>9, <1>10, Zenon DEF HistoryLoadable
<1>12. HeadIsLatest'
  BY DEF Finished, IInv, History, HeadIsLatest
<1> QED  BY <1>11, <1>12 DEF History

(* Claiming, blocking, retrying and finishing a release keep the invariant. *)
LEMMA ActivateSafe ==
  ASSUME LedgerConstants, IInv, Activate
  PROVE  Approvals' /\ History' /\ Promises' /\ KeepsRoutes
PROOF
<1>1. PICK r \in DOMAIN releases :
        \/ \E now \in Times, d \in Digests :
             BeginDueActivation(r, releases[r].version, head, now, d)
        \/ \E op \in Operations, now \in Times, d \in Digests :
             BeginRetry(op, r, releases[r].version, head, now, d)
        \/ \E now \in Times : BlockScheduled(r, releases[r].version, now)
        \/ FinishActivation(r, releases[r].version, head, releases[r].candidate)
  BY DEF Activate
<1>2. releases[r] \in Release /\ releases[r].version \in Nat /\ head # NoHead
  BY DEF IInv, TypeOK, Release, History, HeadIsLatest
<1>3. ASSUME NEW now \in Times, NEW d \in Digests,
             ClaimActivation(r, releases[r].version, head, now, d),
             releases[r].state \in {"scheduled", "blocked"}
      PROVE  \E row : /\ WritesRow(r, row) /\ row.state = "activating"
                      /\ row.version = releases[r].version + 1
                      /\ UNCHANGED <<routes, sites, head>>
  <2> DEFINE row == [releases[r] EXCEPT !.state = "activating", !.version = @ + 1,
                                        !.activationAt = now, !.candidate = d]
  <2>1. /\ row.state = "activating" /\ row.version = releases[r].version + 1
        /\ row.post = releases[r].post /\ row.rev = releases[r].rev
    BY <1>2 DEF Release
  <2>2. releases' = Put(releases, r, row) /\ UNCHANGED <<routes, sites, head>>
        /\ InState({"activating"}) \ {r} = {}
    BY <1>3 DEF ClaimActivation
  <2> HIDE DEF row
  <2>3. WritesRow(r, row)
    BY <1>2, <1>3, <2>1, <2>2 DEF WritesRow, Live
  <2> QED  BY <2>1, <2>2, <2>3
<1>4. CASE \E now \in Times, d \in Digests :
             BeginDueActivation(r, releases[r].version, head, now, d)
  <2>1. PICK row : /\ WritesRow(r, row) /\ row.state = "activating"
                   /\ row.version = releases[r].version + 1
                   /\ UNCHANGED <<routes, sites, head, receipts>>
    BY <1>3, <1>4 DEF BeginDueActivation, InState
  <2>2. row.version \in Nat /\ KeepsRoutes
    BY <1>2, <2>1 DEF KeepsRoutes
  <2>3. Approvals' /\ History' /\ RoutesReserved' /\ ReceiptsHold'
    BY <2>1, <2>2, WriteKeepsApprovals, WriteKeepsHistory, WriteKeepsRoutes, WriteKeepsReceipts DEF IInv
  <2> QED  BY <2>2, <2>3 DEF Promises
<1>5. CASE \E op \in Operations, now \in Times, d \in Digests :
             BeginRetry(op, r, releases[r].version, head, now, d)
  <2>1. PICK op \in Operations, now \in Times, d \in Digests :
          BeginRetry(op, r, releases[r].version, head, now, d)
    BY <1>5
  <2>2. PICK row : /\ WritesRow(r, row) /\ row.state = "activating"
                   /\ row.version = releases[r].version + 1
                   /\ UNCHANGED <<routes, sites, head>>
    BY <1>3, <2>1 DEF BeginRetry, InState
  <2>3. row.version \in Nat /\ KeepsRoutes
    BY <1>2, <2>2 DEF KeepsRoutes
  <2>4. receipts' = Put(receipts, op, [release |-> r, kind |-> "retry", version |-> row.version])
        /\ op \notin DOMAIN receipts
    BY <2>1, <2>2 DEF BeginRetry
  <2>5. ReceiptsHold'
    BY <2>2, <2>3, <2>4, WriteAddsReceipt DEF IInv
  <2>6. Approvals' /\ History' /\ RoutesReserved'
    BY <2>2, <2>3, WriteKeepsApprovals, WriteKeepsHistory, WriteKeepsRoutes DEF IInv
  <2> QED  BY <2>3, <2>5, <2>6 DEF Promises
<1>6. CASE \E now \in Times : BlockScheduled(r, releases[r].version, now)
  <2>1. PICK now \in Times : BlockScheduled(r, releases[r].version, now)
    BY <1>6
  <2> DEFINE row == [releases[r] EXCEPT !.state = "blocked", !.version = @ + 2,
                                        !.activationAt = now]
  <2>2. /\ row.state = "blocked" /\ row.version = releases[r].version + 2
        /\ row.post = releases[r].post /\ row.rev = releases[r].rev
    BY <1>2 DEF Release
  <2>3. releases' = Put(releases, r, row) /\ UNCHANGED <<routes, sites, head, receipts>>
        /\ releases[r].state = "scheduled"
    BY <2>1 DEF BlockScheduled, InState
  <2> HIDE DEF row
  <2>4. WritesRow(r, row) /\ row.version \in Nat /\ KeepsRoutes
    BY <1>2, <2>2, <2>3 DEF WritesRow, Live, KeepsRoutes
  <2>5. Approvals' /\ History' /\ RoutesReserved' /\ ReceiptsHold'
    BY <2>2, <2>3, <2>4, WriteKeepsApprovals, WriteKeepsHistory, WriteKeepsRoutes,
       WriteKeepsReceipts DEF IInv
  <2> QED  BY <2>4, <2>5 DEF Promises
<1>7. CASE FinishActivation(r, releases[r].version, head, releases[r].candidate)
  <2>1. Finished(r)
    BY <1>7, FinishRows DEF IInv
  <2> QED  BY <1>7, <2>1, FinishKeepsApprovals, FinishKeepsHistory, FinishKeepsReceipts,
              FinishKeepsRoutes DEF Promises
<1> QED  BY <1>1, <1>4, <1>5, <1>6, <1>7

(* Every transaction of the writer keeps the invariant and every claim. *)
LEMMA StepSafe ==
  ASSUME LedgerConstants, IInv, [Next]_ledgerVars
  PROVE  IInv' /\ KeepsRoutes
PROOF
<1>1. CASE UNCHANGED ledgerVars
  <2>1. UNCHANGED <<releases, routes, sites, head, receipts, observed>>
    BY <1>1 DEF ledgerVars
  <2>2. TypeOK' /\ RowsRehydrate'
    BY <2>1 DEF IInv, TypeOK, RowsRehydrate
  <2>3. Approvals' /\ Promises' /\ KeepsRoutes
    BY <2>1 DEF IInv, Approvals, Promises, OneActivation, OnePendingPerPost, RevisionUsedOnce,
       RoutesReserved, ReceiptsHold, InState, Pending, KeepsRoutes
  <2>4. History'
    <3>1. HistoryLoadable'
      BY <2>1 DEF IInv, History, HistoryLoadable, Successful, Published, InState, OfPost, SiteVersion
    <3>2. HeadIsLatest'
      BY <2>1 DEF IInv, History, HeadIsLatest
    <3> QED  BY <3>1, <3>2 DEF History
  <2> QED  BY <2>2, <2>3, <2>4 DEF IInv
<1>2. CASE Approve
  BY <1>2, ApproveTyped, ApproveSafe DEF IInv
<1>3. CASE Activate
  BY <1>3, ActivateTyped, ActivateSafe DEF IInv
<1>4. CASE Change
  BY <1>4, ChangeTyped, ChangeSafe DEF IInv
<1>5. CASE Index
  BY <1>5, IndexTyped, IndexSafe DEF IInv
<1> QED  BY <1>1, <1>2, <1>3, <1>4, <1>5 DEF Next

(* The inductive invariant holds of the ledger under any caller. *)
THEOREM LedgerInvariant == Spec => []IInv
PROOF
<1>1. IInv /\ [Next]_ledgerVars => IInv'
  BY StepSafe, LedgerConstants
<1> QED  BY <1>1, InitIInv, PTL DEF Spec

(* At most one activation is in flight, a post has at most one release that *)
(* could still become public, and a revision is approved once: the three    *)
(* facts the coordinator, the scheduler and startup take for granted.       *)
THEOREM LedgerApprovals == Spec => []Approvals
PROOF
<1>1. IInv => Approvals
  BY DEF IInv
<1> QED  BY <1>1, LedgerInvariant, PTL

(* Whatever was committed before a restart, canonical_publication_times and *)
(* the load of the head succeed after it.                                   *)
THEOREM LedgerLoads == Spec => []History
PROOF
<1>1. IInv => History
  BY DEF IInv
<1> QED  BY <1>1, LedgerInvariant, PTL

(* Approved and public releases own their routes, and an operation's receipt *)
(* stays true of its release.                                                *)
THEOREM LedgerPromises == Spec => []Promises
PROOF
<1>1. IInv => Promises
  BY DEF IInv
<1> QED  BY <1>1, LedgerInvariant, PTL

(* A claimed route belongs to its post for ever. *)
THEOREM LedgerClaims == Spec => ClaimsPermanent
PROOF
<1>1. IInv /\ [Next]_ledgerVars =>
        [\A t \in DOMAIN routes : t \in DOMAIN routes' /\ routes'[t].post = routes[t].post]_ledgerVars
  BY StepSafe, LedgerConstants DEF KeepsRoutes
<1> QED  BY <1>1, LedgerInvariant, PTL DEF Spec, ClaimsPermanent
-----------------------------------------------------------------------------
(* What is public stays as it is: a step adds at most a success of its own,  *)
(* with a site version above all earlier ones.                               *)
PublicKeeps ==
  /\ \A s \in Successful :
       /\ s \in Successful'
       /\ releases'[s].post = releases[s].post /\ releases'[s].rev = releases[s].rev
       /\ releases'[s].activationAt = releases[s].activationAt
       /\ SiteVersion(s)' = SiteVersion(s)
  /\ \A s \in Successful' \ Successful :
       \A q \in Successful : SiteVersion(q)' < SiteVersion(s)'

(* Rows that never were public, and retained sites, are all that other      *)
(* transactions touch.                                                      *)
LEMMA OthersKeepPublic ==
  ASSUME TypeOK, History, Successful' = Successful,
         \A s \in Successful : releases'[s] = releases[s],
         \A d \in DOMAIN sites : d \in DOMAIN sites' /\ sites'[d] = sites[d]
  PROVE  PublicKeeps
BY DEF PublicKeeps, SiteVersion, History, HistoryLoadable

LEMMA FinishKeepsPublic ==
  ASSUME IInv, NEW r \in DOMAIN releases, Finished(r)
  PROVE  PublicKeeps
PROOF
<1>1. Successful' = Successful \cup {r} /\ r \notin Successful /\ Successful \subseteq DOMAIN releases
  BY DEF Finished, Successful, InState
<1>2. \A s \in Successful : SiteVersion(s)' = SiteVersion(s) /\ SiteVersion(s) \in Nat
                            /\ SiteVersion(s) <= head.version
  BY <1>1 DEF SiteVersion, Finished, IInv, History, HistoryLoadable, HeadIsLatest
<1>3. SiteVersion(r)' = head.version + 1
  BY DEF SiteVersion, Finished
<1> QED  BY <1>1, <1>2, <1>3 DEF PublicKeeps, Finished

(* A transaction that names an unpublished row leaves the public ones alone. *)
LEMMA UnpublishedWrite ==
  ASSUME TypeOK, History, NEW r, NEW row, releases' = Put(releases, r, row), UNCHANGED sites,
         row.state \notin {"published", "superseded"},
         r \in DOMAIN releases => releases[r].state \notin {"published", "superseded"}
  PROVE  PublicKeeps
PROOF
<1>1. Successful' = Successful /\ \A s \in Successful : releases'[s] = releases[s]
  BY DEF Put, Successful, InState
<1> QED  BY <1>1, OthersKeepPublic

(* Every transaction of the writer keeps the public history. *)
LEMMA StepKeepsPublic ==
  ASSUME LedgerConstants, IInv, [Next]_ledgerVars
  PROVE  PublicKeeps
PROOF
<1>1. CASE UNCHANGED <<releases, sites>>
  <2>1. Successful' = Successful /\ \A s \in Successful : releases'[s] = releases[s]
    BY <1>1 DEF Successful, InState
  <2> QED  BY <1>1, <2>1, OthersKeepPublic DEF IInv
<1>2. CASE Approve
  <2>1. PICK r \in Releases, p \in Posts, rev \in Revisions, tree \in Trees, preview \in Previews :
          \/ \E now, at \in Times : SchedulePublication(r, p, rev, tree, preview, head, now, at)
          \/ \E now \in Times, d \in Digests :
               BeginPublishNow(r, p, rev, tree, preview, head, now, d)
    BY <1>2 DEF Approve
  <2>2. ASSUME NEW now \in Times, NEW at \in Times,
               SchedulePublication(r, p, rev, tree, preview, head, now, at)
        PROVE  PublicKeeps
    BY <2>2, UnpublishedWrite DEF SchedulePublication, IInv
  <2>3. ASSUME NEW now \in Times, NEW d \in Digests,
               BeginPublishNow(r, p, rev, tree, preview, head, now, d)
        PROVE  PublicKeeps
    BY <2>3, UnpublishedWrite DEF BeginPublishNow, IInv
  <2> QED  BY <2>1, <2>2, <2>3
<1>3. CASE Change
  <2>1. PICK op \in Operations, r \in DOMAIN releases :
          \/ \E now, at \in Times : Reschedule(op, r, releases[r].version, now, at)
          \/ Cancel(op, r, releases[r].version)
    BY <1>3 DEF Change
  <2>2. PICK kind \in {"reschedule", "cancel"}, state \in {"scheduled", "cancelled"}, at \in Times :
          /\ ChangeRelease(op, r, releases[r].version, kind, state, at)
          /\ releases[r].state \in {"scheduled", "blocked"}
    BY <2>1 DEF Reschedule, Cancel, InState, IInv, TypeOK, Release
  <2> DEFINE row == [releases[r] EXCEPT !.state = state, !.version = @ + 1, !.scheduledAt = at]
  <2>3. row.state = state
    BY DEF IInv, TypeOK, Release
  <2>4. releases' = Put(releases, r, row) /\ UNCHANGED sites
    BY <2>2 DEF ChangeRelease
  <2> HIDE DEF row
  <2> QED  BY <2>2, <2>3, <2>4, UnpublishedWrite DEF IInv
<1>4. CASE Index
  <2>1. /\ UNCHANGED releases
        /\ \A d \in DOMAIN sites : d \in DOMAIN sites' /\ sites'[d] = sites[d]
    BY <1>4 DEF Index, IndexContentCatalog, InstallStartup, Put
  <2>2. Successful' = Successful /\ \A s \in Successful : releases'[s] = releases[s]
    BY <2>1 DEF Successful, InState
  <2> QED  BY <2>1, <2>2, OthersKeepPublic DEF IInv
<1>5. CASE Activate
  <2>1. PICK r \in DOMAIN releases :
          \/ \E now \in Times, d \in Digests :
               BeginDueActivation(r, releases[r].version, head, now, d)
          \/ \E op \in Operations, now \in Times, d \in Digests :
               BeginRetry(op, r, releases[r].version, head, now, d)
          \/ \E now \in Times : BlockScheduled(r, releases[r].version, now)
          \/ FinishActivation(r, releases[r].version, head, releases[r].candidate)
    BY <1>5 DEF Activate
  <2>2. releases[r] \in Release
    BY DEF IInv, TypeOK
  <2>3. CASE FinishActivation(r, releases[r].version, head, releases[r].candidate)
    BY <2>3, FinishRows, FinishKeepsPublic DEF IInv
  <2>4. CASE \E now \in Times : BlockScheduled(r, releases[r].version, now)
    <3>1. PICK now \in Times : BlockScheduled(r, releases[r].version, now)
      BY <2>4
    <3> DEFINE row == [releases[r] EXCEPT !.state = "blocked", !.version = @ + 2,
                                          !.activationAt = now]
    <3>2. row.state = "blocked"
      BY <2>2 DEF Release
    <3>3. releases' = Put(releases, r, row) /\ UNCHANGED sites /\ releases[r].state = "scheduled"
      BY <3>1 DEF BlockScheduled, InState
    <3> HIDE DEF row
    <3> QED  BY <3>2, <3>3, UnpublishedWrite DEF IInv
  <2>5. ASSUME NEW now, NEW d, ClaimActivation(r, releases[r].version, head, now, d),
               releases[r].state \in {"scheduled", "blocked"}
        PROVE  PublicKeeps
    <3> DEFINE row == [releases[r] EXCEPT !.state = "activating", !.version = @ + 1,
                                          !.activationAt = now, !.candidate = d]
    <3>1. row.state = "activating"
      BY <2>2 DEF Release
    <3>2. releases' = Put(releases, r, row) /\ UNCHANGED sites
      BY <2>5 DEF ClaimActivation
    <3> HIDE DEF row
    <3> QED  BY <2>5, <3>1, <3>2, UnpublishedWrite DEF IInv
  <2> QED  BY <2>1, <2>3, <2>4, <2>5 DEF BeginDueActivation, BeginRetry, InState
<1> QED  BY <1>1, <1>2, <1>3, <1>4, <1>5 DEF Next, ledgerVars

(* The first release of a post, by site version. *)
First(p, r) ==
  /\ r \in Successful \cap OfPost(p)
  /\ \A s \in Successful \cap OfPost(p) : SiteVersion(r) <= SiteVersion(s)

(* It gives the post its time, and there is one for every public post. *)
FirstTimes == \A p, r : First(p, r) => PublicSince(p) = releases[r].activationAt

LEMMA FirstGivesTime == TypeOK /\ History => FirstTimes
PROOF
<1> SUFFICES ASSUME TypeOK, History, NEW p, NEW r, First(p, r)
             PROVE  PublicSince(p) = releases[r].activationAt
  BY DEF FirstTimes
<1> DEFINE history == Successful \cap OfPost(p)
           first   == CHOOSE f \in history : \A s \in history : SiteVersion(f) <= SiteVersion(s)
<1>1. first \in history /\ \A s \in history : SiteVersion(first) <= SiteVersion(s)
  BY DEF First
<1>2. \A s \in history : SiteVersion(s) \in Nat
  BY DEF History, HistoryLoadable, SiteVersion, TypeOK
<1>3. SiteVersion(first) = SiteVersion(r)
  BY <1>1, <1>2 DEF First
<1>4. first = r
  BY <1>1, <1>3 DEF First, History, HistoryLoadable
<1> QED  BY <1>4 DEF PublicSince

LEMMA FirstExists ==
  ASSUME History, NEW p \in Posts, NEW s \in Successful \cap OfPost(p)
  PROVE  \E r : First(p, r)
BY DEF First, History, HistoryLoadable

(* It stays the first. *)
LEMMA FirstStays ==
  ASSUME TypeOK, TypeOK', History, History', PublicKeeps, NEW p, NEW r, First(p, r)
  PROVE  First(p, r)' /\ releases'[r].activationAt = releases[r].activationAt
PROOF
<1>1. r \in Successful' /\ r \in OfPost(p)'
  BY DEF First, PublicKeeps, OfPost, Successful, InState
<1>2. ASSUME NEW s \in (Successful \cap OfPost(p))'
      PROVE  SiteVersion(r)' <= SiteVersion(s)'
  <2>1. SiteVersion(r)' \in Nat /\ SiteVersion(s)' \in Nat
    BY <1>1 DEF History, HistoryLoadable, SiteVersion, TypeOK
  <2>2. CASE s \in Successful
    <3>1. s \in OfPost(p)
      BY <1>2, <2>2 DEF PublicKeeps, OfPost, Successful, InState
    <3> QED  BY <2>2, <3>1 DEF First, PublicKeeps
  <2>3. CASE s \notin Successful
    BY <2>1, <2>3 DEF First, PublicKeeps
  <2> QED  BY <2>2, <2>3
<1> QED  BY <1>1, <1>2 DEF First, PublicKeeps

(* A post that is public keeps being so, with the time of its first release: *)
(* no update, restart, blocked or cancelled release moves it.                *)
LEMMA StepKeepsTimes ==
  ASSUME LedgerConstants, IInv, IInv', PublicKeeps, NEW p \in Posts, Published(p) # {}
  PROVE  Published(p)' # {} /\ PublicSince(p)' = PublicSince(p)
PROOF
<1>1. PICK s \in Published(p) : s \in Successful \cap OfPost(p)
  BY DEF Published, Successful, InState, OfPost
<1>2. PICK r : First(p, r)
  BY <1>1, FirstExists DEF IInv
<1>3. First(p, r)' /\ releases'[r].activationAt = releases[r].activationAt
  BY <1>2, FirstStays DEF IInv
<1>4. PublicSince(p) = releases[r].activationAt
  BY <1>2, FirstGivesTime DEF IInv, FirstTimes
<1>5. PublicSince(p)' = releases'[r].activationAt
  <2>1. TypeOK' /\ History' => FirstTimes'
    BY FirstGivesTime, PTL
  <2> QED  BY <1>3, <2>1 DEF IInv, FirstTimes
<1>6. Published(p)' # {}
  BY <1>3 DEF First, IInv, History, HistoryLoadable, OfPost
<1> QED  BY <1>3, <1>4, <1>5, <1>6

(* "An update retains the original publication timestamp", and nothing else *)
(* takes a public post away or moves it in time.                            *)
THEOREM LedgerKeepsTimes == Spec => PublicSincePermanent
PROOF
<1>1. IInv /\ IInv' /\ [Next]_ledgerVars =>
        [\A p \in Posts :
           Published(p) # {} => Published(p)' # {} /\ PublicSince(p)' = PublicSince(p)]_ledgerVars
  BY StepKeepsPublic, StepKeepsTimes, LedgerConstants
<1> QED  BY <1>1, LedgerInvariant, PTL DEF Spec, PublicSincePermanent

-----------------------------------------------------------------------------
(* The ledger implements the life of every release.  A transaction that     *)
(* writes one row takes that row one step of its life and leaves the others *)
(* where they are.                                                          *)
OneRow(x, from, to, by) ==
  /\ RowState(x) \in from
  /\ RowVersion(x)' = RowVersion(x) + by /\ RowState(x)' = to
  /\ \A r \in Releases \ {x} : UNCHANGED <<RowState(r), RowVersion(r)>>

(* A row put in place of another moves that row only. *)
LEMMA PutMoves ==
  ASSUME NEW x, NEW row, releases' = Put(releases, x, row)
  PROVE  /\ RowState(x)' = row.state /\ RowVersion(x)' = row.version
         /\ \A r \in Releases \ {x} : UNCHANGED <<RowState(r), RowVersion(r)>>
PROOF
  BY DEF Put, RowState, RowVersion

(* The steps of a life, as the typed transitions of one row. *)
LEMMA StepsOfLife ==
  ASSUME NEW x \in Releases, NEW from, NEW to, NEW by, OneRow(x, from, to, by),
         <<from, to, by>> \in
           {<<{"absent"}, "scheduled", 1>>, <<{"absent"}, "activating", 2>>,
            <<{"scheduled"}, "scheduled", 1>>, <<{"scheduled"}, "activating", 1>>,
            <<{"blocked"}, "activating", 1>>, <<{"scheduled"}, "blocked", 2>>,
            <<{"scheduled", "blocked"}, "cancelled", 1>>}
  PROVE  \A r \in Releases : [Life(r)!Next]_(Life(r)!vars)
PROOF
<1> TAKE r \in Releases
<1>1. CASE r # x
  BY <1>1 DEF OneRow, Life!vars
<1>2. CASE r = x
  BY <1>2 DEF OneRow, Life!Next, Life!Schedule, Life!StartNow, Life!Reschedule, Life!Start,
     Life!Block, Life!Cancel, Life!Publish, Life!Supersede, Life!Step
<1> QED  BY <1>1, <1>2

(* A transition of an existing row, as one step of its life. *)
LEMMA RowMoves ==
  ASSUME TypeOK, NEW x \in DOMAIN releases, NEW row, NEW from, NEW to, NEW by,
         releases[x].state \in from, releases' = Put(releases, x, row),
         row.state = to, row.version = releases[x].version + by
  PROVE  OneRow(x, from, to, by)
  BY PutMoves DEF OneRow, RowState, RowVersion

(* An approval creates its row in the first state of a life. *)
LEMMA ApproveLives ==
  ASSUME TypeOK, Approve
  PROVE  \A r \in Releases : [Life(r)!Next]_(Life(r)!vars)
PROOF
<1>1. PICK x \in Releases, p \in Posts, rev \in Revisions, tree \in Trees, preview \in Previews :
        \/ \E now, at \in Times : SchedulePublication(x, p, rev, tree, preview, head, now, at)
        \/ \E now \in Times, d \in Digests :
             BeginPublishNow(x, p, rev, tree, preview, head, now, d)
  BY DEF Approve
<1>2. ASSUME NEW now \in Times, NEW at \in Times,
             SchedulePublication(x, p, rev, tree, preview, head, now, at)
      PROVE  OneRow(x, {"absent"}, "scheduled", 1)
  BY <1>2, PutMoves DEF SchedulePublication, OneRow, RowState, RowVersion
<1>3. ASSUME NEW now \in Times, NEW d \in Digests,
             BeginPublishNow(x, p, rev, tree, preview, head, now, d)
      PROVE  OneRow(x, {"absent"}, "activating", 2)
  BY <1>3, PutMoves DEF BeginPublishNow, OneRow, RowState, RowVersion
<1> QED  BY <1>1, <1>2, <1>3, StepsOfLife

(* Finishing publishes one row and supersedes the current row of its post. *)
LEMMA FinishLives ==
  ASSUME TypeOK, NEW x \in DOMAIN releases, NEW version, NEW expected, NEW candidate,
         FinishActivation(x, version, expected, candidate)
  PROVE  \A r \in Releases : [Life(r)!Next]_(Life(r)!vars)
PROOF
<1> TAKE r \in Releases
<1>1. /\ releases[x].state = "activating"
      /\ releases' = [s \in DOMAIN releases |->
           IF s = x THEN [releases[s] EXCEPT !.state = "published", !.version = @ + 1]
           ELSE IF s \in Published(releases[x].post)
             THEN [releases[s] EXCEPT !.state = "superseded", !.version = @ + 1]
             ELSE releases[s]]
  BY DEF FinishActivation, InState
<1>2. \A s \in DOMAIN releases : releases[s] \in Release
  BY DEF TypeOK
<1>3. CASE r = x
  BY <1>1, <1>2, <1>3 DEF RowState, RowVersion, Release, Life!Next, Life!Publish, Life!Step
<1>4. CASE r # x /\ r \in Published(releases[x].post)
  <2>1. r \in DOMAIN releases /\ releases[r].state = "published"
    BY <1>4 DEF Published, InState, OfPost
  <2> QED  BY <1>1, <1>2, <1>4, <2>1 DEF RowState, RowVersion, Release, Life!Next, Life!Supersede, Life!Step
<1>5. CASE r # x /\ r \notin Published(releases[x].post)
  BY <1>1, <1>5 DEF RowState, RowVersion, Life!vars
<1> QED  BY <1>3, <1>4, <1>5

(* Claiming, blocking and finishing an activation. *)
LEMMA ActivateLives ==
  ASSUME TypeOK, Activate
  PROVE  \A r \in Releases : [Life(r)!Next]_(Life(r)!vars)
PROOF
<1>1. PICK x \in DOMAIN releases :
        \/ \E now \in Times, d \in Digests : BeginDueActivation(x, releases[x].version, head, now, d)
        \/ \E op \in Operations, now \in Times, d \in Digests :
             BeginRetry(op, x, releases[x].version, head, now, d)
        \/ \E now \in Times : BlockScheduled(x, releases[x].version, now)
        \/ FinishActivation(x, releases[x].version, head, releases[x].candidate)
  BY DEF Activate
<1>2. x \in Releases /\ releases[x] \in Release
  BY DEF TypeOK
<1>3. ASSUME NEW now \in Times, NEW d \in Digests,
             BeginDueActivation(x, releases[x].version, head, now, d)
      PROVE  OneRow(x, {"scheduled"}, "activating", 1)
  <2> DEFINE row == [releases[x] EXCEPT !.state = "activating", !.version = @ + 1,
                                        !.activationAt = now, !.candidate = d]
  <2>1. row.state = "activating" /\ row.version = releases[x].version + 1
    BY <1>2 DEF Release
  <2>2. releases' = Put(releases, x, row) /\ releases[x].state \in {"scheduled"}
    BY <1>3 DEF BeginDueActivation, ClaimActivation, InState
  <2> HIDE DEF row
  <2> QED  BY <2>1, <2>2, RowMoves
<1>4. ASSUME NEW op \in Operations, NEW now \in Times, NEW d \in Digests,
             BeginRetry(op, x, releases[x].version, head, now, d)
      PROVE  OneRow(x, {"blocked"}, "activating", 1)
  <2> DEFINE row == [releases[x] EXCEPT !.state = "activating", !.version = @ + 1,
                                        !.activationAt = now, !.candidate = d]
  <2>1. row.state = "activating" /\ row.version = releases[x].version + 1
    BY <1>2 DEF Release
  <2>2. releases' = Put(releases, x, row) /\ releases[x].state \in {"blocked"}
    BY <1>4 DEF BeginRetry, ClaimActivation, InState
  <2> HIDE DEF row
  <2> QED  BY <2>1, <2>2, RowMoves
<1>5. ASSUME NEW now \in Times, BlockScheduled(x, releases[x].version, now)
      PROVE  OneRow(x, {"scheduled"}, "blocked", 2)
  <2> DEFINE row == [releases[x] EXCEPT !.state = "blocked", !.version = @ + 2, !.activationAt = now]
  <2>1. row.state = "blocked" /\ row.version = releases[x].version + 2
    BY <1>2 DEF Release
  <2>2. releases' = Put(releases, x, row) /\ releases[x].state \in {"scheduled"}
    BY <1>5 DEF BlockScheduled, InState
  <2> HIDE DEF row
  <2> QED  BY <2>1, <2>2, RowMoves
<1> QED  BY <1>1, <1>2, <1>3, <1>4, <1>5, StepsOfLife, FinishLives

(* Rescheduling and cancelling. *)
LEMMA ChangeLives ==
  ASSUME TypeOK, Change
  PROVE  \A r \in Releases : [Life(r)!Next]_(Life(r)!vars)
PROOF
<1>1. PICK op \in Operations, x \in DOMAIN releases :
        \/ \E now, at \in Times : Reschedule(op, x, releases[x].version, now, at)
        \/ Cancel(op, x, releases[x].version)
  BY DEF Change
<1>2. x \in Releases /\ releases[x] \in Release
  BY DEF TypeOK
<1>3. ASSUME NEW now \in Times, NEW at \in Times, Reschedule(op, x, releases[x].version, now, at)
      PROVE  OneRow(x, {"scheduled"}, "scheduled", 1)
  <2> DEFINE row == [releases[x] EXCEPT !.state = "scheduled", !.version = @ + 1, !.scheduledAt = at]
  <2>1. row.state = "scheduled" /\ row.version = releases[x].version + 1
    BY <1>2 DEF Release
  <2>2. releases' = Put(releases, x, row) /\ releases[x].state \in {"scheduled"}
    BY <1>3 DEF Reschedule, ChangeRelease, InState
  <2> HIDE DEF row
  <2> QED  BY <2>1, <2>2, RowMoves
<1>4. ASSUME Cancel(op, x, releases[x].version)
      PROVE  OneRow(x, {"scheduled", "blocked"}, "cancelled", 1)
  <2> DEFINE row == [releases[x] EXCEPT !.state = "cancelled", !.version = @ + 1,
                                        !.scheduledAt = releases[x].scheduledAt]
  <2>1. row.state = "cancelled" /\ row.version = releases[x].version + 1
    BY <1>2 DEF Release
  <2>2. releases' = Put(releases, x, row) /\ releases[x].state \in {"scheduled", "blocked"}
    BY <1>4 DEF Cancel, ChangeRelease, InState
  <2> HIDE DEF row
  <2> QED  BY <2>1, <2>2, RowMoves
<1> QED  BY <1>1, <1>2, <1>3, <1>4, StepsOfLife

(* Every release of the ledger lives the life ReleaseLifecycle promises: the *)
(* initial states map to its initial state and every transaction to one of   *)
(* its steps, or to none.                                                    *)
THEOREM LedgerLives == Spec => EveryReleaseLives
PROOF
<1>1. Init => \A r \in Releases : Life(r)!Init
  BY DEF Init, Empty, Life!Init, RowState, RowVersion
<1>2. TypeOK /\ [Next]_ledgerVars =>
        [\A r \in Releases : [Life(r)!Next]_(Life(r)!vars)]_ledgerVars
  <2>1. CASE Index
    BY <2>1 DEF Index, IndexContentCatalog, InstallStartup, Life!vars, RowState, RowVersion
  <2> QED  BY <2>1, ApproveLives, ActivateLives, ChangeLives DEF Next
<1> QED  BY <1>1, <1>2, LedgerTypeOK, PTL DEF Spec, EveryReleaseLives
=============================================================================
