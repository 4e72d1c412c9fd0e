------------------------- MODULE MailFeedbackProofs -------------------------
(***************************************************************************)
(* Theorems about the feedback consumer, for any queues, messages, windows *)
(* and bounds: the continuity row can always be loaded, and no transaction *)
(* of the worker finds a poll on record that is not its own.               *)
(***************************************************************************)
EXTENDS MailFeedback, TLAPS

Says == [kind : {"observed", "checked", "unavailable", "reconcile"},
         time : 0..MaxTime, drained : BOOLEAN]

Workers ==
  [pc : {"down", "start", "preflight", "begin", "publish", "cycle", "poll", "admit", "receive",
         "apply", "acknowledge", "settle", "finish"},
   source : Queues, binding : Bindings \cup {None}, now : 0..MaxTime, drained : BOOLEAN,
   recover : Times, gap : BOOLEAN, say : Says, uncertain : BOOLEAN,
   signed : 0..(MaxTime + 1), leased : BOOLEAN, message : Messages \cup {None},
   next : {"cycle", "poll", "settle"}]

Controls ==
  [binding : Bindings, run : BOOLEAN, source : Queues \cup {None}, observed : 0..MaxTime,
   gap : BOOLEAN, provider : 0..MaxTime, regressed : BOOLEAN, poll : 0..(MaxTime + 1),
   recover : Times, quiet : 0..MaxTime, ok : BOOLEAN]

Typed == /\ control \in Controls /\ worker \in Workers
         /\ clock \in 1..MaxTime /\ retained \in BOOLEAN

Loads ==
  /\ control.gap => ~control.ok
  /\ control.run => control.source # None
  /\ control.observed # 0 => control.source # None
  /\ control.poll # 0 => control.run
  /\ control.quiet # 0 => control.recover # 0

(* Where the worker is says which poll is on record, even while the         *)
(* settings are others than its own: they may become its own again.         *)
Course ==
  /\ worker.pc # "publish" => worker.next = "cycle"
  /\ control.run =>
       /\ worker.pc \in {"cycle", "poll", "admit", "finish"} => control.poll = 0
       /\ worker.pc = "publish" /\ worker.next # "settle" => control.poll = 0
       /\ worker.pc = "publish" /\ worker.next = "settle" =>
            control.poll = worker.signed /\ ~worker.say.drained
       /\ worker.pc \in {"receive", "apply", "acknowledge", "settle"} =>
            control.poll = worker.signed

Inv == Typed /\ Loads /\ Course

------------------------------------------------------------------------------
(* The time of a lease lies within Times, and so does the later of two.     *)
LEMMA Windows ==
  /\ MaxTime \in Nat \ {0} /\ Lease \in Nat
  /\ 0..MaxTime \subseteq Times /\ 0..(MaxTime + 1) \subseteq Times
  /\ \A t \in 0..(MaxTime + 1) : t + Lease \in Times
  /\ \A s, t \in Times : Later(s, t) \in Times
  /\ \A s, t \in 0..MaxTime : Later(s, t) \in 0..MaxTime
BY FeedbackConstants DEF Times, Lease, Later

LEMMA Zeros == 0 \in 0..MaxTime /\ 0 \in 0..(MaxTime + 1) /\ 0 \in Times
BY Windows

(* A fresh process and what it says. *)
LEMMA StoppedTyped ==
  ASSUME NEW q \in Queues
  PROVE  /\ Stopped(q) \in Workers /\ Unavailable \in Says /\ Reconcile \in Says
         /\ Stopped(q).pc = "down" /\ Stopped(q).next = "cycle"
BY Windows DEF Stopped, Workers, Unavailable, Reconcile, Says

LEMMA SayTyped ==
  ASSUME NEW w \in Workers, NEW o \in Says
  PROVE  /\ Say(w, o) \in Workers /\ Say(w, o).pc = "publish"
         /\ Say(w, o).next = w.next /\ Say(w, o).signed = w.signed
<1>. DEFINE gap == w.gap \/ o.kind = "reconcile"
            s == IF gap THEN Reconcile ELSE o
<1>0. gap \in BOOLEAN
  OBVIOUS
<1>1. s \in Says
  BY Windows DEF Reconcile, Says
<1>2. Say(w, o) = [[[w EXCEPT !.pc = "publish"] EXCEPT !.gap = gap] EXCEPT !.say = s]
  BY DEF Say, Workers
<1>. HIDE DEF gap, s
<1>3. [w EXCEPT !.pc = "publish"] \in Workers
  BY DEF Workers
<1>4. [[w EXCEPT !.pc = "publish"] EXCEPT !.gap = gap] \in Workers
  BY <1>0, <1>3 DEF Workers
<1>. QED BY <1>0, <1>1, <1>2, <1>3, <1>4 DEF Workers

LEMMA ReloadTyped ==
  ASSUME Typed, Reload
  PROVE  worker' \in Workers /\ worker'.pc = "start" /\ worker'.next = "cycle"
<1>1. worker.source \in Queues /\ control.binding \in Bindings
  BY DEF Typed, Workers, Controls
<1>2. Stopped(worker.source) \in Workers
  BY <1>1, StoppedTyped
<1>3. worker' = [[Stopped(worker.source) EXCEPT !.pc = "start"] EXCEPT !.binding = control.binding]
  BY <1>2 DEF Reload, Workers
<1>4. [Stopped(worker.source) EXCEPT !.pc = "start"] \in Workers
  BY <1>2 DEF Workers
<1>5. worker' \in Workers
  BY <1>1, <1>3, <1>4 DEF Workers
<1>. QED BY <1>1, <1>2, <1>3, <1>4, <1>5, StoppedTyped DEF Workers

(* A worker at its start: nothing is expected of the poll on record. *)
LEMMA OutOfCourse ==
  ASSUME Typed', Loads', worker'.pc \in {"down", "start", "preflight", "begin"},
         worker'.next = "cycle"
  PROVE  Inv'
BY DEF Inv, Course

LEMMA InitInv == Init => Inv
<1>. SUFFICES ASSUME Init PROVE Inv
  OBVIOUS
<1>1. PICK q \in Queues, b \in Bindings :
        /\ worker = Stopped(q)
        /\ control = [binding |-> b, run |-> FALSE, source |-> None, observed |-> 0,
                      gap |-> FALSE, provider |-> 0, regressed |-> FALSE, poll |-> 0,
                      recover |-> 0, quiet |-> 0, ok |-> FALSE]
  BY DEF Init
<1>2. Typed
  <2>1. control \in Controls
    BY <1>1, Windows DEF Controls
  <2>0. clock = 1 /\ retained = FALSE
    BY DEF Init
  <2>2. clock \in 1..MaxTime
    BY <2>0, Windows
  <2>3. retained \in BOOLEAN
    BY <2>0
  <2>. QED BY <1>1, <2>1, <2>2, <2>3, StoppedTyped DEF Typed
<1>3. Loads
  BY <1>1 DEF Loads
<1>4. Course
  BY <1>1, StoppedTyped DEF Course
<1>. QED BY <1>2, <1>3, <1>4 DEF Inv

------------------------------------------------------------------------------
(* The transactions. *)
LEMMA BegunTyped ==
  ASSUME Typed, Loads, NEW t \in 0..MaxTime
  PROVE  LET c == Begun(t)
         IN  /\ c \in Controls /\ c.run /\ c.poll = 0 /\ ~c.ok
             /\ c.source = worker.source /\ c.quiet = 0
<1>1. /\ control \in Controls /\ worker.source \in Queues
      /\ control.poll \in 0..(MaxTime + 1) /\ control.recover \in Times
      /\ control.provider \in 0..MaxTime
  BY DEF Typed, Workers, Controls
<1>2. /\ Later(control.provider, t) \in 0..MaxTime
      /\ (IF control.poll = 0 THEN control.recover
          ELSE Later(control.recover, control.poll + Lease)) \in Times
  BY <1>1, Windows
<1>. DEFINE gap == control.gap \/ (retained /\ Lapsed(t))
            recover == IF control.poll = 0 THEN control.recover
                       ELSE Later(control.recover, control.poll + Lease)
            provider == Later(control.provider, t)
            regressed == t < control.provider
<1>3. gap \in BOOLEAN /\ regressed \in BOOLEAN
  OBVIOUS
<1>4. Begun(t) = [control EXCEPT !.run = TRUE, !.source = worker.source, !.gap = gap,
                    !.ok = FALSE, !.poll = 0, !.quiet = 0, !.recover = recover,
                    !.provider = provider, !.regressed = regressed]
  BY <1>1 DEF Begun, Controls
<1>5. recover \in Times /\ provider \in 0..MaxTime
  BY <1>2
<1>. HIDE DEF gap, recover, provider, regressed
<1>6. Begun(t) \in Controls
  BY <1>1, <1>3, <1>4, <1>5, Zeros DEF Controls
<1>. QED BY <1>1, <1>4, <1>6 DEF Controls

LEMMA RecordedTyped ==
  ASSUME Typed, Loads, NEW o \in Says, control.run
  PROVE  LET c == Recorded(o)
         IN  /\ c \in Controls /\ c.run /\ c.poll = control.poll
             /\ c.source = worker.source /\ (c.gap => ~c.ok) /\ (c.quiet # 0 => c.recover # 0)
<1>1. /\ control \in Controls /\ worker.source \in Queues
      /\ control.recover \in Times /\ control.quiet \in 0..MaxTime
      /\ control.provider \in 0..MaxTime /\ control.observed \in 0..MaxTime
      /\ o.time \in 0..MaxTime
  BY DEF Typed, Workers, Controls, Says
<1>. DEFINE gap == GapAfter(o)
            ok == IF Preserves(o) THEN control.ok ELSE Ready(o)
            observed == IF Ready(o) THEN o.time ELSE control.observed
            provider == IF Advancing(o) THEN o.time ELSE control.provider
            recover == IF Recovered(o) THEN 0 ELSE control.recover
            quiet == QuietAfter(o)
            regressed == IF o.time > 0 THEN ~Advancing(o) ELSE control.regressed
<1>2. /\ gap \in BOOLEAN /\ ok \in BOOLEAN /\ regressed \in BOOLEAN
  BY <1>1 DEF GapAfter, Ready, Advancing, Controls
<1>3. observed \in 0..MaxTime /\ provider \in 0..MaxTime /\ recover \in Times
  BY <1>1, Windows
<1>4. quiet \in 0..MaxTime /\ (quiet # 0 => recover # 0)
  <2>1. CASE control.recover # 0 /\ Quiet(o)
    BY <1>1, <2>1, Zeros DEF QuietAfter, Since
  <2>2. CASE control.recover # 0 /\ ~Quiet(o)
    BY <1>1, <2>2, Windows DEF QuietAfter, Recovered
  <2>3. CASE control.recover = 0
    BY <1>1, <2>3, Windows DEF QuietAfter, Loads
  <2>. QED BY <2>1, <2>2, <2>3
<1>5. gap => ~ok
  BY DEF Preserves, Ready
<1>6. Recorded(o) = [control EXCEPT !.source = worker.source, !.gap = gap, !.ok = ok,
                       !.observed = observed, !.provider = provider, !.recover = recover,
                       !.quiet = quiet, !.regressed = regressed]
  BY <1>1 DEF Recorded, Controls
<1>. HIDE DEF gap, ok, observed, provider, recover, quiet, regressed
<1>7. Recorded(o) \in Controls
  BY <1>1, <1>2, <1>3, <1>4, <1>6 DEF Controls
<1>. QED BY <1>1, <1>4, <1>5, <1>6, <1>7 DEF Controls

LEMMA DeferredTyped ==
  ASSUME Typed, Loads
  PROVE  /\ Deferred \in Controls /\ Deferred.run = control.run /\ Deferred.poll = 0
         /\ Deferred.source = control.source /\ Deferred.observed = control.observed
         /\ ~Deferred.ok /\ Deferred.quiet = 0
<1>1. /\ control \in Controls /\ control.recover \in Times /\ control.poll \in 0..(MaxTime + 1)
  BY DEF Typed, Controls
<1>. DEFINE recover == Later(control.recover, control.poll + Lease)
<1>2. recover \in Times
  BY <1>1, Windows
<1>3. Deferred = [control EXCEPT !.recover = recover, !.poll = 0, !.quiet = 0, !.ok = FALSE]
  BY DEF Deferred
<1>. HIDE DEF recover
<1>4. Deferred \in Controls
  BY <1>1, <1>2, <1>3, Zeros DEF Controls
<1>. QED BY <1>1, <1>3, <1>4 DEF Controls

------------------------------------------------------------------------------
(* The provider, subscribers and the Owner. *)
LEMMA OutsideKeepsInv ==
  ASSUME Inv, UNCHANGED <<control, worker>>, clock' \in 1..MaxTime, retained' \in BOOLEAN
  PROVE  Inv'
BY DEF Inv, Typed, Loads, Course

LEMMA ProviderKeepsInv ==
  ASSUME Inv, Provider
  PROVE  Inv'
<1>1. UNCHANGED <<control, worker, retained>>
  BY DEF Provider, Arrive, Expire, DeadLetter, Strays, Tick
<1>2. clock' = clock \/ (clock' = clock + 1 /\ clock < MaxTime)
  BY DEF Provider, Arrive, Expire, DeadLetter, Strays, Tick
<1>3. clock' \in 1..MaxTime
  <2>1. clock \in 1..MaxTime
    BY DEF Inv, Typed
  <2>. QED BY <1>2, <2>1, FeedbackConstants
<1>4. retained' \in BOOLEAN
  BY <1>1 DEF Inv, Typed
<1>. QED BY <1>1, <1>3, <1>4, OutsideKeepsInv

LEMMA OthersKeepInv ==
  ASSUME Inv, Others
  PROVE  Inv'
<1>1. clock' = clock /\ clock' \in 1..MaxTime
  BY DEF Others, Subscribe, GoStale, ResetConsent, UpdateSettings, external, Inv, Typed
<1>2. CASE Subscribe
  BY <1>1, <1>2, OutsideKeepsInv DEF Subscribe
<1>3. CASE GoStale
  <2>1. control' = [control EXCEPT !.ok = FALSE] /\ UNCHANGED <<worker, retained>>
    BY <1>3 DEF GoStale
  <2>2. control' \in Controls
    BY <2>1 DEF Inv, Typed, Controls
  <2>. QED BY <1>1, <2>1, <2>2 DEF Inv, Typed, Loads, Course, Controls
<1>4. CASE \E b \in Bindings : UpdateSettings(b)
  <2>1. PICK b \in Bindings : control' = [control EXCEPT !.binding = b, !.ok = FALSE]
    BY <1>4 DEF UpdateSettings
  <2>2. UNCHANGED <<worker, retained>>
    BY <1>4 DEF UpdateSettings
  <2>3. control' \in Controls
    BY <2>1 DEF Inv, Typed, Controls
  <2>. QED BY <1>1, <2>1, <2>2, <2>3 DEF Inv, Typed, Loads, Course, Controls
<1>5. CASE ResetConsent
  <2>1. /\ control' = [control EXCEPT
              !.run = FALSE, !.source = None, !.observed = 0, !.gap = FALSE, !.provider = 0,
              !.regressed = FALSE, !.poll = 0, !.recover = 0, !.quiet = 0, !.ok = FALSE]
        /\ worker' = [worker EXCEPT !.leased = FALSE] /\ retained' = FALSE
    BY <1>5 DEF ResetConsent
  <2>2. control' \in Controls /\ ~control'.run /\ ~control'.ok /\ control'.observed = 0
        /\ control'.poll = 0 /\ control'.quiet = 0 /\ ~control'.gap
    BY <2>1, Zeros DEF Inv, Typed, Controls
  <2>3. worker' \in Workers /\ worker'.pc = worker.pc /\ worker'.next = worker.next
    BY <2>1 DEF Inv, Typed, Workers
  <2>. QED BY <1>1, <2>1, <2>2, <2>3 DEF Inv, Typed, Loads, Course
<1>. QED BY <1>2, <1>3, <1>4, <1>5 DEF Others

------------------------------------------------------------------------------
(* The worker, up to the begin of its run. *)
LEMMA ReloadKeepsInv ==
  ASSUME Inv, Reload, UNCHANGED <<control, retained, clock>>
  PROVE  Inv'
<1>1. Typed' /\ Loads'
  BY ReloadTyped DEF Inv, Typed, Loads
<1>. QED BY <1>1, ReloadTyped, OutOfCourse DEF Inv

LEMMA StartKeepsInv ==
  ASSUME Inv, NEW q \in Queues, Start(q)
  PROVE  Inv'
<1>1. /\ control' = [control EXCEPT !.ok = FALSE]
      /\ worker' = [Stopped(q) EXCEPT !.pc = "start", !.binding = control.binding]
      /\ UNCHANGED <<retained, clock>>
  BY DEF Start, external
<1>2. control' \in Controls /\ Loads'
  BY <1>1 DEF Inv, Typed, Loads, Controls
<1>3. /\ worker' \in Workers /\ worker'.pc = "start" /\ worker'.next = "cycle"
  <2>1. [Stopped(q) EXCEPT !.pc = "start"] \in Workers /\ control.binding \in Bindings
    BY StoppedTyped DEF Workers, Inv, Typed, Controls
  <2>2. worker' = [[Stopped(q) EXCEPT !.pc = "start"] EXCEPT !.binding = control.binding]
    BY <1>1, StoppedTyped DEF Workers
  <2>3. worker' \in Workers
    BY <2>1, <2>2 DEF Workers
  <2>. QED BY <2>1, <2>2, <2>3, StoppedTyped DEF Workers
<1>. QED BY <1>1, <1>2, <1>3, OutOfCourse DEF Inv, Typed

LEMMA DisclaimKeepsInv ==
  ASSUME Inv, Disclaim
  PROVE  Inv'
<1>0. UNCHANGED <<retained, clock>> /\ worker.pc = "start"
  BY DEF Disclaim, external, At
<1>1. CASE Ours
  <2>1. control' = [control EXCEPT !.ok = FALSE] /\ worker' = [worker EXCEPT !.pc = "preflight"]
    BY <1>1 DEF Disclaim, Goto
  <2>2. control' \in Controls /\ Loads'
    BY <2>1 DEF Inv, Typed, Loads, Controls
  <2>3. worker' \in Workers /\ worker'.pc = "preflight" /\ worker'.next = "cycle"
    BY <1>0, <2>1 DEF Inv, Typed, Workers, Course
  <2>. QED BY <1>0, <2>2, <2>3, OutOfCourse DEF Inv, Typed
<1>2. CASE ~Ours
  BY <1>0, <1>2, ReloadKeepsInv DEF Disclaim
<1>. QED BY <1>1, <1>2

(* What the provider's clock may read. *)
LEMMA ReadingTyped ==
  ASSUME Inv, NEW t \in {1, clock}
  PROVE  t \in 0..MaxTime
BY Windows DEF Inv, Typed

LEMMA PreflightKeepsInv ==
  ASSUME Inv, NEW t \in {1, clock}, Preflight(t)
  PROVE  Inv'
<1>1. /\ worker.pc = "preflight" /\ UNCHANGED <<control, retained, clock>>
      /\ worker' = [worker EXCEPT !.pc = "begin", !.now = t, !.gap = Dead # {}]
  BY DEF Preflight, external, At
<1>2. t \in 0..MaxTime /\ (Dead # {}) \in BOOLEAN
  BY ReadingTyped
<1>3. worker' \in Workers /\ worker'.pc = "begin" /\ worker'.next = "cycle"
  BY <1>1, <1>2 DEF Inv, Typed, Workers, Course
<1>4. Typed' /\ Loads'
  BY <1>1, <1>3 DEF Inv, Typed, Loads
<1>. QED BY <1>3, <1>4, OutOfCourse

LEMMA BeginRunKeepsInv ==
  ASSUME Inv, BeginRun
  PROVE  Inv'
<1>0. UNCHANGED <<retained, clock>> /\ worker.pc = "begin" /\ worker.now \in 0..MaxTime
  BY DEF BeginRun, external, At, Inv, Typed, Workers
<1>1. CASE Ours
  <2>. DEFINE w == [worker EXCEPT !.recover = control'.recover, !.gap = @ \/ control'.gap]
              o == Observed(worker.now, FALSE)
  <2>1. control' = Begun(worker.now) /\ worker' = Say(w, o)
    BY <1>1 DEF BeginRun
  <2>2. /\ control' \in Controls /\ control'.run /\ control'.poll = 0 /\ ~control'.ok
        /\ control'.source = worker.source /\ control'.quiet = 0
    BY <1>0, <2>1, BegunTyped DEF Inv
  <2>3. w \in Workers /\ w.next = "cycle" /\ o \in Says
    BY <1>0, <2>2 DEF Inv, Typed, Workers, Controls, Course, Observed, Says
  <2>4. worker' \in Workers /\ worker'.pc = "publish" /\ worker'.next = "cycle"
    <3>. HIDE DEF w, o
    <3>. QED BY <2>1, <2>3, SayTyped
  <2>5. Typed'
    BY <1>0, <2>2, <2>4 DEF Inv, Typed
  <2>6. Loads'
    BY <2>2, FeedbackConstants DEF Loads, Inv, Typed, Workers
  <2>7. Course'
    BY <2>2, <2>4 DEF Course
  <2>. QED BY <2>5, <2>6, <2>7 DEF Inv
<1>2. CASE ~Ours
  BY <1>0, <1>2, ReloadKeepsInv DEF BeginRun
<1>. QED BY <1>1, <1>2

------------------------------------------------------------------------------
(* The worker's cycle. *)

(* Steps that leave the row alone need only say where the worker is. *)
LEMMA RowAlone ==
  ASSUME Inv, UNCHANGED <<control, retained, clock>>, worker' \in Workers, Course'
  PROVE  Inv'
BY DEF Inv, Typed, Loads

LEMMA PublishKeepsInv ==
  ASSUME Inv, Publish
  PROVE  Inv'
<1>0. UNCHANGED <<retained, clock>> /\ worker.pc = "publish"
  BY DEF Publish, external, At
<1>1. CASE Held
  <2>1. /\ control' = Recorded(worker.say)
        /\ worker' = [worker EXCEPT !.pc = worker.next, !.next = "cycle", !.say = Unavailable]
    BY <1>1 DEF Publish
  <2>2. worker.say \in Says /\ control.run
    BY <1>1 DEF Inv, Typed, Workers, Held
  <2>3. /\ control' \in Controls /\ control'.run /\ control'.poll = control.poll
        /\ control'.source = worker.source
        /\ (control'.gap => ~control'.ok) /\ (control'.quiet # 0 => control'.recover # 0)
    BY <2>1, <2>2, RecordedTyped DEF Inv
  <2>4. /\ worker' \in Workers /\ worker'.pc = worker.next /\ worker'.next = "cycle"
        /\ worker'.signed = worker.signed
    <3>1. worker \in Workers /\ Unavailable \in Says /\ worker.next \in {"cycle", "poll", "settle"}
      BY StoppedTyped DEF Inv, Typed, Workers
    <3>. QED BY <2>1, <3>1 DEF Workers
  <2>5. Typed'
    BY <1>0, <2>3, <2>4 DEF Inv, Typed
  <2>6. Loads'
    BY <2>3, FeedbackConstants DEF Loads, Inv, Typed, Workers
  <2>7. Course'
    BY <1>0, <2>2, <2>3, <2>4 DEF Inv, Typed, Course, Workers
  <2>. QED BY <2>5, <2>6, <2>7 DEF Inv
<1>2. CASE ~Held
  BY <1>0, <1>2, ReloadKeepsInv DEF Publish
<1>. QED BY <1>1, <1>2

(* Where no poll is on record the worker may say anything. *)
LEMMA SaysKeepsInv ==
  ASSUME Inv, NEW w \in Workers, NEW o \in Says, w.next # "settle",
         worker' = Say(w, o), worker.pc \in {"cycle", "poll", "admit"},
         UNCHANGED <<control, retained, clock>>
  PROVE  Inv'
<1>1. /\ worker' \in Workers /\ worker'.pc = "publish" /\ worker'.next = w.next
  BY SayTyped
<1>2. Course'
  BY <1>1 DEF Inv, Course
<1>. QED BY <1>1, <1>2, RowAlone

LEMMA CyclePreflightKeepsInv ==
  ASSUME Inv, NEW t \in {1, clock}, NEW drained \in BOOLEAN, CyclePreflight(t, drained)
  PROVE  Inv'
<1>0. UNCHANGED <<control, retained, clock>> /\ worker.pc = "cycle" /\ worker \in Workers
      /\ worker.next = "cycle" /\ t \in 0..MaxTime
  BY ReadingTyped DEF CyclePreflight, external, At, Inv, Typed, Course
<1>1. CASE t < worker.now
  <2>. DEFINE w == [worker EXCEPT !.drained = FALSE]
  <2>1. worker' = Say(w, Unavailable)
    BY <1>1 DEF CyclePreflight
  <2>2. w \in Workers /\ w.next = "cycle"
    BY <1>0 DEF Workers
  <2>. HIDE DEF w
  <2>. QED BY <1>0, <2>1, <2>2, StoppedTyped, SaysKeepsInv, FeedbackConstants
<1>2. CASE ~(t < worker.now)
  <2>. DEFINE d == drained /\ Dead = {}
              g == worker.gap \/ Dead # {}
              w == [worker EXCEPT !.now = t, !.drained = d, !.gap = g, !.next = "poll"]
              o == IF d THEN Checked(t) ELSE Observed(t, FALSE)
  <2>1. worker' = Say(w, o)
    BY <1>2 DEF CyclePreflight
  <2>2. d \in BOOLEAN /\ g \in BOOLEAN
    OBVIOUS
  <2>3. o \in Says
    BY <1>0 DEF Checked, Observed, Says
  <2>. HIDE DEF d, g, o
  <2>4. w \in Workers /\ w.next = "poll"
    BY <1>0, <2>2 DEF Workers
  <2>. HIDE DEF w
  <2>. QED BY <1>0, <2>1, <2>3, <2>4, SaysKeepsInv
<1>. QED BY <1>1, <1>2

LEMMA PreflightFailsKeepsInv ==
  ASSUME Inv, NEW broken \in BOOLEAN, PreflightFails(broken)
  PROVE  Inv'
<1>0. UNCHANGED <<retained, clock>> /\ worker.pc \in {"cycle", "preflight"} /\ worker \in Workers
      /\ worker.next = "cycle"
  BY DEF PreflightFails, external, At, Inv, Typed, Course
<1>1. /\ control' \in Controls /\ Loads' /\ control'.run = control.run
      /\ control'.poll = control.poll
  <2>1. CASE broken /\ Ours
    <3>. DEFINE g == control.gap \/ retained
    <3>1. control' = [control EXCEPT !.ok = FALSE, !.gap = g] /\ g \in BOOLEAN
      BY <2>1 DEF PreflightFails, Inv, Typed, Controls
    <3>. HIDE DEF g
    <3>2. control' \in Controls
      BY <3>1 DEF Inv, Typed, Controls
    <3>. QED BY <3>1, <3>2 DEF Inv, Typed, Loads, Controls
  <2>2. CASE ~(broken /\ Ours)
    BY <2>2 DEF PreflightFails, Inv, Typed, Loads
  <2>. QED BY <2>1, <2>2
<1>2. CASE Reload
  BY <1>0, <1>1, <1>2, ReloadTyped, OutOfCourse DEF Inv, Typed
<1>3. CASE worker.pc = "preflight" /\ worker' = [worker EXCEPT !.pc = "start"]
  <2>1. worker' \in Workers /\ worker'.pc = "start" /\ worker'.next = "cycle"
    BY <1>0, <1>3 DEF Workers
  <2>. QED BY <1>0, <1>1, <2>1, OutOfCourse DEF Inv, Typed
<1>4. CASE worker.pc = "cycle" /\ \E o \in {Reconcile, Unavailable} :
             worker' = Say([worker EXCEPT !.drained = FALSE], o)
  <2>. DEFINE w == [worker EXCEPT !.drained = FALSE]
  <2>1. w \in Workers /\ w.next = "cycle"
    BY <1>0 DEF Workers
  <2>2. PICK o \in {Reconcile, Unavailable} : worker' = Say(w, o)
    BY <1>4
  <2>3. o \in Says
    BY StoppedTyped, FeedbackConstants
  <2>. HIDE DEF w
  <2>4. worker' \in Workers /\ worker'.pc = "publish" /\ worker'.next = "cycle"
    BY <2>1, <2>2, <2>3, SayTyped
  <2>. QED BY <1>0, <1>1, <1>4, <2>4 DEF Inv, Typed, Course
<1>. QED BY <1>0, <1>2, <1>3, <1>4 DEF PreflightFails, At

LEMMA GoPollKeepsInv ==
  ASSUME Inv, GoPoll
  PROVE  Inv'
<1>0. UNCHANGED <<control, retained, clock>> /\ worker.pc \in {"cycle", "poll"}
      /\ worker \in Workers /\ worker.next = "cycle"
  BY DEF GoPoll, external, At, Inv, Typed, Course
<1>1. CASE worker' = Say(worker, Unavailable)
  BY <1>0, <1>1, StoppedTyped, SaysKeepsInv, FeedbackConstants
<1>2. CASE worker' = [worker EXCEPT !.pc = "admit"]
  <2>1. worker' \in Workers /\ worker'.pc = "admit" /\ worker'.next = "cycle"
    BY <1>0, <1>2 DEF Workers
  <2>. QED BY <1>0, <2>1, RowAlone DEF Inv, Course
<1>. QED BY <1>1, <1>2 DEF GoPoll

LEMMA AdmitPollKeepsInv ==
  ASSUME Inv, NEW t \in {clock, clock + 1}, AdmitPoll(t)
  PROVE  Inv'
<1>0. UNCHANGED <<retained, clock>> /\ worker.pc = "admit" /\ worker \in Workers
      /\ worker.next = "cycle"
  BY DEF AdmitPoll, external, At, Inv, Typed, Course
<1>1. t \in 0..(MaxTime + 1)
  BY Windows DEF Inv, Typed
<1>2. CASE ~Held /\ Reload /\ UNCHANGED control
  BY <1>0, <1>2, ReloadKeepsInv
<1>3. CASE UNCHANGED control /\ \E o \in {Reconcile, Unavailable} : worker' = Say(worker, o)
  BY <1>0, <1>3, StoppedTyped, SaysKeepsInv, FeedbackConstants
<1>4. CASE /\ Held /\ control' = [control EXCEPT !.poll = t]
           /\ worker' = [worker EXCEPT !.pc = "receive", !.signed = t, !.leased = TRUE]
  <2>1. /\ control' \in Controls /\ control'.poll = t /\ control'.run = control.run /\ control'.run
        /\ control'.gap = control.gap /\ control'.ok = control.ok
        /\ control'.source = control.source /\ control'.observed = control.observed
        /\ control'.quiet = control.quiet /\ control'.recover = control.recover
    BY <1>1, <1>4 DEF Inv, Typed, Controls, Held
  <2>2. /\ worker' \in Workers /\ worker'.pc = "receive" /\ worker'.next = "cycle"
        /\ worker'.signed = t
    BY <1>0, <1>1, <1>4 DEF Workers
  <2>3. Typed'
    BY <1>0, <2>1, <2>2 DEF Inv, Typed
  <2>. QED BY <2>1, <2>2, <2>3 DEF Inv, Loads, Course
<1>. QED BY <1>2, <1>3, <1>4 DEF AdmitPoll

------------------------------------------------------------------------------
(* A poll, from its receive to its settlement. *)

(* The poll on record stays the worker's. *)
LEMMA PolledKeepsInv ==
  ASSUME Inv, UNCHANGED <<control, retained, clock>>, worker' \in Workers,
         worker.pc \in {"receive", "apply", "acknowledge"},
         worker'.pc \in {"apply", "acknowledge", "settle"},
         worker'.next = worker.next, worker'.signed = worker.signed
  PROVE  Inv'
BY RowAlone DEF Inv, Course

LEMMA AnsweredTyped ==
  ASSUME NEW w \in Workers, NEW o \in Says
  PROVE  /\ Answered(w, o) \in Workers /\ Answered(w, o).pc = "settle"
         /\ Answered(w, o).next = w.next /\ Answered(w, o).signed = w.signed
BY DEF Answered, Workers

(* The worker hears a time, or one that is too old, and settles. *)
LEMMA AnswerKeepsInv ==
  ASSUME Inv, UNCHANGED <<control, retained, clock>>,
         worker.pc \in {"receive", "apply", "acknowledge"},
         NEW o \in Says, NEW n \in 0..MaxTime,
         worker' = Answered(worker, o) \/ worker' = Answered([worker EXCEPT !.now = n], o)
  PROVE  Inv'
<1>. DEFINE w == [worker EXCEPT !.now = n]
<1>1. worker \in Workers /\ w \in Workers /\ w.next = worker.next /\ w.signed = worker.signed
  BY DEF Inv, Typed, Workers
<1>2. worker' = Answered(worker, o) \/ worker' = Answered(w, o)
  OBVIOUS
<1>. HIDE DEF w
<1>3. /\ worker' \in Workers /\ worker'.pc = "settle"
      /\ worker'.next = worker.next /\ worker'.signed = worker.signed
  BY <1>1, <1>2, AnsweredTyped
<1>. QED BY <1>3, PolledKeepsInv

LEMMA ReceiveKeepsInv ==
  ASSUME Inv, NEW m \in Messages, Receive(m)
  PROVE  Inv'
<1>1. /\ UNCHANGED <<control, retained, clock>> /\ worker.pc = "receive" /\ worker \in Workers
      /\ worker' = [worker EXCEPT !.pc = "apply", !.message = m, !.drained = FALSE]
  BY DEF Receive, At, Inv, Typed
<1>2. /\ worker' \in Workers /\ worker'.pc = "apply" /\ worker'.next = worker.next
      /\ worker'.signed = worker.signed
  BY <1>1 DEF Workers
<1>. QED BY <1>1, <1>2, PolledKeepsInv

LEMMA AnswersKeepInv ==
  ASSUME Inv, NEW t \in {1, clock},
         ReceiveNothing(t) \/ Acknowledge(t) \/ ReceiveRefused \/ AcknowledgementLost
  PROVE  Inv'
<1>1. /\ UNCHANGED <<control, retained, clock>> /\ worker.pc \in {"receive", "acknowledge"}
      /\ t \in 0..MaxTime /\ worker.drained \in BOOLEAN
  BY ReadingTyped DEF ReceiveNothing, Acknowledge, ReceiveRefused, AcknowledgementLost, At,
                      external, Inv, Typed, Workers
<1>2. /\ Unavailable \in Says
      /\ \A d \in BOOLEAN : Observed(t, d) \in Says
  BY <1>1, Windows DEF Observed, Says, Unavailable
<1>3. \E o \in {Unavailable, Observed(t, FALSE), Observed(t, worker.drained)} :
        worker' = Answered(worker, o) \/ worker' = Answered([worker EXCEPT !.now = t], o)
  BY DEF ReceiveNothing, Acknowledge, ReceiveRefused, AcknowledgementLost
<1>. QED BY <1>1, <1>2, <1>3, AnswerKeepsInv

LEMMA ReceiveLostKeepsInv ==
  ASSUME Inv, ReceiveLost
  PROVE  Inv'
<1>1. /\ UNCHANGED <<control, retained, clock>> /\ worker.pc = "receive" /\ worker \in Workers
      /\ worker' = [worker EXCEPT !.pc = "settle", !.uncertain = TRUE, !.say = Unavailable,
                                  !.recover = worker.signed + Lease]
  BY DEF ReceiveLost, At, Inv, Typed
<1>2. worker.signed + Lease \in Times /\ Unavailable \in Says
  BY <1>1, Windows, StoppedTyped, FeedbackConstants DEF Workers
<1>3. /\ worker' \in Workers /\ worker'.pc = "settle" /\ worker'.next = worker.next
      /\ worker'.signed = worker.signed
  BY <1>1, <1>2 DEF Workers
<1>. QED BY <1>1, <1>3, PolledKeepsInv

LEMMA ApplyKeepsInv ==
  ASSUME Inv, Apply \/ ApplyPoison
  PROVE  Inv'
<1>1. /\ UNCHANGED <<control, retained, clock>> /\ worker.pc = "apply" /\ worker \in Workers
      /\ worker.next = "cycle"
  BY DEF Apply, ApplyPoison, At, external, Inv, Typed, Course
<1>2. CASE worker' = [worker EXCEPT !.pc = "acknowledge"]
  <2>1. /\ worker' \in Workers /\ worker'.pc = "acknowledge" /\ worker'.next = worker.next
        /\ worker'.signed = worker.signed
    BY <1>1, <1>2 DEF Workers
  <2>. QED BY <1>1, <2>1, PolledKeepsInv
<1>3. CASE Reload
  BY <1>1, <1>3, ReloadKeepsInv
<1>4. CASE worker' = [worker EXCEPT !.pc = "publish", !.next = "settle", !.uncertain = TRUE,
                              !.gap = TRUE, !.say = Reconcile]
  <2>1. Reconcile \in Says /\ ~Reconcile.drained
    BY StoppedTyped, FeedbackConstants DEF Reconcile
  <2>2. /\ worker' \in Workers /\ worker'.pc = "publish" /\ worker'.next = "settle"
        /\ worker'.signed = worker.signed /\ worker'.say = Reconcile
    BY <1>1, <1>4, <2>1 DEF Workers
  <2>3. Course'
    BY <1>1, <2>1, <2>2 DEF Inv, Course
  <2>. QED BY <1>1, <2>2, <2>3, RowAlone
<1>. QED BY <1>2, <1>3, <1>4 DEF Apply, ApplyPoison, Goto

LEMMA SettleKeepsInv ==
  ASSUME Inv, Settle
  PROVE  Inv'
<1>0. UNCHANGED <<retained, clock>> /\ worker.pc = "settle" /\ worker \in Workers
      /\ worker.next = "cycle" /\ worker.say \in Says
  BY DEF Settle, external, At, Inv, Typed, Course, Workers
<1>1. CASE Held /\ control.poll # 0
  <2>. DEFINE w == [worker EXCEPT !.message = None, !.signed = 0]
  <2>1. /\ control' = IF worker.uncertain THEN Deferred ELSE [control EXCEPT !.poll = 0]
        /\ worker' = Say(w, worker.say)
    BY <1>1 DEF Settle
  <2>2. control' \in Controls /\ control'.poll = 0 /\ Loads'
    <3>1. CASE worker.uncertain
      <4>1. control' = Deferred
        BY <2>1, <3>1
      <4>. QED BY <4>1, DeferredTyped DEF Inv, Loads
    <3>2. CASE ~worker.uncertain
      <4>1. control' = [control EXCEPT !.poll = 0]
        BY <2>1, <3>2
      <4>2. control' \in Controls
        BY <4>1, Zeros DEF Inv, Typed, Controls
      <4>. QED BY <4>1, <4>2 DEF Inv, Typed, Loads, Controls
    <3>. QED BY <3>1, <3>2
  <2>3. w \in Workers /\ w.next = "cycle"
    BY <1>0, Zeros DEF Workers
  <2>. HIDE DEF w
  <2>4. worker' \in Workers /\ worker'.pc = "publish" /\ worker'.next = "cycle"
    BY <1>0, <2>1, <2>3, SayTyped
  <2>. QED BY <1>0, <2>2, <2>4 DEF Inv, Typed, Course
<1>2. CASE ~(Held /\ control.poll # 0)
  BY <1>0, <1>2, ReloadKeepsInv DEF Settle
<1>. QED BY <1>1, <1>2

LEMMA EndKeepsInv ==
  ASSUME Inv, Shutdown \/ FinishRun \/ Crash
  PROVE  Inv'
<1>0. UNCHANGED <<retained, clock>> /\ worker \in Workers /\ worker.source \in Queues
  BY DEF Shutdown, FinishRun, Crash, external, Inv, Typed, Workers
<1>1. control' \in Controls /\ Loads'
  <2>1. CASE UNCHANGED control
    BY <2>1 DEF Inv, Typed, Loads
  <2>2. CASE control.poll = 0 /\ control' = [control EXCEPT !.run = FALSE, !.ok = FALSE]
    <3>1. control' \in Controls
      BY <2>2 DEF Inv, Typed, Controls
    <3>. QED BY <2>2, <3>1 DEF Inv, Typed, Loads, Controls
  <2>. QED BY <2>1, <2>2 DEF Shutdown, FinishRun, Crash
<1>2. CASE worker' = Stopped(worker.source)
  BY <1>0, <1>1, <1>2, StoppedTyped, OutOfCourse DEF Inv, Typed
<1>3. CASE /\ UNCHANGED control /\ worker.pc \in {"cycle", "poll"}
           /\ worker' = [worker EXCEPT !.pc = "finish"]
  <2>1. worker' \in Workers /\ worker'.pc = "finish" /\ worker'.next = worker.next
    BY <1>0, <1>3 DEF Workers
  <2>. QED BY <1>0, <1>3, <2>1, RowAlone DEF Inv, Course
<1>. QED BY <1>2, <1>3 DEF Shutdown, FinishRun, Crash, At

------------------------------------------------------------------------------
LEMMA StepKeepsInv == Inv /\ [Next]_vars => Inv'
<1>. SUFFICES ASSUME Inv, [Next]_vars PROVE Inv'
  OBVIOUS
<1>1. CASE Worker
  BY <1>1, StartKeepsInv, PreflightKeepsInv, AnswersKeepInv, CyclePreflightKeepsInv,
     AdmitPollKeepsInv, PreflightFailsKeepsInv, ReceiveKeepsInv, DisclaimKeepsInv,
     BeginRunKeepsInv, PublishKeepsInv, GoPollKeepsInv, ReceiveLostKeepsInv, ApplyKeepsInv,
     SettleKeepsInv, EndKeepsInv DEF Worker
<1>2. CASE Provider
  BY <1>2, ProviderKeepsInv
<1>3. CASE Others
  BY <1>3, OthersKeepInv
<1>4. CASE UNCHANGED vars
  BY <1>4, OutsideKeepsInv DEF vars, external, Inv, Typed
<1>. QED BY <1>1, <1>2, <1>3, <1>4 DEF Next

(* Whatever the order of crashes, lost calls, clocks that go back, changes  *)
(* of settings and resets, FeedbackContinuity accepts the row.              *)
THEOREM FeedbackLoads == Spec => []ContinuityLoads
<1>1. Inv => ContinuityLoads
  BY Windows DEF Inv, Typed, Loads, ContinuityLoads, Controls
<1>. QED BY <1>1, InitInv, StepKeepsInv, PTL DEF Spec

(* The worker never finds another poll on record than its own, nor one      *)
(* where it expects none: complete_feedback_poll, begin_feedback_poll and   *)
(* a publication of freshness are never refused as conflicts.               *)
THEOREM FeedbackNeverConflicts == Spec => []NeverConflicts
<1>1. Inv => NeverConflicts
  BY DEF Inv, Typed, Workers, Course, NeverConflicts, Held, At
<1>. QED BY <1>1, InitInv, StepKeepsInv, PTL DEF Spec
=============================================================================
