-------------------------- MODULE LocalLimiterProofs --------------------------
(***************************************************************************)
(* Proofs about LocalLimiter, for any requests, sources, limits and clock: *)
(* requests of one source never take each other's slot or place.           *)
(***************************************************************************)
EXTENDS LocalLimiter, SequenceTheorems, FiniteSetTheorems, TLAPS

Inside == {"admit", "undone", "released"}
Before == {"idle", "enter", "admit"}
Asking == {"body", "wait", "fast", "select"}
Leaving == {"undo", "release"}

\* A slot or a place belongs to a request of its identity that has entered and
\* not yet released, and an identity has only one of the two.
Owned ==
  \A s \in Sources :
    /\ active[s] # None =>
         Source[active[s]] = s /\ pc[active[s]] \in Asking \cup Leaving \cup {"run"}
    /\ waiting[s] # None =>
         /\ Source[waiting[s]] = s /\ pc[waiting[s]] \in Asking \cup Leaving
         /\ active[s] = None

\* Whoever is told of a slot, and has not given it back, has it.
Told ==
  \A r \in Requests :
    /\ pc[r] = "run" => active[Source[r]] = r
    /\ ready[r] = "admitted" /\ pc[r] \in Asking => active[Source[r]] = r
    /\ pc[r] \in Before => ready[r] = "empty"

\* The mutex is held inside the sections, and while Enter has it nobody of the
\* identity gets in.
Locked ==
  /\ \A r \in Requests : pc[r] \in Inside <=> mutex = r
  /\ \A r \in Requests : pc[r] = "admit" => ~Known(r)

Inv == TypeOK /\ Owned /\ Told /\ Locked

LEMMA InvInit == Init => Inv
  <1> SUFFICES ASSUME Init PROVE Inv
    OBVIOUS
  <1>1. TypeOK
    BY ConstantsAssumption DEF Init, TypeOK, Places, Verdicts, Signals
  <1>2. Owned /\ Told /\ Locked
    BY ConstantsAssumption
    DEF Init, Owned, Told, Locked, Inside, Before, Asking, Leaving, Known
  <1> QED BY <1>1, <1>2 DEF Inv

\* A turn of promoteLocked touches nobody but the head of the line.
LEMMA PromoteKeeps == ASSUME Inv, NEW r \in Requests, Promote(r) PROVE Inv'
  <1> DEFINE s == Head(order)
             t == waiting[s]
  <1>1. order # <<>> /\ s \in Sources /\ Tail(order) \in Seq(Sources)
    BY HeadTailProperties DEF Promote, LoopEnds, Inv, TypeOK
  <1>2. t \in Requests \cup {None}
    BY <1>1 DEF Inv, TypeOK
  <1>3. UNCHANGED <<now, pc, stamp, verdict, gone, mutex, at>>
    BY DEF Promote
  <1>4. CASE DropHead
    <2>1. /\ order' = Tail(order) /\ waiting' = [waiting EXCEPT ![s] = None]
          /\ ready' = IF t = None THEN ready ELSE [ready EXCEPT ![t] = "expired"]
          /\ UNCHANGED <<active, queued>>
      BY <1>4 DEF DropHead
    <2>2. ready' \in [Requests -> Signals]
      BY <1>2, <2>1 DEF Inv, TypeOK, Signals
    <2>3. TypeOK'
      BY <1>1, <1>3, <2>1, <2>2 DEF Inv, TypeOK
    <2>4. Owned'
      BY <1>1, <1>3, <2>1 DEF Inv, TypeOK, Owned
    <2>5. \A m \in Requests :
            /\ ready'[m] = "admitted" => ready[m] = "admitted"
            /\ pc[m] \in Before => ready'[m] = "empty"
      <3> SUFFICES ASSUME NEW m \in Requests
                   PROVE  /\ ready'[m] = "admitted" => ready[m] = "admitted"
                          /\ pc[m] \in Before => ready'[m] = "empty"
        OBVIOUS
      <3>1. CASE t = None \/ m # t
        BY <1>2, <2>1, <3>1 DEF Inv, TypeOK, Told
      <3>2. CASE t # None /\ m = t
        <4>1. ready'[m] = "expired"
          BY <1>2, <2>1, <3>2 DEF Inv, TypeOK
        <4>2. pc[m] \notin Before
          BY <1>1, <3>2 DEF Inv, Owned, Before, Asking, Leaving
        <4> QED BY <4>1, <4>2
      <3> QED BY <3>1, <3>2
    <2>6. Told'
      BY <1>3, <2>1, <2>5 DEF Inv, Told
    <2>7. Locked'
      BY <1>1, <1>3, <2>1 DEF Inv, TypeOK, Locked, Known
    <2> QED BY <2>3, <2>4, <2>6, <2>7 DEF Inv
  <1>5. CASE AdmitHead /\ ~HeadExpired
    <2>1. /\ order' = Tail(order) /\ waiting' = [waiting EXCEPT ![s] = None]
          /\ active' = [active EXCEPT ![s] = t] /\ queued' = queued \ {t}
          /\ ready' = [ready EXCEPT ![t] = "admitted"]
      BY <1>5 DEF AdmitHead
    <2>2. t # None /\ t \in Requests
      BY <1>2, <1>5 DEF HeadExpired
    <2>3. active[s] = None /\ Source[t] = s /\ pc[t] \in Asking \cup Leaving
      BY <1>1, <2>2 DEF Inv, Owned
    <2>4. ready' \in [Requests -> Signals] /\ active' \in [Sources -> Requests \cup {None}]
      BY <1>2, <2>1 DEF Inv, TypeOK, Signals
    <2>5. TypeOK'
      BY <1>1, <1>3, <2>1, <2>4 DEF Inv, TypeOK
    <2>6. Owned'
      BY <1>1, <1>3, <2>1, <2>2, <2>3 DEF Inv, TypeOK, Owned
    <2>7. \A m \in Requests : active[Source[m]] = m => active'[Source[m]] = m
      BY <1>1, <2>1, <2>2, <2>3, ConstantsAssumption DEF Inv, TypeOK
    <2>8. active'[Source[t]] = t /\ pc[t] \notin Before
      BY <1>1, <2>1, <2>2, <2>3 DEF Inv, TypeOK, Before, Asking, Leaving
    <2>9. \A m \in Requests : m # t => ready'[m] = ready[m]
      BY <2>1 DEF Inv, TypeOK
    <2>10. Told'
      BY <1>3, <2>7, <2>8, <2>9 DEF Inv, Told
    <2>11. \A m \in Requests : pc[m] = "admit" => Source[m] # s
      BY <2>2 DEF Inv, Locked, Known
    <2>12. Locked'
      BY <1>1, <1>3, <2>1, <2>11, ConstantsAssumption DEF Inv, TypeOK, Locked, Known
    <2> QED BY <2>5, <2>6, <2>10, <2>12 DEF Inv
  <1> QED BY <1>4, <1>5 DEF Promote

LEMMA EnterKeeps ==
    ASSUME Inv, NEW r \in Requests, Arrive(r) \/ Enter(r) \/ Decide(r)
    PROVE  Inv'
  <1> DEFINE s == Source[r]
  <1>0. s \in Sources /\ r # None
    BY ConstantsAssumption
  <1>1. CASE Arrive(r)
    <2>1. /\ pc[r] = "idle" /\ pc' = [pc EXCEPT ![r] = "enter"]
          /\ stamp' = [stamp EXCEPT ![r] = now]
          /\ UNCHANGED <<now, verdict, gone, mutex, at, active, waiting, order, queued, ready>>
      BY <1>1 DEF Arrive, Goto, lists
    <2>2. TypeOK'
      BY <2>1 DEF Inv, TypeOK, Places
    <2>3. Owned' /\ Told' /\ Locked'
      BY <2>1 DEF Inv, TypeOK, Owned, Told, Locked, Known, Inside, Before, Asking, Leaving
    <2> QED BY <2>2, <2>3 DEF Inv
  <1>2. CASE Enter(r)
    <2>1. /\ pc[r] = "enter" /\ mutex = None
          /\ UNCHANGED <<now, stamp, gone, active, waiting, order, queued, ready>>
      BY <1>2 DEF Enter, lists
    <2>2. CASE Known(r)
      <3>1. /\ verdict' = [verdict EXCEPT ![r] = "concurrency"]
            /\ pc' = [pc EXCEPT ![r] = "done"] /\ UNCHANGED <<mutex, at>>
        BY <1>2, <2>2 DEF Enter, Answer, Goto
      <3>2. TypeOK'
        BY <2>1, <3>1 DEF Inv, TypeOK, Places, Verdicts
      <3>3. Owned' /\ Told' /\ Locked'
        BY <2>1, <3>1
        DEF Inv, TypeOK, Owned, Told, Locked, Known, Inside, Before, Asking, Leaving
      <3> QED BY <3>2, <3>3 DEF Inv
    <2>3. CASE ~Known(r)
      <3>1. /\ mutex' = r /\ at' = stamp[r] /\ pc' = [pc EXCEPT ![r] = "admit"]
            /\ verdict' = verdict
        BY <1>2, <2>3 DEF Enter, Goto
      <3>2. TypeOK'
        BY <2>1, <3>1 DEF Inv, TypeOK, Places
      <3>3. Owned' /\ Told'
        BY <2>1, <3>1
        DEF Inv, TypeOK, Owned, Told, Before, Asking, Leaving
      <3>4. Locked'
        BY <1>0, <2>1, <2>3, <3>1, ConstantsAssumption DEF Inv, TypeOK, Locked, Known, Inside
      <3> QED BY <3>2, <3>3, <3>4 DEF Inv
    <2> QED BY <2>2, <2>3
  <1>3. CASE Decide(r)
    <2>1. /\ pc[r] = "admit" /\ mutex = r /\ mutex' = None
          /\ UNCHANGED <<now, stamp, gone, at>>
      BY <1>3 DEF Decide
    <2>2. active[s] = None /\ waiting[s] = None /\ ready[r] = "empty"
      BY <2>1 DEF Inv, Locked, Known, Told, Before
    <2>3. \A m \in Requests : pc[m] \in Inside => m = r
      BY <2>1 DEF Inv, Locked
    <2>4. CASE Answer(r, "queue_full") /\ Goto(r, "done") /\ UNCHANGED lists
      <3>1. /\ verdict' = [verdict EXCEPT ![r] = "queue_full"]
            /\ pc' = [pc EXCEPT ![r] = "done"]
            /\ UNCHANGED <<active, waiting, order, queued, ready>>
        BY <2>4 DEF Answer, Goto, lists
      <3>2. TypeOK'
        BY <2>1, <3>1 DEF Inv, TypeOK, Places, Verdicts
      <3>3. Owned' /\ Told'
        BY <2>1, <3>1 DEF Inv, TypeOK, Owned, Told, Before, Asking, Leaving
      <3>4. Locked'
        BY <1>0, <2>1, <2>3, <3>1, ConstantsAssumption
        DEF Inv, TypeOK, Locked, Known, Inside
      <3> QED BY <3>2, <3>3, <3>4 DEF Inv
    <2>5. CASE /\ queued' = queued \cup {r} /\ waiting' = [waiting EXCEPT ![s] = r]
               /\ order' = Append(order, s) /\ Goto(r, "body")
               /\ UNCHANGED <<verdict, active, ready>>
      <3>1. pc' = [pc EXCEPT ![r] = "body"]
        BY <2>5 DEF Goto
      <3>2. order' \in Seq(Sources)
        BY <1>0, <2>5 DEF Inv, TypeOK
      <3>3. TypeOK'
        BY <1>0, <2>1, <2>5, <3>1, <3>2 DEF Inv, TypeOK, Places
      <3>4. Owned' /\ Told'
        BY <1>0, <2>1, <2>2, <2>5, <3>1
        DEF Inv, TypeOK, Owned, Told, Before, Asking, Leaving
      <3>5. Locked'
        BY <1>0, <2>1, <2>3, <2>5, <3>1, ConstantsAssumption
        DEF Inv, TypeOK, Locked, Known, Inside
      <3> QED BY <3>3, <3>4, <3>5 DEF Inv
    <2>6. CASE /\ active' = [active EXCEPT ![s] = r]
               /\ ready' = [ready EXCEPT ![r] = "admitted"] /\ Goto(r, "body")
               /\ UNCHANGED <<verdict, waiting, order, queued>>
      <3>1. pc' = [pc EXCEPT ![r] = "body"]
        BY <2>6 DEF Goto
      <3>2. TypeOK'
        BY <1>0, <2>1, <2>6, <3>1 DEF Inv, TypeOK, Places, Signals
      <3>3. Owned'
        BY <1>0, <2>1, <2>2, <2>6, <3>1 DEF Inv, TypeOK, Owned, Asking, Leaving
      <3>4. Told'
        BY <1>0, <2>1, <2>2, <2>6, <3>1, ConstantsAssumption
        DEF Inv, TypeOK, Told, Before, Asking
      <3>5. Locked'
        BY <1>0, <2>1, <2>3, <2>6, <3>1, ConstantsAssumption
        DEF Inv, TypeOK, Locked, Known, Inside
      <3> QED BY <3>2, <3>3, <3>4, <3>5 DEF Inv
    <2> QED BY <1>3, <2>4, <2>5, <2>6 DEF Decide
  <1> QED BY <1>1, <1>2, <1>3

\* The line without an identity is a line.
LEMMA WithoutSourceType ==
    ASSUME order \in Seq(Sources), NEW s PROVE WithoutSource(s) \in Seq(Sources)
  <1> DEFINE i == CHOOSE j \in 1..Len(order) : order[j] = s
             n == IF Len(order) = 0 THEN 0 ELSE Len(order) - 1
  <1>1. n \in Nat /\ 1..(Len(order) - 1) = 1..n
    BY LenProperties
  <1>2. \A j \in 1..n : order[j] \in Sources /\ order[j + 1] \in Sources
    BY <1>1, ElementOfSeq, LenProperties
  <1> HIDE DEF i
  <1>3. [j \in 1..n |-> IF j < i THEN order[j] ELSE order[j + 1]] \in [1..n -> Sources]
    BY <1>2
  <1>4. [j \in 1..n |-> IF j < i THEN order[j] ELSE order[j + 1]] \in Seq(Sources)
    BY <1>1, <1>3, SeqDef
  <1>5. WithoutSource(s) = [j \in 1..n |-> IF j < i THEN order[j] ELSE order[j + 1]]
    BY <1>1 DEF WithoutSource, i
  <1> QED BY <1>4, <1>5

\* A Release takes from nobody but the request that calls it.
LEMMA ReleaseKeeps == ASSUME Inv, NEW r \in Requests, Release(r) PROVE Inv'
  <1> DEFINE s == Source[r]
  <1>0. s \in Sources /\ r # None
    BY ConstantsAssumption
  <1>1. ASSUME NEW from \in Leaving, NEW to \in {"undone", "released"},
               BeginRelease(r, from, to)
        PROVE  Inv'
    <2>1. /\ pc[r] \in Leaving /\ mutex = None /\ mutex' = r /\ at' = now
          /\ pc' = [pc EXCEPT ![r] = to] /\ UNCHANGED <<now, stamp, verdict, gone, queued, ready>>
          /\ active' = IF active[s] = r THEN [active EXCEPT ![s] = None] ELSE active
          /\ waiting' = IF waiting[s] = r THEN [waiting EXCEPT ![s] = None] ELSE waiting
          /\ order' = IF waiting[s] = r THEN WithoutSource(s) ELSE order
      BY <1>1 DEF BeginRelease, GiveBack, Goto
    <2>2. order' \in Seq(Sources)
      BY <2>1, WithoutSourceType DEF Inv, TypeOK
    <2>3. /\ active' \in [Sources -> Requests \cup {None}]
          /\ waiting' \in [Sources -> Requests \cup {None}]
      BY <2>1 DEF Inv, TypeOK
    <2>4. /\ \A u \in Sources : active'[u] \in {active[u], None} /\ active'[u] # r
          /\ \A u \in Sources : waiting'[u] \in {waiting[u], None} /\ waiting'[u] # r
      BY <1>0, <2>1 DEF Inv, TypeOK, Owned
    <2>5. \A u \in Sources : /\ active[u] # r => active'[u] = active[u]
                             /\ waiting[u] # r => waiting'[u] = waiting[u]
      BY <2>1 DEF Inv, TypeOK
    <2>6. TypeOK'
      BY <2>1, <2>2, <2>3 DEF Inv, TypeOK, Places
    <2>7. \A m \in Requests : m # r => pc'[m] = pc[m]
      BY <2>1 DEF Inv, TypeOK
    <2>8. pc'[r] = to
      BY <2>1 DEF Inv, TypeOK
    <2>9. Owned'
      BY <2>3, <2>4, <2>5, <2>7 DEF Inv, TypeOK, Owned
    <2>10. Told'
      BY <2>1, <2>5, <2>7, <2>8, ConstantsAssumption
      DEF Inv, Told, Before, Asking
    <2>11. Locked'
      BY <1>0, <2>1, <2>7, <2>8, ConstantsAssumption DEF Inv, Locked, Inside, Known
    <2> QED BY <2>6, <2>9, <2>10, <2>11 DEF Inv
  <1>2. ASSUME NEW from \in {"undone", "released"}, NEW to \in {"release", "done"},
               EndRelease(r, from, to)
        PROVE  Inv'
    <2>1. /\ pc[r] \in {"undone", "released"} /\ mutex = r /\ mutex' = None
          /\ pc' = [pc EXCEPT ![r] = to]
          /\ UNCHANGED <<now, stamp, verdict, gone, at, active, waiting, order, queued, ready>>
      BY <1>2 DEF EndRelease, Goto, lists
    <2>2. TypeOK'
      BY <2>1 DEF Inv, TypeOK, Places
    <2>3. \A m \in Requests : m # r => pc'[m] = pc[m]
      BY <2>1 DEF Inv, TypeOK
    <2>4. pc'[r] = to
      BY <2>1 DEF Inv, TypeOK
    <2>5. Owned' /\ Told'
      BY <2>1, <2>3, <2>4 DEF Inv, TypeOK, Owned, Told, Before, Asking, Leaving
    <2>6. \A m \in Requests : pc[m] \in Inside => m = r
      BY <2>1 DEF Inv, Locked
    <2>7. Locked'
      BY <1>0, <2>1, <2>3, <2>4, <2>6, ConstantsAssumption DEF Inv, Locked, Inside, Known
    <2> QED BY <2>2, <2>5, <2>7 DEF Inv
  <1> QED BY <1>1, <1>2 DEF Release, Leaving

\* Nothing of Wait, of the body or of the handler touches the lists.
LEMMA WaitKeeps ==
    ASSUME Inv, NEW r \in Requests,
           ReadBody(r) \/ BeginWait(r) \/ TakeReady(r) \/ TakeCancelled(r)
             \/ TimerFires(r) \/ Serve(r)
    PROVE  Inv'
  <1>1. /\ UNCHANGED <<now, stamp, gone, mutex, at, active, waiting, order, queued>>
        /\ verdict' = verdict \/ \E v \in Verdicts : verdict' = [verdict EXCEPT ![r] = v]
        /\ ready' = ready \/ ready' = [ready EXCEPT ![r] = "empty"]
    BY DEF ReadBody, BeginWait, TakeReady, TakeCancelled, TimerFires, Serve, Receive,
      Goto, Answer, lists, Verdicts
  <1>2. PICK to \in Asking \cup Leaving \cup {"run"} : pc' = [pc EXCEPT ![r] = to]
    BY DEF ReadBody, BeginWait, TakeReady, TakeCancelled, TimerFires, Serve, Receive,
      Goto, Asking, Leaving
  <1>3. pc[r] \in Asking \cup {"run"}
    BY DEF ReadBody, BeginWait, TakeReady, TakeCancelled, TimerFires, Serve, Asking
  <1>4. to = "run" => pc[r] \in Asking /\ ready[r] = "admitted"
    BY <1>2 DEF ReadBody, BeginWait, TakeReady, TakeCancelled, TimerFires, Serve, Receive,
      Goto, Asking, Inv, TypeOK
  <1>5. to \in Asking => pc[r] \in Asking
    BY <1>2 DEF ReadBody, BeginWait, TakeReady, TakeCancelled, TimerFires, Serve, Receive,
      Goto, Asking, Inv, TypeOK
  <1>6. /\ pc'[r] = to /\ \A m \in Requests : m # r => pc'[m] = pc[m]
        /\ \A m \in Requests : ready'[m] \in {ready[m], "empty"}
    BY <1>1, <1>2 DEF Inv, TypeOK
  <1>7. TypeOK'
    <2>1. pc' \in [Requests -> Places]
      BY <1>2 DEF Inv, TypeOK, Places, Asking, Leaving
    <2>2. verdict' \in [Requests -> Verdicts] /\ ready' \in [Requests -> Signals]
      BY <1>1 DEF Inv, TypeOK, Signals
    <2> QED BY <1>1, <2>1, <2>2 DEF Inv, TypeOK
  <1>8. to = "run" => active[Source[r]] = r
    BY <1>4 DEF Inv, Told
  <1>9. Owned'
    <2>1. \A u \in Sources : waiting[u] = r => to # "run"
      BY <1>8, ConstantsAssumption DEF Inv, Owned
    <2> QED BY <1>1, <1>2, <1>6, <2>1 DEF Inv, TypeOK, Owned
  <1>10. Told'
    BY <1>1, <1>2, <1>3, <1>5, <1>6, <1>8 DEF Inv, TypeOK, Told, Before, Asking, Leaving, Signals
  <1>11. Locked'
    BY <1>1, <1>2, <1>3, <1>6 DEF Inv, Locked, Known, Inside, Asking, Leaving
  <1> QED BY <1>7, <1>9, <1>10, <1>11 DEF Inv

LEMMA InvNext == Inv /\ [Next]_vars => Inv'
  <1> SUFFICES ASSUME Inv, [Next]_vars PROVE Inv'
    OBVIOUS
  <1>1. CASE UNCHANGED vars
    BY <1>1 DEF vars, Inv, TypeOK, Owned, Told, Locked, Known
  <1>2. ASSUME NEW r \in Requests, Arrive(r) \/ Step(r) PROVE Inv'
    BY <1>2, PromoteKeeps, EnterKeeps, ReleaseKeeps, WaitKeeps DEF Step
  <1>3. ASSUME NEW r \in Requests, Disconnect(r) PROVE Inv'
    <2>1. /\ gone' = gone \cup {r}
          /\ UNCHANGED <<now, pc, stamp, verdict, mutex, at, active, waiting, order, queued, ready>>
      BY <1>3 DEF Disconnect, lists
    <2> QED BY <2>1 DEF Inv, TypeOK, Owned, Told, Locked, Known
  <1>4. CASE Tick
    <2>1. /\ now' = now + 1
          /\ UNCHANGED <<pc, stamp, verdict, gone, mutex, at, active, waiting, order, queued, ready>>
      BY <1>4 DEF Tick, lists
    <2> QED BY <2>1 DEF Inv, TypeOK, Owned, Told, Locked, Known
  <1> QED BY <1>1, <1>2, <1>3, <1>4 DEF Next

\* Every variable keeps its kind of value, for any requests and limits.
THEOREM TypeCorrect == Spec => []TypeOK
  <1>1. Inv => TypeOK
    BY DEF Inv
  <1> QED BY <1>1, InvInit, InvNext, PTL DEF Spec

\* However timeouts, cancellations and promotions interleave, and whatever the
\* limits: a request that executes has its identity's slot, no identity has
\* two requests past admission, and none leaves anything behind.
THEOREM SourcesAreSound == Spec => []SourcesSound
  <1>1. Inv => SourcesSound
    <2> SUFFICES ASSUME Inv PROVE SourcesSound
      OBVIOUS
    <2>1. RunnersHoldSlots
      BY DEF Inv, Told, RunnersHoldSlots
    <2>2. OnePerSource
      BY ConstantsAssumption DEF Inv, Owned, Told, OnePerSource
    <2>3. NothingLeftBehind
      BY DEF Inv, Owned, NothingLeftBehind, Asking, Leaving
    <2> QED BY <2>1, <2>2, <2>3 DEF SourcesSound
  <1> QED BY <1>1, InvInit, InvNext, PTL DEF Spec

-----------------------------------------------------------------------------
(* The limiter is an admission gate.                                       *)

PlaceOf == [r \in Requests |-> Place(r)]

\* Where a request stands, spelled out for each of its places.
LEMMA PlaceIs ==
    ASSUME Inv, NEW r \in Requests
    PROVE  /\ pc[r] = "idle" <=> Place(r) = "outside"
           /\ pc[r] \in {"enter", "admit"} => Place(r) = "waiting"
           /\ waiting[Source[r]] = r => Place(r) = "waiting"
           /\ active[Source[r]] = r => Place(r) = "executing"
           /\ pc[r] \notin Before /\ active[Source[r]] # r /\ waiting[Source[r]] # r
                => Place(r) = "left"
           /\ Place(r) = "executing" => active[Source[r]] = r
  <1>1. /\ active[Source[r]] = r =>
             pc[r] \notin Before /\ waiting[Source[r]] # r
        /\ waiting[Source[r]] = r => pc[r] \notin Before
    BY ConstantsAssumption DEF Inv, Owned, Before, Asking, Leaving
  <1> QED BY <1>1 DEF Place, Before

\* One request at a time is let through, each into a free slot.
LEMMA RoomAtTheGate ==
    ASSUME Inv, Cardinality(Holders) < maximum
    PROVE  Cardinality({r \in Requests : Place(r) = "executing"}) < maximum
  <1> DEFINE E == {r \in Requests : Place(r) = "executing"}
             f == [r \in E |-> Source[r]]
  <1>1. IsFiniteSet(Holders)
    BY ConstantsAssumption, FS_Subset DEF Holders
  <1>2. \A r \in E : Source[r] \in Holders /\ active[Source[r]] = r
    BY PlaceIs, ConstantsAssumption DEF Holders
  <1>3. f \in Injection(E, Holders)
    BY <1>2 DEF Injection, IsInjective
  <1>4. IsFiniteSet(E) /\ Cardinality(E) <= Cardinality(Holders)
    BY <1>1, <1>3, FS_Injection
  <1>5. Cardinality(E) \in Nat /\ Cardinality(Holders) \in Nat
    BY <1>1, <1>4, FS_CardinalityType
  <1> QED BY <1>4, <1>5, ConstantsAssumption

\* What one request does at the gate, while nobody else moves.
LEMMA GateMove ==
    ASSUME Inv, NEW r \in Requests,
           \A m \in Requests : m # r => Place(m)' = Place(m),
           \/ Place(r)' = Place(r)
           \/ Place(r) = "outside" /\ Place(r)' = "waiting"
           \/ /\ Place(r) = "waiting" /\ Place(r)' = "executing"
              /\ Cardinality(Holders) < maximum
           \/ Place(r) \in {"waiting", "executing"} /\ Place(r)' = "left"
    PROVE  Gate!Next \/ PlaceOf' = PlaceOf
  <1>1. CASE Place(r)' = Place(r)
    BY <1>1 DEF PlaceOf
  <1>2. CASE Place(r) = "outside" /\ Place(r)' = "waiting"
    <2>1. PlaceOf' = [PlaceOf EXCEPT ![r] = "waiting"] /\ PlaceOf[r] = "outside"
      BY <1>2 DEF PlaceOf
    <2> QED BY <2>1 DEF PlaceOf, Gate!Next, Gate!Approach, Gate!Outside, Gate!Waiting
  <1>3. CASE /\ Place(r) = "waiting" /\ Place(r)' = "executing"
             /\ Cardinality(Holders) < maximum
    <2>1. PlaceOf' = [PlaceOf EXCEPT ![r] = "executing"] /\ PlaceOf[r] = "waiting"
      BY <1>3 DEF PlaceOf
    <2>2. {m \in Requests : PlaceOf[m] = "executing"} = {m \in Requests : Place(m) = "executing"}
      BY DEF PlaceOf
    <2>3. Cardinality({m \in Requests : PlaceOf[m] = "executing"}) < maximum
      BY <1>3, <2>2, RoomAtTheGate
    <2>4. \A S : Gate!Cardinality(S) = Cardinality(S)
      BY DEF Gate!Cardinality, Cardinality
    <2> QED BY <2>1, <2>3, <2>4
      DEF PlaceOf, Gate!Next, Gate!Admit, Gate!At, Gate!Waiting, Gate!Running
  <1>4. CASE Place(r) \in {"waiting", "executing"} /\ Place(r)' = "left"
    <2>1. PlaceOf' = [m \in Requests |-> IF m \in {r} THEN "left" ELSE PlaceOf[m]]
      BY <1>4 DEF PlaceOf
    <2>2. PlaceOf[r] \in {"waiting", "executing"}
      BY <1>4 DEF PlaceOf
    <2>3. Gate!Leave({r})
      BY <2>1, <2>2 DEF Gate!Leave, Gate!Left, Gate!Waiting, Gate!Running, PlaceOf
    <2> QED BY <2>3 DEF Gate!Next
  <1> QED BY <1>1, <1>2, <1>3, <1>4

\* promoteLocked lets its head through, or out.
LEMMA GatePromote ==
    ASSUME Inv, Inv', NEW r \in Requests, Promote(r)
    PROVE  Gate!Next \/ PlaceOf' = PlaceOf
  <1>0. order # <<>> /\ Head(order) \in Sources /\ pc' = pc
    BY HeadTailProperties DEF Promote, LoopEnds, Inv, TypeOK
  <1> PICK s \in Sources : s = Head(order)
    BY <1>0
  <1> PICK t \in Requests \cup {None} : t = waiting[s]
    BY DEF Inv, TypeOK
  <1>1. order # <<>> /\ s = Head(order) /\ t = waiting[s] /\ pc' = pc
    BY <1>0
  <1>2. t # None => Source[t] = s /\ active[s] = None
    BY <1>1 DEF Inv, Owned
  <1>3. waiting' = [waiting EXCEPT ![s] = None]
    BY DEF Promote, DropHead, AdmitHead
  <1>4. \A u \in Sources : u # s => waiting'[u] = waiting[u] /\ active'[u] = active[u]
    BY <1>1, <1>3 DEF Promote, DropHead, AdmitHead, Inv, TypeOK
  <1>5. waiting'[s] = None
    BY <1>1, <1>3 DEF Inv, TypeOK
  <1>6. CASE t = None
    <2>1. waiting' = waiting /\ active' = active
      BY <1>1, <1>3, <1>6 DEF Promote, HeadExpired, DropHead, Inv, TypeOK
    <2> QED BY <1>1, <2>1 DEF PlaceOf, Place
  <1>7. CASE t # None
    <2>1. t \in Requests /\ Source[t] = s /\ active[s] = None /\ waiting[s] = t
      BY <1>1, <1>2, <1>7
    <2>2. active'[s] \in {None, t}
      BY <1>1, <2>1 DEF Promote, DropHead, AdmitHead, Inv, TypeOK
    <2>3. \A m \in Requests : m # t => Place(m)' = Place(m)
      BY <1>1, <1>4, <1>5, <2>1, <2>2, ConstantsAssumption DEF Place
    <2>4. Place(t) = "waiting" /\ pc[t] \notin Before
      <3>1. Place(t) = "waiting"
        BY <2>1, PlaceIs
      <3>2. pc[t] \in Asking \cup Leaving
        BY <1>1, <2>1, ConstantsAssumption DEF Inv, Owned
      <3> QED BY <3>1, <3>2 DEF Before, Asking, Leaving
    <2>5. active'[s] = None => Place(t)' = "left"
      BY <1>1, <1>5, <2>1, <2>4, ConstantsAssumption DEF Place, Before
    <2>6. active'[s] = t => Place(t)' = "executing" /\ Cardinality(Holders) < maximum
      <3>1. ASSUME active'[s] = t PROVE Cardinality(Holders) < maximum
        <4>1. ~HeadExpired
          BY <2>1, <3>1, ConstantsAssumption DEF Promote, DropHead, Inv, TypeOK
        <4>2. ~(Cardinality(Holders) >= maximum)
          BY <1>1, <4>1 DEF Promote, LoopEnds
        <4>3. Cardinality(Holders) \in Nat
          BY ConstantsAssumption, FS_Subset, FS_CardinalityType DEF Holders
        <4> QED BY <4>2, <4>3, ConstantsAssumption
      <3>2. active'[s] = t => Place(t)' = "executing"
        BY <1>1, <1>5, <2>1, <2>4, ConstantsAssumption DEF Place, Before
      <3> QED BY <3>1, <3>2
    <2> QED BY <2>1, <2>2, <2>3, <2>4, <2>5, <2>6, GateMove
  <1> QED BY <1>6, <1>7

LEMMA GateEnter ==
    ASSUME Inv, Inv', NEW r \in Requests, Arrive(r) \/ Enter(r) \/ Decide(r)
    PROVE  Gate!Next \/ PlaceOf' = PlaceOf
  <1> DEFINE s == Source[r]
  <1>0. s \in Sources /\ r # None
    BY ConstantsAssumption
  <1>1. CASE Arrive(r) \/ Enter(r)
    <2>1. /\ UNCHANGED <<active, waiting>> /\ \A m \in Requests : m # r => pc'[m] = pc[m]
          /\ \/ pc[r] = "idle" /\ pc'[r] = "enter"
             \/ pc[r] = "enter" /\ pc'[r] \in {"admit", "done"}
      BY <1>1 DEF Arrive, Enter, Goto, lists, Inv, TypeOK
    <2>2. \A m \in Requests : m # r => Place(m)' = Place(m)
      BY <2>1 DEF Place
    <2>3. active[s] # r /\ waiting[s] # r
      BY <1>0, <2>1 DEF Inv, Owned, Asking, Leaving
    <2>4. active'[s] # r /\ waiting'[s] # r
      BY <2>1, <2>3
    <2>5. \/ Place(r)' = Place(r)
          \/ Place(r) = "outside" /\ Place(r)' = "waiting"
          \/ Place(r) = "waiting" /\ Place(r)' = "left"
      <3>1. CASE pc[r] = "idle" /\ pc'[r] = "enter"
        BY <2>3, <2>4, <3>1 DEF Place
      <3>2. CASE pc[r] = "enter" /\ pc'[r] \in {"admit", "done"}
        BY <2>3, <2>4, <3>2 DEF Place
      <3> QED BY <2>1, <3>1, <3>2
    <2> QED BY <2>2, <2>5, GateMove
  <1>2. CASE Decide(r)
    <2>1. /\ pc[r] = "admit" /\ active[s] = None /\ waiting[s] = None
          /\ \A m \in Requests : m # r => pc'[m] = pc[m]
      BY <1>2 DEF Decide, Goto, Inv, TypeOK, Locked, Known
    <2>2. Place(r) = "waiting"
      BY <1>0, <2>1 DEF Place
    <2>3. /\ \A u \in Sources : u # s => waiting'[u] = waiting[u] /\ active'[u] = active[u]
          /\ active'[s] \in {None, r} /\ waiting'[s] \in {None, r}
      BY <1>0, <1>2, <2>1 DEF Decide, lists, Inv, TypeOK
    <2>4. \A m \in Requests : m # r => Place(m)' = Place(m)
      BY <2>1, <2>3, ConstantsAssumption DEF Place
    <2>5. pc'[r] \in {"done", "body"}
      BY <1>2 DEF Decide, Goto, Inv, TypeOK
    <2>6. Place(r)' \in {"waiting", "executing", "left"}
      BY <2>5 DEF Place
    <2>7. Place(r)' = "executing" => Cardinality(Holders) < maximum
      <3>1. ASSUME Place(r)' = "executing" PROVE Cardinality(Holders) < maximum
        <4>1. active'[s] = r
          BY <2>5, <3>1 DEF Place
        <4>2. ~(Cardinality(Holders) >= maximum)
          BY <1>0, <1>2, <2>1, <4>1 DEF Decide, lists
        <4>3. Cardinality(Holders) \in Nat
          BY ConstantsAssumption, FS_Subset, FS_CardinalityType DEF Holders
        <4> QED BY <4>2, <4>3, ConstantsAssumption
      <3> QED BY <3>1
    <2> QED BY <2>2, <2>4, <2>6, <2>7, GateMove
  <1> QED BY <1>1, <1>2

LEMMA GateRelease ==
    ASSUME Inv, Inv', NEW r \in Requests, Release(r)
    PROVE  Gate!Next \/ PlaceOf' = PlaceOf
  <1> DEFINE s == Source[r]
  <1>0. s \in Sources /\ r # None
    BY ConstantsAssumption
  <1>1. /\ \A m \in Requests : m # r => pc'[m] = pc[m]
        /\ pc[r] \notin Before /\ pc'[r] \notin Before
    BY DEF Release, BeginRelease, EndRelease, Goto, Before, Inv, TypeOK
  <1>2. /\ \A u \in Sources : u # s => waiting'[u] = waiting[u] /\ active'[u] = active[u]
        /\ active'[s] = active[s] \/ (active[s] = r /\ active'[s] = None)
        /\ waiting'[s] = waiting[s] \/ (waiting[s] = r /\ waiting'[s] = None)
    <2>1. CASE UNCHANGED <<active, waiting>>
      BY <2>1
    <2>2. CASE GiveBack(r)
      BY <1>0, <2>2 DEF GiveBack, Inv, TypeOK
    <2> QED BY <2>1, <2>2 DEF Release, BeginRelease, EndRelease, lists
  <1>3. \A m \in Requests : m # r => Place(m)' = Place(m)
    BY <1>0, <1>1, <1>2, ConstantsAssumption DEF Place
  <1>4. active[s] = r => waiting[s] # r
    BY <1>0 DEF Inv, Owned
  <1>5. \/ Place(r)' = Place(r)
        \/ Place(r) \in {"waiting", "executing"} /\ Place(r)' = "left"
    BY <1>0, <1>1, <1>2, <1>4 DEF Place, Before
  <1> QED BY <1>3, <1>5, GateMove

LEMMA GateWait ==
    ASSUME Inv, Inv', NEW r \in Requests,
           ReadBody(r) \/ BeginWait(r) \/ TakeReady(r) \/ TakeCancelled(r)
             \/ TimerFires(r) \/ Serve(r) \/ Disconnect(r)
    PROVE  PlaceOf' = PlaceOf
  <1>1. UNCHANGED <<active, waiting>> /\ pc[r] \notin Before /\ pc'[r] \notin Before
        /\ \A m \in Requests : m # r => pc'[m] = pc[m]
    BY DEF ReadBody, BeginWait, TakeReady, TakeCancelled, TimerFires, Serve, Receive,
      Disconnect, Goto, lists, Before, Inv, TypeOK
  <1>2. \A m \in Requests : Place(m)' = Place(m)
    BY <1>1 DEF Place, Before
  <1> QED BY <1>2 DEF PlaceOf

LEMMA GateStep == Inv /\ Inv' /\ [Next]_vars => Gate!Next \/ PlaceOf' = PlaceOf
  <1> SUFFICES ASSUME Inv, Inv', [Next]_vars PROVE Gate!Next \/ PlaceOf' = PlaceOf
    OBVIOUS
  <1>1. CASE UNCHANGED vars \/ Tick
    BY <1>1 DEF vars, Tick, lists, PlaceOf, Place
  <1>2. ASSUME NEW r \in Requests, Arrive(r) \/ Step(r) \/ Disconnect(r)
        PROVE  Gate!Next \/ PlaceOf' = PlaceOf
    BY <1>2, GatePromote, GateEnter, GateRelease, GateWait DEF Step
  <1> QED BY <1>1, <1>2 DEF Next

\* The in-process limiter is an admission gate for any requests, sources and
\* limits: it lets a request through only while fewer than maximum hold a
\* slot, and a request that has left does not come back.
THEOREM ImplementsGate == Spec => GateSpec
  <1>1. Init => Gate!Init
    <2>1. ASSUME Init
          PROVE  [r \in Requests |-> Place(r)] = [r \in Requests |-> "outside"]
      BY <2>1, ConstantsAssumption DEF Init, Place
    <2> QED BY <2>1 DEF Gate!Init, Gate!Outside
  <1>2. Inv /\ Inv' /\ [Next]_vars => [Gate!Next]_([r \in Requests |-> Place(r)])
    BY GateStep DEF PlaceOf
  <1> QED BY <1>1, <1>2, InvInit, InvNext, PTL DEF Spec, GateSpec, Gate!Spec

-----------------------------------------------------------------------------
(* The line in front of the slots.                                         *)

\* The parts of LineSound that every step keeps, and the bound on the slots.
LineInv ==
  LineMatches /\ WorkConserving /\ FixedCapacity /\ SendNeverBlocks
    /\ Cardinality(Holders) <= maximum

LEMMA SetsFinite ==
    /\ IsFiniteSet(Holders) /\ Cardinality(Holders) \in Nat
    /\ IsFiniteSet(Waiters) /\ Cardinality(Waiters) \in Nat
  BY ConstantsAssumption, FS_Subset, FS_CardinalityType DEF Holders, Waiters

\* The slice and the map have the same size.
LEMMA LineLength ==
    ASSUME Inv, LineMatches PROVE Len(order) = Cardinality(Waiters)
  <1> DEFINE f == [i \in 1..Len(order) |-> order[i]]
  <1>1. Len(order) \in Nat /\ \A i \in 1..Len(order) : order[i] \in Sources
    BY ElementOfSeq, LenProperties DEF Inv, TypeOK
  <1>2. f \in Bijection(1..Len(order), Waiters)
    <2>1. f \in [1..Len(order) -> Waiters]
      BY <1>1 DEF LineMatches, Waiters
    <2>2. \A i, j \in 1..Len(order) : f[i] = f[j] => i = j
      BY DEF LineMatches
    <2>3. \A s \in Waiters : \E i \in 1..Len(order) : f[i] = s
      BY DEF LineMatches, Waiters
    <2> QED BY <2>1, <2>2, <2>3 DEF Bijection, Injection, Surjection, IsInjective
  <1>3. IsFiniteSet(1..Len(order)) /\ Cardinality(1..Len(order)) = Len(order)
    BY <1>1, FS_Interval
  <1>4. Cardinality(Waiters) = Cardinality(1..Len(order))
    BY <1>2, <1>3, FS_Bijection DEF ExistsBijection
  <1> QED BY <1>3, <1>4

LEMMA LineInit == Init => LineInv
  <1> SUFFICES ASSUME Init PROVE LineInv
    OBVIOUS
  <1>1. Cardinality(Holders) <= maximum
    <2>1. Holders = {}
      BY DEF Init, Holders
    <2> QED BY <2>1, FS_EmptySet, ConstantsAssumption
  <1>2. LineMatches /\ SendNeverBlocks
    BY DEF Init, LineMatches, SendNeverBlocks
  <1>3. FixedCapacity /\ WorkConserving
    BY ConstantsAssumption DEF Init, FixedCapacity, WorkConserving
  <1> QED BY <1>1, <1>2, <1>3 DEF LineInv

\* What leaving the line at its head does to slice and map.
LEMMA HeadLeaves ==
    ASSUME Inv, LineMatches, order # <<>>, order' = Tail(order),
           waiting' = [waiting EXCEPT ![Head(order)] = None]
    PROVE  LineMatches' /\ Len(order') = Len(order) - 1 /\ waiting[Head(order)] # None
  <1>1. /\ Len(order) \in Nat \ {0} /\ Head(order) = order[1] /\ Head(order) \in Sources
        /\ \A i \in 1..Len(order) : order[i] \in Sources
    BY HeadTailProperties, ElementOfSeq, EmptySeq, LenProperties DEF Inv, TypeOK
  <1>2. /\ Len(order') = Len(order) - 1
        /\ \A i \in 1..Len(order') : order'[i] = order[i + 1]
    BY HeadTailProperties DEF Inv, TypeOK
  <1>3. \A s \in Sources : waiting'[s] # None <=> waiting[s] # None /\ s # order[1]
    BY <1>1 DEF Inv, TypeOK
  <1>4. \A i, j \in 1..Len(order') : order'[i] = order'[j] => i = j
    BY <1>1, <1>2 DEF LineMatches
  <1>5. ASSUME NEW s \in Sources
        PROVE  waiting'[s] # None <=> \E i \in 1..Len(order') : order'[i] = s
    <2>1. ASSUME waiting'[s] # None PROVE \E i \in 1..Len(order') : order'[i] = s
      <3>1. PICK i \in 1..Len(order) : order[i] = s
        BY <1>3, <2>1 DEF LineMatches
      <3>2. i # 1 /\ i - 1 \in 1..Len(order')
        BY <1>1, <1>2, <1>3, <2>1, <3>1
      <3>3. order'[i - 1] = s
        BY <1>2, <3>1, <3>2
      <3> QED BY <3>2, <3>3
    <2>2. ASSUME NEW i \in 1..Len(order'), order'[i] = s PROVE waiting'[s] # None
      <3>1. i + 1 \in 1..Len(order) /\ order[i + 1] = s /\ i + 1 # 1
        BY <1>1, <1>2, <2>2
      <3>2. s # order[1]
        BY <1>1, <3>1 DEF LineMatches
      <3> QED BY <1>3, <3>1, <3>2 DEF LineMatches
    <2> QED BY <2>1, <2>2
  <1>6. waiting[Head(order)] # None
    BY <1>1 DEF LineMatches
  <1> QED BY <1>2, <1>4, <1>5, <1>6 DEF LineMatches

\* What joining the line at its end does to slice and map.
LEMMA TailJoins ==
    ASSUME order \in Seq(Sources), waiting \in [Sources -> Requests \cup {None}],
           LineMatches, NEW s \in Sources, NEW r \in Requests, waiting[s] = None,
           order' = Append(order, s), waiting' = [waiting EXCEPT ![s] = r]
    PROVE  LineMatches' /\ Len(order') = Len(order) + 1 /\ Len(order) \in Nat
  <1>1. /\ Len(order) \in Nat /\ Len(order') = Len(order) + 1
        /\ \A i \in 1..Len(order) : order'[i] = order[i]
        /\ order'[Len(order) + 1] = s
    BY AppendProperties, LenProperties
  <1>2. \A i \in 1..Len(order') : i \in 1..Len(order) \/ i = Len(order) + 1
    BY <1>1
  <1>3. \A i \in 1..Len(order) : order[i] # s
    BY DEF LineMatches
  <1>4. \A i, j \in 1..Len(order') : order'[i] = order'[j] => i = j
    BY <1>1, <1>2, <1>3 DEF LineMatches
  <1>5. ASSUME NEW u \in Sources
        PROVE  waiting'[u] # None <=> \E i \in 1..Len(order') : order'[i] = u
    <2>1. CASE u = s
      <3>1. waiting'[u] # None
        BY <2>1, ConstantsAssumption
      <3>2. Len(order) + 1 \in 1..Len(order')
        BY <1>1
      <3> QED BY <1>1, <2>1, <3>1, <3>2
    <2>2. CASE u # s
      <3>1. waiting'[u] = waiting[u]
        BY <2>2
      <3>2. ASSUME NEW i \in 1..Len(order), order[i] = u
            PROVE  \E k \in 1..Len(order') : order'[k] = u
        BY <1>1, <3>2
      <3>3. ASSUME NEW i \in 1..Len(order'), order'[i] = u
            PROVE  \E k \in 1..Len(order) : order[k] = u
        BY <1>1, <1>2, <2>2, <3>3
      <3> QED BY <3>1, <3>2, <3>3 DEF LineMatches
    <2> QED BY <2>1, <2>2
  <1> QED BY <1>1, <1>4, <1>5 DEF LineMatches

\* What removeOrder does to slice and map.
LEMMA MiddleLeaves ==
    ASSUME Inv, LineMatches, NEW s \in Sources, waiting[s] # None,
           order' = WithoutSource(s), waiting' = [waiting EXCEPT ![s] = None]
    PROVE  LineMatches' /\ Len(order') = Len(order) - 1
  <1>1. Len(order) \in Nat
    BY LenProperties DEF Inv, TypeOK
  <1>2. PICK i \in 1..Len(order) : order[i] = s
    BY DEF LineMatches
  <1>3. (CHOOSE j \in 1..Len(order) : order[j] = s) = i
    BY <1>2 DEF LineMatches
  <1>4. order' = [j \in 1..(Len(order) - 1) |-> IF j < i THEN order[j] ELSE order[j + 1]]
    BY <1>3 DEF WithoutSource
  <1>5. Len(order') = Len(order) - 1
    <2>1. Len(order) - 1 \in Nat
      BY <1>1, <1>2
    <2>2. order' \in Seq(Sources)
      BY WithoutSourceType DEF Inv, TypeOK
    <2>3. DOMAIN order' = 1..(Len(order) - 1)
      BY <1>4
    <2> QED BY <2>1, <2>2, <2>3, LenProperties
  <1>6. \A j \in 1..Len(order') :
           order'[j] = IF j < i THEN order[j] ELSE order[j + 1]
    BY <1>4, <1>5
  <1>7. \A j, k \in 1..Len(order') : order'[j] = order'[k] => j = k
    BY <1>1, <1>2, <1>5, <1>6 DEF LineMatches
  <1>8. \A u \in Sources : waiting'[u] # None <=> waiting[u] # None /\ u # s
    BY DEF Inv, TypeOK
  <1>9. ASSUME NEW u \in Sources
        PROVE  waiting'[u] # None <=> \E j \in 1..Len(order') : order'[j] = u
    <2>1. ASSUME waiting'[u] # None PROVE \E j \in 1..Len(order') : order'[j] = u
      <3>1. PICK k \in 1..Len(order) : order[k] = u
        BY <1>8, <2>1 DEF LineMatches
      <3>2. k # i
        BY <1>2, <1>8, <2>1, <3>1
      <3>3. CASE k < i
        <4>1. k \in 1..Len(order') /\ order'[k] = u
          BY <1>1, <1>2, <1>5, <1>6, <3>1, <3>3
        <4> QED BY <4>1
      <3>4. CASE k > i
        <4>1. k - 1 \in 1..Len(order') /\ ~(k - 1 < i) /\ (k - 1) + 1 = k
          BY <1>1, <1>2, <1>5, <3>4
        <4>2. order'[k - 1] = u
          BY <1>6, <3>1, <4>1
        <4> QED BY <4>1, <4>2
      <3> QED BY <1>1, <3>2, <3>3, <3>4
    <2>2. ASSUME NEW j \in 1..Len(order'), order'[j] = u PROVE waiting'[u] # None
      <3>1. PICK k \in 1..Len(order) : k # i /\ order[k] = u
        BY <1>1, <1>2, <1>5, <1>6, <2>2
      <3>2. u # s
        BY <1>2, <3>1 DEF LineMatches
      <3> QED BY <1>8, <3>1, <3>2 DEF LineMatches
    <2> QED BY <2>1, <2>2
  <1> QED BY <1>5, <1>7, <1>9 DEF LineMatches

\* A slot more, and no more than that.
LEMMA OneMoreHolder ==
    ASSUME Inv, NEW s \in Sources, NEW t \in Requests,
           active' = [active EXCEPT ![s] = t], Cardinality(Holders) < maximum
    PROVE  Cardinality(Holders') <= maximum
  <1>1. Holders' = Holders \cup {s}
    BY ConstantsAssumption DEF Inv, TypeOK, Holders
  <1>2. Cardinality(Holders \cup {s}) <= Cardinality(Holders) + 1
    <2>1. IsFiniteSet(Holders) /\ Cardinality(Holders) \in Nat
      BY SetsFinite, FS_CardinalityType
    <2>2. \/ Cardinality(Holders \cup {s}) = Cardinality(Holders)
          \/ Cardinality(Holders \cup {s}) = Cardinality(Holders) + 1
      BY <2>1, FS_AddElement, Zenon
    <2> QED BY <2>1, <2>2
  <1>3. IsFiniteSet(Holders') /\ Cardinality(Holders') \in Nat
    BY <1>1, SetsFinite, FS_AddElement, FS_CardinalityType
  <1> QED BY <1>1, <1>2, <1>3, SetsFinite, ConstantsAssumption

LEMMA LinePromote ==
    ASSUME Inv, LineInv, NEW r \in Requests, Promote(r) PROVE LineInv'
  <1> USE DEF LineInv
  <1>1. /\ order # <<>> /\ mutex = r /\ mutex' = mutex /\ order' = Tail(order)
        /\ waiting' = [waiting EXCEPT ![Head(order)] = None]
    BY DEF Promote, LoopEnds, DropHead, AdmitHead
  <1>2. LineMatches' /\ Len(order') = Len(order) - 1 /\ waiting[Head(order)] # None
    BY <1>1, HeadLeaves
  <1>3. Head(order) \in Sources /\ Len(order) \in Nat
    BY <1>1, HeadTailProperties, LenProperties DEF Inv, TypeOK
  <1> PICK s \in Sources : s = Head(order)
    BY <1>3
  <1>4. waiting[s] # None /\ waiting[s] \in Requests /\ Source[waiting[s]] = s
    BY <1>2 DEF Inv, TypeOK, Owned
  <1> PICK t \in Requests : t = waiting[s]
    BY <1>4
  <1>5. FixedCapacity'
    BY <1>2, <1>3, ConstantsAssumption DEF FixedCapacity
  <1>6. WorkConserving'
    BY <1>1, ConstantsAssumption DEF WorkConserving
  <1>7. SendNeverBlocks'
    <2>1. \A u \in Sources : waiting'[u] # None =>
             waiting'[u] = waiting[u] /\ waiting[u] \in Requests /\ waiting[u] # t
      BY <1>1, <1>4 DEF Inv, TypeOK, Owned
    <2>2. \A m \in Requests : m # t => ready'[m] = ready[m]
      BY <1>4 DEF Promote, DropHead, AdmitHead, Inv, TypeOK
    <2> QED BY <2>1, <2>2 DEF SendNeverBlocks
  <1>8. Cardinality(Holders') <= maximum
    <2>1. CASE active' = active
      BY <2>1 DEF Holders
    <2>2. CASE AdmitHead /\ ~HeadExpired
      <3>1. active' = [active EXCEPT ![s] = t]
        BY <2>2 DEF AdmitHead
      <3>2. Cardinality(Holders) < maximum
        <4>1. ~(Cardinality(Holders) >= maximum)
          BY <1>1, <2>2 DEF Promote, LoopEnds
        <4> QED BY <4>1, SetsFinite, ConstantsAssumption
      <3> QED BY <3>1, <3>2, OneMoreHolder
    <2> QED BY <2>1, <2>2 DEF Promote, DropHead
  <1> QED BY <1>2, <1>5, <1>6, <1>7, <1>8

\* The room and the slots, when nothing happens to them.
LEMMA LineStutters ==
    ASSUME LineInv, UNCHANGED <<active, waiting, order>>,
           mutex' = None => mutex = None \/ LoopEnds,
           \A s \in Sources : waiting[s] # None => ready'[waiting[s]] \in {ready[waiting[s]], "empty"}
    PROVE  LineInv'
  <1>1. Cardinality(Holders') = Cardinality(Holders)
    BY DEF Holders
  <1>2. WorkConserving'
    <2>1. LoopEnds /\ order # <<>> => Cardinality(Holders) = maximum
      BY SetsFinite, ConstantsAssumption DEF LoopEnds, LineInv
    <2> QED BY <1>1, <2>1 DEF LineInv, WorkConserving
  <1>3. LineMatches' /\ FixedCapacity' /\ SendNeverBlocks'
    BY DEF LineInv, LineMatches, FixedCapacity, SendNeverBlocks
  <1> QED BY <1>1, <1>2, <1>3 DEF LineInv

LEMMA LineEnter ==
    ASSUME Inv, LineInv, NEW r \in Requests, Arrive(r) \/ Enter(r) \/ Decide(r)
    PROVE  LineInv'
  <1> USE DEF LineInv
  <1> DEFINE s == Source[r]
  <1>0. s \in Sources /\ r # None
    BY ConstantsAssumption
  <1>1. CASE Arrive(r) \/ Enter(r)
    <2>1. UNCHANGED <<active, waiting, order, ready>> /\ (mutex' = None => mutex = None)
      BY <1>1 DEF Arrive, Enter, lists
    <2> QED BY <2>1, LineStutters
  <1>2. CASE Decide(r)
    <2>1. /\ LoopEnds /\ mutex' = None /\ active[s] = None /\ waiting[s] = None
          /\ ready[r] = "empty"
      BY <1>2 DEF Decide, Inv, Locked, Known, Told, Before
    <2>2. CASE UNCHANGED lists
      BY <2>1, <2>2, LineStutters DEF lists
    <2>3. CASE /\ Cardinality(Holders) >= maximum \/ Waiters # {}
               /\ ~RoomFull
               /\ waiting' = [waiting EXCEPT ![s] = r] /\ order' = Append(order, s)
               /\ UNCHANGED <<active, ready>>
      <3>1. LineMatches' /\ Len(order') = Len(order) + 1 /\ Len(order) \in Nat
        BY <1>0, <2>1, <2>3, TailJoins DEF Inv, TypeOK
      <3>2. FixedCapacity'
        <4>1. Cardinality(Waiters) < queueMax
          BY <2>3, SetsFinite, ConstantsAssumption DEF RoomFull
        <4> QED BY <3>1, <4>1, LineLength, ConstantsAssumption DEF FixedCapacity
      <3>3. Cardinality(Holders) = maximum
        <4>1. CASE Cardinality(Holders) >= maximum
          BY <4>1, SetsFinite, ConstantsAssumption
        <4>2. CASE Waiters # {}
          <5>1. order # <<>>
            BY <4>2, SetsFinite, FS_EmptySet, LineLength
          <5> QED BY <2>1, <5>1, SetsFinite, ConstantsAssumption DEF LoopEnds
        <4> QED BY <2>3, <4>1, <4>2
      <3>4. Holders' = Holders
        BY <2>3 DEF Holders
      <3>5. SendNeverBlocks'
        BY <1>0, <2>1, <2>3 DEF Inv, TypeOK, SendNeverBlocks
      <3> QED BY <3>1, <3>2, <3>3, <3>4, <3>5, ConstantsAssumption DEF WorkConserving
    <2>4. CASE /\ ~(Cardinality(Holders) >= maximum \/ Waiters # {})
               /\ active' = [active EXCEPT ![s] = r]
               /\ ready' = [ready EXCEPT ![r] = "admitted"] /\ UNCHANGED <<waiting, order>>
      <3>1. Cardinality(Holders') <= maximum
        <4>1. Cardinality(Holders) < maximum
          BY <2>4, SetsFinite, ConstantsAssumption
        <4> QED BY <1>0, <2>4, <4>1, OneMoreHolder
      <3>2. Waiters = {} /\ \A u \in Sources : waiting[u] = None
        BY <2>4 DEF Waiters
      <3>3. order = <<>>
        BY <3>2, FS_EmptySet, LineLength, EmptySeq DEF Inv, TypeOK
      <3> QED BY <2>4, <3>1, <3>2, <3>3
        DEF LineMatches, WorkConserving, FixedCapacity, SendNeverBlocks
    <2> QED BY <1>2, <2>2, <2>3, <2>4 DEF Decide
  <1> QED BY <1>1, <1>2

LEMMA LineRelease ==
    ASSUME Inv, LineInv, NEW r \in Requests, Release(r) PROVE LineInv'
  <1> USE DEF LineInv
  <1> DEFINE s == Source[r]
  <1>0. s \in Sources /\ r # None
    BY ConstantsAssumption
  <1>1. CASE GiveBack(r) /\ mutex' = r
    <2>1. LineMatches' /\ FixedCapacity'
      <3>1. CASE waiting[s] = r
        <4>1. waiting' = [waiting EXCEPT ![s] = None] /\ order' = WithoutSource(s)
          BY <1>1, <3>1 DEF GiveBack
        <4>2. LineMatches' /\ Len(order') = Len(order) - 1
          BY <1>0, <3>1, <4>1, MiddleLeaves
        <4> QED BY <4>2, LenProperties, ConstantsAssumption DEF Inv, TypeOK, FixedCapacity
      <3>2. CASE waiting[s] # r
        BY <1>1, <3>2 DEF GiveBack, LineMatches, FixedCapacity
      <3> QED BY <3>1, <3>2
    <2>2. WorkConserving'
      BY <1>0, <1>1 DEF WorkConserving
    <2>3. SendNeverBlocks'
      <3>1. \A u \in Sources : waiting'[u] # None => waiting'[u] = waiting[u]
        BY <1>1 DEF GiveBack, Inv, TypeOK
      <3> QED BY <1>1, <3>1 DEF GiveBack, SendNeverBlocks
    <2>4. Cardinality(Holders') <= maximum
      <3>1. Holders' \subseteq Holders
        BY <1>1 DEF GiveBack, Holders, Inv, TypeOK
      <3>2. Cardinality(Holders') <= Cardinality(Holders) /\ Cardinality(Holders') \in Nat
        BY <3>1, SetsFinite, FS_Subset, FS_CardinalityType
      <3> QED BY <3>2, SetsFinite, ConstantsAssumption
    <2> QED BY <2>1, <2>2, <2>3, <2>4
  <1>2. CASE LoopEnds /\ UNCHANGED lists
    BY <1>2, LineStutters DEF lists
  <1> QED BY <1>1, <1>2 DEF Release, BeginRelease, EndRelease

LEMMA LineStep == Inv /\ LineInv /\ [Next]_vars => LineInv'
  <1> SUFFICES ASSUME Inv, LineInv, [Next]_vars PROVE LineInv'
    OBVIOUS
  <1>1. ASSUME NEW r \in Requests,
               ReadBody(r) \/ BeginWait(r) \/ TakeReady(r) \/ TakeCancelled(r)
                 \/ TimerFires(r) \/ Serve(r) \/ Disconnect(r)
        PROVE  LineInv'
    <2>1. /\ UNCHANGED <<mutex, active, waiting, order>>
          /\ ready' = ready \/ ready' = [ready EXCEPT ![r] = "empty"]
      BY <1>1 DEF ReadBody, BeginWait, TakeReady, TakeCancelled, TimerFires, Serve,
        Receive, Disconnect, lists
    <2>2. \A s \in Sources : waiting[s] # None =>
             ready'[waiting[s]] \in {ready[waiting[s]], "empty"}
      BY <2>1 DEF Inv, TypeOK
    <2> QED BY <2>1, <2>2, LineStutters
  <1>2. CASE Tick \/ UNCHANGED vars
    <2>1. UNCHANGED <<mutex, active, waiting, order, ready>>
      BY <1>2 DEF Tick, vars, lists
    <2> QED BY <2>1, LineStutters
  <1> QED BY <1>1, <1>2, LinePromote, LineEnter, LineRelease DEF Next, Step

\* The slice and the map of the waiting room agree, nobody waits beside a free
\* slot, the room keeps its capacity and no send blocks under the mutex, for
\* any requests, sources, limits and clock.
THEOREM LineIsSound == Spec => []LineSound
  <1>1. Inv /\ LineInv => LineSound
    BY DEF Inv, LineInv, LineSound
  <1> QED BY <1>1, InvInit, InvNext, LineInit, LineStep, PTL DEF Spec
=============================================================================
