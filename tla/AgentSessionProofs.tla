------------------------ MODULE AgentSessionProofs ------------------------
(***************************************************************************)
(* Proofs about AgentSession: the conversation is sound whatever is        *)
(* stopped, reset, retried, reloaded or late.                              *)
(***************************************************************************)
EXTENDS AgentSession, SequenceTheorems, FiniteSetTheorems,
        WellFoundedInduction, TLAPS

\* The message at i stands under turn u: u is the last turn before it.
Under(msgs, i, u) ==
    \E j \in DOMAIN msgs :
        /\ j < i /\ msgs[j].role = "user" /\ msgs[j].id = u
        /\ \A k \in DOMAIN msgs : j < k /\ k < i => msgs[k].role # "user"

Whole(m) == m.role = "assistant" /\ m.status = "complete"

\* A conversation that can be shown or stored when T turns and R runs have
\* been handed out, run r answers of[r], the runs in whole were completed,
\* said[r] is what r last handed over, and f turns were forgotten.
UsersOK(msgs, T, f) ==
    \A i \in DOMAIN msgs : msgs[i].role = "user" =>
        /\ msgs[i].id \in 1..T /\ msgs[i].id > f
        /\ msgs[i].text = 1 /\ msgs[i].status = "complete"
RepliesOK(msgs, R, of, f) ==
    \A i \in DOMAIN msgs : msgs[i].role = "assistant" =>
        /\ msgs[i].id \in 1..R /\ of[msgs[i].id] > f
        /\ Under(msgs, i, of[msgs[i].id])
Distinct(msgs) ==
    \A i, j \in DOMAIN msgs :
        msgs[i].role = msgs[j].role /\ msgs[i].id = msgs[j].id => i = j
WholeOK(msgs, whole, said) ==
    \A i \in DOMAIN msgs : Whole(msgs[i]) =>
        msgs[i].id \in whole /\ msgs[i].text = said[msgs[i].id]
OneWhole(msgs, of) ==
    \A i, j \in DOMAIN msgs :
        /\ Whole(msgs[i]) /\ Whole(msgs[j]) /\ of[msgs[i].id] = of[msgs[j].id]
        => i = j

Talk(msgs, T, R, of, whole, said, f) ==
    /\ msgs \in Seq(Message)
    /\ UsersOK(msgs, T, f) /\ RepliesOK(msgs, R, of, f) /\ Distinct(msgs)
    /\ WholeOK(msgs, whole, said) /\ OneWhole(msgs, of)

\* Who runs: a run that waits is the active one or was aborted.
RunsInv ==
    /\ aborted \subseteq 1..runs /\ lived \subseteq 1..runs /\ completed \subseteq 1..runs
    /\ active # NoRun => /\ active \in lived /\ active \notin aborted
                         /\ active \notin completed /\ hydrated
                         /\ phase[active] \in Waiting
    /\ loading = (active # NoRun)
    /\ ~hydrated => lived = {}
    /\ \A r \in Runs : phase[r] \in Waiting => r = active \/ r \in aborted
    /\ \A r \in Runs : r # active => buffer[r] = Disposed
    /\ active # NoRun => buffer[active].disposed = FALSE
    /\ \A r \in Runs : r > runs => got[r] = 0 /\ reply[r] = Nothing
    /\ \A r \in Runs : reply[r].kind # "final" => reply[r].seen <= MaxDeltas
    /\ forgotten <= turns

\* What the page shows of the active run, and what waits for its frame.
LastSaid(b, said, t) == IF b.pending = NoText THEN t = said ELSE b.pending = said
ActiveInv ==
    active # NoRun =>
        /\ \E i \in DOMAIN messages : OfRun(messages[i], active)
        /\ \A i \in DOMAIN messages : OfRun(messages[i], active) =>
              /\ messages[i].status = "streaming"
              /\ LastSaid(buffer[active], got[active], messages[i].text)
        /\ \A i \in DOMAIN messages : Whole(messages[i]) =>
              answers[messages[i].id] # answers[active]
StreamingInv ==
    \A i \in DOMAIN messages : messages[i].status = "streaming" => messages[i].id = active

TalkInv ==
    /\ Talk(messages, turns, runs, answers, completed, got, forgotten)
    /\ Talk(stored, turns, runs, answers, completed, got, forgotten)

Inv == /\ TypeOK /\ RunsInv /\ TalkInv /\ ActiveInv /\ StreamingInv
       /\ PostedHistoryIsClean /\ NothingReceivedIsLost /\ StoredFollowsShown
-----------------------------------------------------------------------------
(* Filters.                                                                *)

\* Every set of numbers that has a member has a least one.
LEMMA Least ==
    ASSUME NEW S \in SUBSET Nat, S # {}
    PROVE  \E n \in S : \A m \in S : n <= m
  <1> DEFINE Less == OpToRel(<, Nat)
  <1>1. IsWellFoundedOn(Less, Nat)
    BY NatLessThanWellFounded
  <1>2. \A a, b \in Nat : <<a, b>> \in Less <=> a < b
    BY DEF OpToRel
  <1> HIDE DEF Less
  <1>3. PICK n \in S : \A m \in S : ~(<<m, n>> \in Less)
    BY <1>1, WFMin
  <1>4. ASSUME NEW m \in S PROVE n <= m
    <2>1. m \in Nat /\ n \in Nat /\ ~(m < n)
      BY <1>2, <1>3
    <2> QED BY <2>1
  <1> QED BY <1>3, <1>4

\* And a greatest one, if it has a bound.
LEMMA Greatest ==
    ASSUME NEW S \in SUBSET Nat, S # {}, NEW b \in Nat, \A m \in S : m <= b
    PROVE  \E n \in S : \A m \in S : m <= n
  <1> DEFINE T == {k \in Nat : \E m \in S : k = b - m}
  <1>0. \A m \in S : b - m \in Nat
    OBVIOUS
  <1>1. T \in SUBSET Nat /\ T # {}
    BY <1>0
  <1>2. PICK t \in T : \A u \in T : t <= u
    BY <1>1, Least
  <1>3. PICK n \in S : t = b - n
    BY <1>2
  <1>4. ASSUME NEW m \in S PROVE m <= n
    <2>1. b - m \in T
      BY <1>0
    <2>2. t <= b - m
      BY <1>2, <2>1
    <2> HIDE DEF T
    <2>3. m \in Nat /\ n \in Nat
      OBVIOUS
    <2> QED BY <1>3, <2>2, <2>3
  <1> QED BY <1>4

Rank(keep, i) == Cardinality({j \in keep : j <= i})
Place(keep, k) == CHOOSE i \in keep : Cardinality({j \in keep : j <= i}) = k

\* The k-th of a set of places is there, the places ascend, and none is left out.
LEMMA PlacesOfSet ==
    ASSUME NEW n \in Nat, NEW keep \in SUBSET (1..n)
    PROVE  /\ Cardinality(keep) \in Nat
           /\ \A k \in 1..Cardinality(keep) : Place(keep, k) \in keep
           /\ \A k, l \in 1..Cardinality(keep) : k < l => Place(keep, k) < Place(keep, l)
           /\ \A i \in keep : \E k \in 1..Cardinality(keep) : Place(keep, k) = i
  <1> DEFINE N == Cardinality(keep)
             upTo(i) == {j \in keep : j <= i}
             f == [i \in keep |-> Rank(keep, i)]
  <1>1. IsFiniteSet(keep)
    BY FS_Interval, FS_Subset, 1 \in Int, n \in Int
  <1>2. N \in Nat
    BY <1>1, FS_CardinalityType
  <1>3. ASSUME NEW i \in keep PROVE Rank(keep, i) \in 1..N
    <2>1. /\ IsFiniteSet(upTo(i)) /\ Cardinality(upTo(i)) <= N
          /\ IsFiniteSet({i}) /\ Cardinality({i}) = 1
      BY <1>1, FS_Subset, FS_Singleton
    <2>2. {i} \in SUBSET upTo(i)
      OBVIOUS
    <2>3. 1 <= Cardinality(upTo(i))
      BY <2>1, <2>2, FS_Subset
    <2>4. Cardinality(upTo(i)) \in Nat
      BY <2>1, FS_CardinalityType
    <2> QED BY <1>2, <2>1, <2>3, <2>4 DEF Rank
  <1>4. ASSUME NEW i \in keep, NEW j \in keep, i < j
        PROVE  Rank(keep, i) < Rank(keep, j)
    <2>1. IsFiniteSet(upTo(j)) /\ Cardinality(upTo(j)) \in Nat /\ Cardinality(upTo(i)) \in Nat
      BY <1>1, FS_Subset, FS_CardinalityType
    <2>2. upTo(i) \in SUBSET upTo(j) /\ j \in upTo(j) /\ j \notin upTo(i)
      <3>1. i \in Nat /\ j \in Nat /\ i < j /\ \A k \in keep : k \in Nat
        BY <1>4
      <3>2. \A k \in keep : k <= i => k <= j
        BY <3>1
      <3>3. j <= j /\ ~(j <= i)
        BY <3>1
      <3> QED BY <3>2, <3>3
    <2>3. /\ Cardinality(upTo(i)) <= Cardinality(upTo(j))
          /\ Cardinality(upTo(j)) # Cardinality(upTo(i))
      BY <2>1, <2>2, FS_Subset, Zenon
    <2> QED BY <2>1, <2>3 DEF Rank
  <1>5. f \in Injection(keep, 1..N)
    <2>1. f \in [keep -> 1..N]
      BY <1>3
    <2>2. ASSUME NEW i \in keep, NEW j \in keep, f[i] = f[j] PROVE i = j
      <3>1. i \in Nat /\ j \in Nat
        OBVIOUS
      <3>2. Rank(keep, i) = Rank(keep, j) /\ Rank(keep, i) \in Nat
        BY <1>3, <2>2
      <3> QED BY <1>4, <3>1, <3>2
    <2> QED BY <2>1, <2>2 DEF Injection, IsInjective
  <1>6. f \in Surjection(keep, 1..N)
    <2>1. IsFiniteSet(1..N) /\ Cardinality(1..N) = N
      BY <1>2, FS_Interval
    <2> HIDE DEF f
    <2> QED BY <1>5, <2>1, FS_Injection
  <1>7. ASSUME NEW k \in 1..N
        PROVE  Place(keep, k) \in keep /\ Rank(keep, Place(keep, k)) = k
    <2>1. \E i \in keep : Rank(keep, i) = k
      BY <1>6 DEF Surjection
    <2> QED BY <2>1 DEF Place, Rank
  <1>8. ASSUME NEW k \in 1..N, NEW l \in 1..N, k < l PROVE Place(keep, k) < Place(keep, l)
    <2> DEFINE a == Place(keep, k)
               b == Place(keep, l)
    <2>1. a \in keep /\ b \in keep /\ Rank(keep, a) = k /\ Rank(keep, b) = l
      BY <1>7
    <2> HIDE DEF a, b
    <2>2. a \in Nat /\ b \in Nat /\ (b < a => l < k) /\ a # b
      BY <1>4, <1>8, <2>1
    <2>3. a < b
      BY <1>8, <2>2
    <2> QED BY <2>3 DEF a, b
  <1>9. ASSUME NEW i \in keep PROVE \E k \in 1..N : Place(keep, k) = i
    <2> DEFINE k == Rank(keep, i)
               a == Place(keep, k)
    <2>1. k \in 1..N /\ a \in keep /\ Rank(keep, a) = k
      BY <1>3, <1>7
    <2> HIDE DEF a
    <2>2. a = i
      BY <1>4, <1>3, <2>1
    <2> QED BY <2>1, <2>2 DEF a
  <1> QED BY <1>2, <1>7, <1>8, <1>9

\* A filter keeps the messages of the places it keeps, in their order.
LEMMA KeptMessages ==
    ASSUME NEW msgs \in Seq(Message), NEW keep \in SUBSET (DOMAIN msgs)
    PROVE  \E e \in [DOMAIN Kept(msgs, keep) -> keep] :
             /\ Kept(msgs, keep) \in Seq(Message)
             /\ \A k \in DOMAIN Kept(msgs, keep) : Kept(msgs, keep)[k] = msgs[e[k]]
             /\ \A k, l \in DOMAIN Kept(msgs, keep) : k < l => e[k] < e[l]
             /\ \A i \in keep : \E k \in DOMAIN Kept(msgs, keep) : e[k] = i
  <1> DEFINE N == Cardinality(keep)
             e == [k \in 1..N |-> Place(keep, k)]
             out == [k \in 1..N |-> msgs[Place(keep, k)]]
  <1>1. DOMAIN msgs = 1..Len(msgs) /\ Len(msgs) \in Nat
        /\ \A i \in DOMAIN msgs : msgs[i] \in Message
    BY LenProperties, ElementOfSeq
  <1>2. /\ N \in Nat
        /\ \A k \in 1..N : Place(keep, k) \in keep
        /\ \A k, l \in 1..N : k < l => Place(keep, k) < Place(keep, l)
        /\ \A i \in keep : \E k \in 1..N : Place(keep, k) = i
    BY <1>1, PlacesOfSet
  <1>3. Kept(msgs, keep) = out
    BY DEF Kept, Place
  <1> HIDE DEF N
  <1>4. out \in Seq(Message) /\ DOMAIN out = 1..N
    <2>1. \A k \in 1..N : msgs[Place(keep, k)] \in Message
      BY <1>1, <1>2
    <2> QED BY <1>2, <2>1, IsASeq
  <1>5. e \in [1..N -> keep]
    BY <1>2
  <1> HIDE DEF e
  <1>6. \A k \in 1..N : e[k] = Place(keep, k)
    BY DEF e
  <1>7. \A k \in 1..N : out[k] = msgs[e[k]]
    BY <1>6
  <1> HIDE DEF out
  <1>8. \A k, l \in 1..N : k < l => e[k] < e[l]
    BY <1>2, <1>6
  <1>9. \A i \in keep : \E k \in 1..N : e[k] = i
    BY <1>2, <1>6
  <1>10. e \in [DOMAIN out -> keep]
    BY <1>4, <1>5
  <1>11. DOMAIN Kept(msgs, keep) = 1..N /\ e \in [DOMAIN Kept(msgs, keep) -> keep]
    BY <1>3, <1>4, <1>10
  <1>12. \A k \in 1..N : Kept(msgs, keep)[k] = msgs[e[k]]
    BY <1>3, <1>7
  <1>13. Kept(msgs, keep) \in Seq(Message)
    BY <1>3, <1>4
  <1> e \in [DOMAIN Kept(msgs, keep) -> keep]
    BY <1>11
  <1> WITNESS e \in [DOMAIN Kept(msgs, keep) -> keep]
  <1> QED BY <1>8, <1>9, <1>11, <1>12, <1>13, Zenon

-----------------------------------------------------------------------------
(* What a step may do to a conversation.                                   *)

\* b has messages of a in their order, all of the user's among them; a whole
\* reply and a message of the user are as they were.
Prunes(b, a) ==
    \E e \in [DOMAIN b -> DOMAIN a] :
        /\ \A k, l \in DOMAIN b : k < l => e[k] < e[l]
        /\ \A k \in DOMAIN b :
              /\ b[k].role = a[e[k]].role /\ b[k].id = a[e[k]].id
              /\ Whole(a[e[k]]) \/ Whole(b[k]) \/ b[k].role = "user" => b[k] = a[e[k]]
        /\ \A i \in DOMAIN a : a[i].role = "user" => \E k \in DOMAIN b : e[k] = i

\* A conversation that loses or marks partial replies stays sound.
LEMMA PrunedTalk ==
    ASSUME NEW a, NEW b \in Seq(Message), NEW T, NEW R, NEW of, NEW whole, NEW said, NEW f,
           Talk(a, T, R, of, whole, said, f), Prunes(b, a)
    PROVE  Talk(b, T, R, of, whole, said, f)
  <1>1. /\ a \in Seq(Message)
        /\ DOMAIN a = 1..Len(a) /\ Len(a) \in Nat /\ DOMAIN b = 1..Len(b) /\ Len(b) \in Nat
    BY LenProperties DEF Talk
  <1>2. PICK e \in [DOMAIN b -> DOMAIN a] :
        /\ \A k, l \in DOMAIN b : k < l => e[k] < e[l]
        /\ \A k \in DOMAIN b :
              /\ b[k].role = a[e[k]].role /\ b[k].id = a[e[k]].id
              /\ Whole(a[e[k]]) \/ Whole(b[k]) \/ b[k].role = "user" => b[k] = a[e[k]]
        /\ \A i \in DOMAIN a : a[i].role = "user" => \E k \in DOMAIN b : e[k] = i
    BY DEF Prunes
  <1>3. \A k, l \in DOMAIN b : k \in Nat /\ e[k] \in Nat /\ (e[k] < e[l] => k < l)
                               /\ (e[k] = e[l] => k = l)
    BY <1>1, <1>2
  <1>4. UsersOK(b, T, f)
    BY <1>2 DEF Talk, UsersOK
  <1>5. ASSUME NEW k \in DOMAIN b, NEW u, Under(a, e[k], u) PROVE Under(b, k, u)
    <2>1. PICK j \in DOMAIN a : /\ j < e[k] /\ a[j].role = "user" /\ a[j].id = u
                                /\ \A l \in DOMAIN a : j < l /\ l < e[k] => a[l].role # "user"
      BY <1>5 DEF Under
    <2>2. PICK i \in DOMAIN b : e[i] = j
      BY <1>2, <2>1
    <2>3. i < k /\ b[i].role = "user" /\ b[i].id = u
      BY <1>2, <1>3, <2>1, <2>2
    <2>4. ASSUME NEW l \in DOMAIN b, i < l, l < k PROVE b[l].role # "user"
      <3>1. e[l] \in DOMAIN a /\ j < e[l] /\ e[l] < e[k]
        BY <1>2, <2>2, <2>4
      <3> QED BY <1>2, <2>1, <3>1
    <2> QED BY <2>3, <2>4 DEF Under
  <1>6. RepliesOK(b, R, of, f)
    <2>1. ASSUME NEW k \in DOMAIN b, b[k].role = "assistant"
          PROVE  b[k].id \in 1..R /\ of[b[k].id] > f /\ Under(b, k, of[b[k].id])
      <3>1. a[e[k]].role = "assistant" /\ b[k].id = a[e[k]].id /\ e[k] \in DOMAIN a
        BY <1>2, <2>1
      <3>2. b[k].id \in 1..R /\ of[b[k].id] > f /\ Under(a, e[k], of[b[k].id])
        BY <3>1 DEF Talk, RepliesOK
      <3> QED BY <1>5, <3>2
    <2> QED BY <2>1 DEF RepliesOK
  <1>7. Distinct(b)
    <2>1. ASSUME NEW k \in DOMAIN b, NEW l \in DOMAIN b, b[k].role = b[l].role, b[k].id = b[l].id
          PROVE  k = l
      <3>1. e[k] = e[l]
        BY <1>2, <2>1 DEF Talk, Distinct
      <3> QED BY <1>3, <3>1
    <2> QED BY <2>1 DEF Distinct
  <1>8. WholeOK(b, whole, said)
    BY <1>2 DEF Talk, WholeOK
  <1>9. OneWhole(b, of)
    <2>1. ASSUME NEW k \in DOMAIN b, NEW l \in DOMAIN b, Whole(b[k]), Whole(b[l]),
                 of[b[k].id] = of[b[l].id]
          PROVE  k = l
      <3>1. b[k] = a[e[k]] /\ b[l] = a[e[l]] /\ e[k] \in DOMAIN a /\ e[l] \in DOMAIN a
        BY <1>2, <2>1
      <3>2. e[k] = e[l]
        BY <2>1, <3>1 DEF Talk, OneWhole
      <3> QED BY <1>3, <3>2
    <2> QED BY <2>1 DEF OneWhole
  <1> QED BY <1>4, <1>6, <1>7, <1>8, <1>9 DEF Talk

\* A conversation stays sound when turns and runs are handed out, and when
\* runs that have no whole reply in it are completed or speak.
LEMMA TalkStays ==
    ASSUME NEW a, NEW T \in Nat, NEW R \in Nat, NEW of, NEW whole, NEW said, NEW f,
           NEW T2 \in Nat, NEW R2 \in Nat, NEW of2, NEW whole2, NEW said2,
           Talk(a, T, R, of, whole, said, f), T <= T2, R <= R2,
           \A r \in 1..R : of2[r] = of[r], \A r \in whole : said2[r] = said[r],
           whole \subseteq whole2
    PROVE  Talk(a, T2, R2, of2, whole2, said2, f)
  <1>1. UsersOK(a, T2, f)
    <2>1. \A n \in 1..T : n \in 1..T2
      OBVIOUS
    <2> QED BY <2>1 DEF Talk, UsersOK
  <1>2. \A r \in 1..R : r \in 1..R2
    OBVIOUS
  <1>3. RepliesOK(a, R2, of2, f)
    BY <1>2, Zenon DEF Talk, RepliesOK
  <1>4. WholeOK(a, whole2, said2)
    BY DEF Talk, WholeOK
  <1>5. \A i \in DOMAIN a : Whole(a[i]) => a[i].id \in 1..R
    BY DEF Talk, RepliesOK, Whole
  <1>6. OneWhole(a, of2)
    BY <1>5, Zenon DEF Talk, OneWhole
  <1> QED BY <1>1, <1>3, <1>4, <1>6 DEF Talk

\* Put changes the text of one run's reply.
LEMMA PutFacts ==
    ASSUME NEW msgs \in Seq(Message), NEW r, NEW t \in Texts
    PROVE  /\ Put(msgs, r, t) \in Seq(Message) /\ DOMAIN Put(msgs, r, t) = DOMAIN msgs
           /\ \A i \in DOMAIN msgs :
                 /\ Put(msgs, r, t)[i].role = msgs[i].role
                 /\ Put(msgs, r, t)[i].id = msgs[i].id
                 /\ Put(msgs, r, t)[i].status = msgs[i].status
                 /\ IF OfRun(msgs[i], r) THEN Put(msgs, r, t)[i].text = t
                                         ELSE Put(msgs, r, t)[i] = msgs[i]
  <1> DEFINE new(i) == IF OfRun(msgs[i], r) THEN [msgs[i] EXCEPT !.text = t] ELSE msgs[i]
             n == Len(msgs)
  <1>1. DOMAIN msgs = 1..n /\ n \in Nat /\ \A i \in 1..n : msgs[i] \in Message
    BY LenProperties, ElementOfSeq
  <1>2. Put(msgs, r, t) = [i \in 1..n |-> new(i)]
    BY <1>1 DEF Put
  <1>3. ASSUME NEW i \in 1..n
        PROVE  /\ new(i) \in Message /\ new(i).role = msgs[i].role /\ new(i).id = msgs[i].id
               /\ new(i).status = msgs[i].status
               /\ IF OfRun(msgs[i], r) THEN new(i).text = t ELSE new(i) = msgs[i]
    BY <1>1 DEF Message
  <1> HIDE DEF new, n
  <1>4. [i \in 1..n |-> new(i)] \in Seq(Message)
    BY <1>1, <1>3, IsASeq
  <1> QED BY <1>1, <1>2, <1>3, <1>4

\* Text for a reply that still grows touches no other message.
LEMMA PutPrunes ==
    ASSUME NEW msgs \in Seq(Message), NEW r, NEW t \in Texts,
           \A i \in DOMAIN msgs : OfRun(msgs[i], r) => msgs[i].status = "streaming"
    PROVE  Prunes(Put(msgs, r, t), msgs)
  <1> DEFINE new == Put(msgs, r, t)
             e == [i \in DOMAIN msgs |-> i]
  <1>1. /\ DOMAIN new = DOMAIN msgs
        /\ \A i \in DOMAIN msgs :
              /\ new[i].role = msgs[i].role /\ new[i].id = msgs[i].id
              /\ new[i].status = msgs[i].status
              /\ IF OfRun(msgs[i], r) THEN new[i].text = t ELSE new[i] = msgs[i]
    BY PutFacts
  <1> HIDE DEF new
  <1>2. \A i \in DOMAIN msgs : Whole(msgs[i]) \/ Whole(new[i]) \/ new[i].role = "user"
                               => new[i] = msgs[i]
    BY <1>1 DEF Whole, OfRun
  <1>3. e \in [DOMAIN new -> DOMAIN msgs] /\ \A i \in DOMAIN msgs : e[i] = i
    BY <1>1
  <1> HIDE DEF e
  <1>4. \E ee \in [DOMAIN new -> DOMAIN msgs] :
        /\ \A k, l \in DOMAIN new : k < l => ee[k] < ee[l]
        /\ \A k \in DOMAIN new :
              /\ new[k].role = msgs[ee[k]].role /\ new[k].id = msgs[ee[k]].id
              /\ Whole(msgs[ee[k]]) \/ Whole(new[k]) \/ new[k].role = "user"
                 => new[k] = msgs[ee[k]]
        /\ \A i \in DOMAIN msgs : msgs[i].role = "user" => \E k \in DOMAIN new : ee[k] = i
    <2> e \in [DOMAIN new -> DOMAIN msgs]
      BY <1>3
    <2> WITNESS e \in [DOMAIN new -> DOMAIN msgs]
    <2> QED BY <1>1, <1>2, <1>3
  <1> QED BY <1>4 DEF Prunes, new

\* b is a with the reply of run r dropped, if it is blank, or marked.
Interrupts(b, a, r) ==
    /\ \A k \in DOMAIN b :
          IF OfRun(b[k], r)
          THEN /\ b[k].text # 0 /\ b[k].status = "interrupted"
               /\ \E i \in DOMAIN a : OfRun(a[i], r) /\ a[i].text = b[k].text
          ELSE \E i \in DOMAIN a : b[k] = a[i]
    /\ \A i \in DOMAIN a : OfRun(a[i], r) => a[i].text = 0 \/ \E k \in DOMAIN b : OfRun(b[k], r)
    /\ \A i \in DOMAIN a : ~OfRun(a[i], r) => \E k \in DOMAIN b : b[k] = a[i]

\* interruptAssistant keeps a partial reply that has text and says what it is.
LEMMA InterruptFacts ==
    ASSUME NEW msgs \in Seq(Message), NEW r,
           \A i \in DOMAIN msgs : OfRun(msgs[i], r) => msgs[i].status = "streaming"
    PROVE  /\ InterruptAssistant(msgs, r) \in Seq(Message)
           /\ Prunes(InterruptAssistant(msgs, r), msgs)
           /\ Interrupts(InterruptAssistant(msgs, r), msgs, r)
  <1> DEFINE keep == {i \in DOMAIN msgs : ~OfRun(msgs[i], r)} \cup Texted(msgs)
             kept == Kept(msgs, keep)
             mark(m) == IF OfRun(m, r) THEN [m EXCEPT !.status = "interrupted"] ELSE m
             new == InterruptAssistant(msgs, r)
  <1>0. keep \in SUBSET (DOMAIN msgs) /\ \A i \in DOMAIN msgs : msgs[i] \in Message
    BY ElementOfSeq, LenProperties DEF Texted
  <1>1. PICK e \in [DOMAIN kept -> keep] :
             /\ kept \in Seq(Message)
             /\ \A k \in DOMAIN kept : kept[k] = msgs[e[k]]
             /\ \A k, l \in DOMAIN kept : k < l => e[k] < e[l]
             /\ \A i \in keep : \E k \in DOMAIN kept : e[k] = i
    BY <1>0, KeptMessages
  <1>2. new = [k \in DOMAIN kept |-> mark(kept[k])]
    BY DEF InterruptAssistant
  <1>3. \A i \in DOMAIN msgs : /\ i \in keep <=> ~OfRun(msgs[i], r) \/ msgs[i].text # 0
                               /\ msgs[i].role = "user" => ~OfRun(msgs[i], r)
    BY DEF Texted, OfRun
  <1> HIDE DEF keep, kept, new
  <1>4. /\ DOMAIN new = DOMAIN kept /\ Len(kept) \in Nat /\ DOMAIN kept = 1..Len(kept)
        /\ \A k \in DOMAIN kept : kept[k] \in Message
    BY <1>1, <1>2, ElementOfSeq, LenProperties
  <1>5. ASSUME NEW k \in DOMAIN kept
        PROVE  /\ e[k] \in keep /\ e[k] \in DOMAIN msgs
               /\ new[k] \in Message
               /\ new[k].role = msgs[e[k]].role /\ new[k].id = msgs[e[k]].id
               /\ new[k].text = msgs[e[k]].text
               /\ IF OfRun(msgs[e[k]], r)
                  THEN /\ OfRun(new[k], r) /\ new[k].text # 0 /\ new[k].status = "interrupted"
                       /\ msgs[e[k]].status = "streaming"
                  ELSE ~OfRun(new[k], r) /\ new[k] = msgs[e[k]]
    <2>1. /\ e[k] \in keep /\ e[k] \in DOMAIN msgs /\ kept[k] = msgs[e[k]] /\ kept[k] \in Message
          /\ new[k] = mark(kept[k])
      BY <1>0, <1>1, <1>2, <1>4
    <2>2. CASE OfRun(kept[k], r)
      <3>1. new[k] = [kept[k] EXCEPT !.status = "interrupted"]
        BY <2>1, <2>2
      <3>2. /\ new[k] \in Message /\ new[k].role = kept[k].role /\ new[k].id = kept[k].id
            /\ new[k].text = kept[k].text /\ new[k].status = "interrupted"
        BY <2>1, <3>1 DEF Message
      <3>3. kept[k].text # 0
        BY <1>3, <2>1, <2>2
      <3> QED BY <2>1, <2>2, <3>2, <3>3 DEF OfRun
    <2>3. CASE ~OfRun(kept[k], r)
      BY <2>1, <2>3
    <2> QED BY <2>2, <2>3
  <1>6. new \in Seq(Message)
    <2>1. \A k \in 1..Len(kept) : mark(kept[k]) \in Message
      BY <1>2, <1>4, <1>5
    <2> HIDE DEF mark
    <2>2. [k \in 1..Len(kept) |-> mark(kept[k])] \in Seq(Message)
      BY <1>4, <2>1, IsASeq
    <2> QED BY <1>2, <1>4, <2>2
  <1> HIDE DEF mark
  <1>7. Prunes(new, msgs)
    <2>1. e \in [DOMAIN new -> DOMAIN msgs]
      BY <1>0, <1>1, <1>4
    <2>2. \A k \in DOMAIN new :
              /\ new[k].role = msgs[e[k]].role /\ new[k].id = msgs[e[k]].id
              /\ Whole(msgs[e[k]]) \/ Whole(new[k]) \/ new[k].role = "user"
                 => new[k] = msgs[e[k]]
      BY <1>4, <1>5 DEF Whole, OfRun
    <2>3. \A i \in DOMAIN msgs : msgs[i].role = "user" => \E k \in DOMAIN new : e[k] = i
      BY <1>1, <1>3, <1>4
    <2> QED BY <1>1, <1>4, <2>1, <2>2, <2>3, Zenon DEF Prunes
  <1>8. \A k \in DOMAIN new : IF OfRun(new[k], r)
                    THEN /\ new[k].text # 0 /\ new[k].status = "interrupted"
                         /\ \E i \in DOMAIN msgs : OfRun(msgs[i], r) /\ msgs[i].text = new[k].text
                    ELSE \E i \in DOMAIN msgs : new[k] = msgs[i]
    BY <1>4, <1>5
  <1>9. \A i \in DOMAIN msgs : OfRun(msgs[i], r) =>
                 msgs[i].text = 0 \/ \E k \in DOMAIN new : OfRun(new[k], r)
    BY <1>1, <1>3, <1>4, <1>5
  <1>10. \A i \in DOMAIN msgs : ~OfRun(msgs[i], r) => \E k \in DOMAIN new : new[k] = msgs[i]
    BY <1>1, <1>3, <1>4, <1>5
  <1>11. Interrupts(new, msgs, r)
    BY <1>8, <1>9, <1>10 DEF Interrupts
  <1> QED BY <1>6, <1>7, <1>11 DEF new

\* RestoreConversation keeps what has text and marks what was still growing.
LEMMA RestoreFacts ==
    ASSUME NEW saved \in Seq(Message),
           \A i \in DOMAIN saved : saved[i].role = "user" =>
              saved[i].text = 1 /\ saved[i].status = "complete"
    PROVE  /\ RestoreConversation(saved) \in Seq(Message)
           /\ Prunes(RestoreConversation(saved), saved)
           /\ \A k \in DOMAIN RestoreConversation(saved) :
                 RestoreConversation(saved)[k].status # "streaming"
  <1> DEFINE keep == Texted(saved)
             kept == Kept(saved, keep)
             mark(m) == IF m.status = "streaming" THEN [m EXCEPT !.status = "interrupted"] ELSE m
             new == RestoreConversation(saved)
  <1>0. keep \in SUBSET (DOMAIN saved) /\ \A i \in DOMAIN saved : saved[i] \in Message
    BY ElementOfSeq, LenProperties DEF Texted
  <1>1. PICK e \in [DOMAIN kept -> keep] :
             /\ kept \in Seq(Message)
             /\ \A k \in DOMAIN kept : kept[k] = saved[e[k]]
             /\ \A k, l \in DOMAIN kept : k < l => e[k] < e[l]
             /\ \A i \in keep : \E k \in DOMAIN kept : e[k] = i
    BY <1>0, KeptMessages
  <1>2. new = [k \in DOMAIN kept |-> mark(kept[k])]
    BY DEF RestoreConversation
  <1>3. \A i \in DOMAIN saved : saved[i].role = "user" => i \in keep
    BY DEF Texted
  <1> HIDE DEF keep, kept, new
  <1>4. /\ DOMAIN new = DOMAIN kept /\ Len(kept) \in Nat /\ DOMAIN kept = 1..Len(kept)
        /\ \A k \in DOMAIN kept : kept[k] \in Message
    BY <1>1, <1>2, ElementOfSeq, LenProperties
  <1>5. ASSUME NEW k \in DOMAIN kept
        PROVE  /\ e[k] \in DOMAIN saved
               /\ new[k] \in Message /\ new[k].status # "streaming"
               /\ new[k].role = saved[e[k]].role /\ new[k].id = saved[e[k]].id
               /\ \/ new[k] = saved[e[k]]
                  \/ new[k].status = "interrupted" /\ saved[e[k]].status = "streaming"
    <2>1. /\ e[k] \in DOMAIN saved /\ kept[k] = saved[e[k]] /\ kept[k] \in Message
          /\ new[k] = mark(kept[k])
      BY <1>0, <1>1, <1>2, <1>4
    <2>2. CASE kept[k].status = "streaming"
      <3>1. new[k] = [kept[k] EXCEPT !.status = "interrupted"]
        BY <2>1, <2>2
      <3>2. /\ new[k] \in Message /\ new[k].role = kept[k].role /\ new[k].id = kept[k].id
            /\ new[k].status = "interrupted"
        BY <2>1, <3>1 DEF Message
      <3> QED BY <2>1, <2>2, <3>2
    <2>3. CASE kept[k].status # "streaming"
      BY <2>1, <2>3
    <2> QED BY <2>2, <2>3
  <1>6. new \in Seq(Message)
    <2>1. \A k \in 1..Len(kept) : mark(kept[k]) \in Message
      BY <1>2, <1>4, <1>5
    <2> HIDE DEF mark
    <2>2. [k \in 1..Len(kept) |-> mark(kept[k])] \in Seq(Message)
      BY <1>4, <2>1, IsASeq
    <2> QED BY <1>2, <1>4, <2>2
  <1> HIDE DEF mark
  <1>7. Prunes(new, saved)
    <2>1. e \in [DOMAIN new -> DOMAIN saved]
      BY <1>0, <1>1, <1>4
    <2>2. \A k \in DOMAIN new :
              /\ new[k].role = saved[e[k]].role /\ new[k].id = saved[e[k]].id
              /\ Whole(saved[e[k]]) \/ Whole(new[k]) \/ new[k].role = "user"
                 => new[k] = saved[e[k]]
      BY <1>4, <1>5 DEF Whole
    <2>3. \A i \in DOMAIN saved : saved[i].role = "user" => \E k \in DOMAIN new : e[k] = i
      BY <1>1, <1>3, <1>4
    <2> QED BY <1>1, <1>4, <2>1, <2>2, <2>3, Zenon DEF Prunes
  <1>8. \A k \in DOMAIN new : new[k].status # "streaming"
    BY <1>4, <1>5
  <1> QED BY <1>6, <1>7, <1>8 DEF new

\* What is posted consists of whole messages and ends with the last one, if
\* that one is whole.
LEMMA HistoryFacts ==
    ASSUME NEW posted \in Seq(Message), posted # <<>>,
           posted[Len(posted)].text # 0, posted[Len(posted)].status = "complete"
    PROVE  /\ ToChatHistory(posted) \in Seq(Message) /\ ToChatHistory(posted) # <<>>
           /\ ToChatHistory(posted)[Len(ToChatHistory(posted))] = posted[Len(posted)]
           /\ \A k \in DOMAIN ToChatHistory(posted) :
                 \E i \in DOMAIN posted : /\ ToChatHistory(posted)[k] = posted[i]
                                          /\ posted[i].status = "complete"
  <1> DEFINE keep == {i \in Texted(posted) : posted[i].status = "complete"}
             new == Kept(posted, keep)
             n == Len(posted)
  <1>1. n \in Nat /\ DOMAIN posted = 1..n /\ n \in DOMAIN posted
    BY LenProperties, EmptySeq
  <1>2. keep \in SUBSET (DOMAIN posted) /\ n \in keep
        /\ \A i \in keep : posted[i].status = "complete"
    BY <1>1 DEF Texted
  <1>3. PICK e \in [DOMAIN new -> keep] :
             /\ new \in Seq(Message)
             /\ \A k \in DOMAIN new : new[k] = posted[e[k]]
             /\ \A k, l \in DOMAIN new : k < l => e[k] < e[l]
             /\ \A i \in keep : \E k \in DOMAIN new : e[k] = i
    BY <1>2, KeptMessages
  <1>4. new = ToChatHistory(posted)
    BY DEF ToChatHistory
  <1> HIDE DEF keep, new
  <1>5. Len(new) \in Nat /\ DOMAIN new = 1..Len(new)
    BY <1>3, LenProperties
  <1>6. PICK k \in DOMAIN new : e[k] = n
    BY <1>2, <1>3
  <1>7. k = Len(new)
    <2>1. Len(new) \in DOMAIN new
      BY <1>5, <1>6
    <2>2. e[Len(new)] \in 1..n
      BY <1>1, <1>2, <1>3, <2>1
    <2>3. ~(k < Len(new))
      BY <1>1, <1>3, <1>6, <2>1, <2>2
    <2> QED BY <1>5, <1>6, <2>3
  <1>8. new # <<>>
    BY <1>5, <1>6
  <1>9. \A l \in DOMAIN new : e[l] \in DOMAIN posted /\ posted[e[l]].status = "complete"
    BY <1>2, <1>3
  <1> QED BY <1>3, <1>4, <1>6, <1>7, <1>8, <1>9

\* A turn that was just handed out goes behind everything else.
LEMMA AskedTalk ==
    ASSUME NEW a, NEW T \in Nat, NEW R, NEW of, NEW whole, NEW said, NEW f \in Nat, f <= T,
           Talk(a, T, R, of, whole, said, f)
    PROVE  Talk(Append(a, User(T + 1)), T + 1, R, of, whole, said, f)
  <1> DEFINE b == Append(a, User(T + 1))
             n == Len(a)
  <1>1. a \in Seq(Message) /\ n \in Nat /\ DOMAIN a = 1..n
    BY LenProperties DEF Talk
  <1>2. User(T + 1) \in Message
    BY BoundsAssumption DEF User, Message, Texts
  <1>3. /\ b \in Seq(Message) /\ DOMAIN b = 1..n + 1
        /\ \A i \in 1..n : b[i] = a[i]
        /\ b[n + 1] = User(T + 1)
    BY <1>1, <1>2, AppendProperties, LenProperties
  <1> HIDE DEF b
  <1>4. \A i \in DOMAIN b : \/ i \in DOMAIN a /\ b[i] = a[i]
                            \/ i = n + 1 /\ b[i].role = "user" /\ b[i].id = T + 1
                               /\ b[i].text = 1 /\ b[i].status = "complete"
    BY <1>1, <1>3 DEF User
  <1> HIDE DEF n
  <1>5. UsersOK(b, T + 1, f)
    BY <1>4 DEF Talk, UsersOK
  <1>6. ASSUME NEW i \in DOMAIN a, NEW u, Under(a, i, u) PROVE Under(b, i, u)
    <2>1. PICK j \in DOMAIN a : /\ j < i /\ a[j].role = "user" /\ a[j].id = u
                                /\ \A k \in DOMAIN a : j < k /\ k < i => a[k].role # "user"
      BY <1>6 DEF Under
    <2>2. j \in DOMAIN b /\ b[j] = a[j]
      BY <1>1, <1>3
    <2>3. \A k \in DOMAIN b : j < k /\ k < i => b[k].role # "user"
      BY <1>1, <1>3, <1>4, <2>1
    <2> QED BY <2>1, <2>2, <2>3 DEF Under
  <1>7. RepliesOK(b, R, of, f)
    BY <1>4, <1>6 DEF Talk, RepliesOK
  <1>8. Distinct(b)
    BY <1>4 DEF Talk, Distinct, UsersOK
  <1>9. WholeOK(b, whole, said)
    BY <1>4 DEF Talk, WholeOK, Whole
  <1>10. OneWhole(b, of)
    BY <1>4 DEF Talk, OneWhole, Whole
  <1> QED BY <1>3, <1>5, <1>7, <1>8, <1>9, <1>10 DEF Talk, b

\* The reply of a new run goes behind the last turn.
LEMMA RunTalk ==
    ASSUME NEW a, NEW T, NEW R \in Nat, NEW of, NEW whole, NEW said, NEW f,
           Talk(a, T, R, of, whole, said, f),
           NEW last \in DOMAIN a, a[last].role = "user",
           \A i \in DOMAIN a : last < i => a[i].role # "user",
           of[R + 1] = a[last].id
    PROVE  Talk(Append(a, Assistant(R + 1)), T, R + 1, of, whole, said, f)
  <1> DEFINE b == Append(a, Assistant(R + 1))
             n == Len(a)
  <1>1. a \in Seq(Message) /\ n \in Nat /\ DOMAIN a = 1..n
    BY LenProperties DEF Talk
  <1>2. Assistant(R + 1) \in Message
    BY BoundsAssumption DEF Assistant, Message, Texts
  <1>3. /\ b \in Seq(Message) /\ DOMAIN b = 1..n + 1
        /\ \A i \in 1..n : b[i] = a[i]
        /\ b[n + 1] = Assistant(R + 1)
    BY <1>1, <1>2, AppendProperties, LenProperties
  <1> HIDE DEF b
  <1>4. \A i \in DOMAIN b : \/ i \in DOMAIN a /\ b[i] = a[i]
                            \/ i = n + 1 /\ b[i].role = "assistant" /\ b[i].id = R + 1
                               /\ b[i].status = "streaming"
    BY <1>1, <1>3 DEF Assistant
  <1>5. UsersOK(b, T, f)
    BY <1>4 DEF Talk, UsersOK
  <1>6. ASSUME NEW i \in DOMAIN a, NEW u, Under(a, i, u) PROVE Under(b, i, u)
    <2>1. PICK j \in DOMAIN a : /\ j < i /\ a[j].role = "user" /\ a[j].id = u
                                /\ \A k \in DOMAIN a : j < k /\ k < i => a[k].role # "user"
      BY <1>6 DEF Under
    <2>2. j \in DOMAIN b /\ b[j] = a[j]
      BY <1>1, <1>3
    <2>3. \A k \in DOMAIN b : j < k /\ k < i => b[k].role # "user"
      BY <1>1, <1>3, <1>4, <2>1
    <2> QED BY <2>1, <2>2, <2>3 DEF Under
  <1>7. Under(b, n + 1, a[last].id)
    <2>1. last \in DOMAIN b /\ last < n + 1 /\ b[last] = a[last]
      BY <1>1, <1>3
    <2>2. \A k \in DOMAIN b : last < k /\ k < n + 1 => b[k].role # "user"
      BY <1>1, <1>3
    <2> QED BY <2>1, <2>2 DEF Under
  <1>8. RepliesOK(b, R + 1, of, f)
    <2>1. a[last].id > f
      BY DEF Talk, UsersOK
    <2>2. \A r \in 1..R : r \in 1..R + 1
      OBVIOUS
    <2>3. R + 1 \in 1..R + 1
      OBVIOUS
    <2>4. ASSUME NEW i \in DOMAIN b, b[i].role = "assistant"
          PROVE  b[i].id \in 1..R + 1 /\ of[b[i].id] > f /\ Under(b, i, of[b[i].id])
      <3>1. CASE i \in DOMAIN a /\ b[i] = a[i]
        BY <1>6, <2>2, <2>4, <3>1 DEF Talk, RepliesOK
      <3>2. CASE i = n + 1 /\ b[i].id = R + 1
        BY <1>7, <2>1, <2>3, <3>2
      <3> QED BY <1>4, <3>1, <3>2
    <2> QED BY <2>4 DEF RepliesOK
  <1> HIDE DEF n
  <1>9. Distinct(b)
    BY <1>4 DEF Talk, Distinct, RepliesOK
  <1>10. WholeOK(b, whole, said)
    BY <1>4 DEF Talk, WholeOK, Whole
  <1>11. OneWhole(b, of)
    BY <1>4 DEF Talk, OneWhole, Whole
  <1> QED BY <1>3, <1>5, <1>8, <1>9, <1>10, <1>11 DEF Talk, b

\* What the page shows once run r has returned the text t.
Settled(msgs, r, t) ==
    [i \in DOMAIN msgs |-> IF OfRun(msgs[i], r)
                           THEN [msgs[i] EXCEPT !.text = t, !.status = "complete"]
                           ELSE msgs[i]]

\* Only the message of the run changes.
LEMMA SettledFacts ==
    ASSUME NEW a \in Seq(Message), NEW r \in Runs, NEW t \in Texts
    PROVE  /\ Settled(a, r, t) \in Seq(Message) /\ DOMAIN Settled(a, r, t) = DOMAIN a
           /\ \A i \in DOMAIN a :
                 /\ Settled(a, r, t)[i].role = a[i].role /\ Settled(a, r, t)[i].id = a[i].id
                 /\ IF OfRun(a[i], r)
                    THEN /\ OfRun(Settled(a, r, t)[i], r) /\ Settled(a, r, t)[i].text = t
                         /\ Settled(a, r, t)[i].status = "complete"
                    ELSE Settled(a, r, t)[i] = a[i]
  <1> DEFINE new(i) == IF OfRun(a[i], r) THEN [a[i] EXCEPT !.text = t, !.status = "complete"]
                                         ELSE a[i]
             b == Settled(a, r, t)
             n == Len(a)
  <1>1. a \in Seq(Message) /\ DOMAIN a = 1..n /\ n \in Nat /\ \A i \in 1..n : a[i] \in Message
    BY LenProperties, ElementOfSeq
  <1>2. b = [i \in 1..n |-> new(i)]
    BY <1>1 DEF Settled
  <1>3. ASSUME NEW i \in 1..n
        PROVE  /\ new(i) \in Message /\ new(i).role = a[i].role /\ new(i).id = a[i].id
               /\ IF OfRun(a[i], r) THEN /\ OfRun(new(i), r) /\ new(i).text = t
                                         /\ new(i).status = "complete"
                                    ELSE new(i) = a[i]
    <2>1. CASE OfRun(a[i], r)
      <3>1. new(i) = [a[i] EXCEPT !.text = t, !.status = "complete"]
        BY <2>1
      <3>2. /\ new(i) \in Message /\ new(i).role = a[i].role /\ new(i).id = a[i].id
            /\ new(i).text = t /\ new(i).status = "complete"
        BY <1>1, <3>1 DEF Message
      <3> QED BY <2>1, <3>2 DEF OfRun
    <2>2. CASE ~OfRun(a[i], r)
      BY <1>1, <2>2
    <2> QED BY <2>1, <2>2
  <1> HIDE DEF new, n, b
  <1>4. /\ DOMAIN b = DOMAIN a
        /\ \A i \in DOMAIN a :
              /\ b[i].role = a[i].role /\ b[i].id = a[i].id
              /\ IF OfRun(a[i], r) THEN /\ OfRun(b[i], r) /\ b[i].text = t
                                        /\ b[i].status = "complete"
                                   ELSE b[i] = a[i]
    BY <1>1, <1>2, <1>3
  <1>5. b \in Seq(Message)
    BY <1>1, <1>2, <1>3, IsASeq
  <1> QED BY <1>4, <1>5 DEF b

\* A reply that is completed is the only whole one under its turn, if its
\* turn had none.
LEMMA SettledTalk ==
    ASSUME NEW a, NEW T, NEW R, NEW of, NEW whole, NEW said, NEW f, NEW r \in Runs,
           NEW t \in Texts, NEW whole2, NEW said2,
           Talk(a, T, R, of, whole, said, f), whole \subseteq whole2, r \in whole2,
           said2[r] = t, \A q \in whole : said2[q] = said[q],
           \A i \in DOMAIN a : OfRun(a[i], r) => a[i].status = "streaming",
           \A i \in DOMAIN a : Whole(a[i]) => of[a[i].id] # of[r]
    PROVE  Talk(Settled(a, r, t), T, R, of, whole2, said2, f)
  <1> DEFINE b == Settled(a, r, t)
  <1>5. a \in Seq(Message) /\ b \in Seq(Message)
    BY SettledFacts DEF Talk
  <1>4. /\ DOMAIN b = DOMAIN a
        /\ \A i \in DOMAIN a :
              /\ b[i].role = a[i].role /\ b[i].id = a[i].id
              /\ IF OfRun(a[i], r) THEN /\ OfRun(b[i], r) /\ b[i].text = t
                                        /\ b[i].status = "complete"
                                   ELSE b[i] = a[i]
    BY <1>5, SettledFacts
  <1> HIDE DEF b
  <1>6. UsersOK(b, T, f)
    BY <1>4 DEF Talk, UsersOK, OfRun
  <1>7. \A i, u : Under(a, i, u) => Under(b, i, u)
    BY <1>4 DEF Under
  <1>8. RepliesOK(b, R, of, f)
    BY <1>4, <1>7 DEF Talk, RepliesOK
  <1>9. Distinct(b)
    BY <1>4 DEF Talk, Distinct
  <1>10. WholeOK(b, whole2, said2)
    <2>1. ASSUME NEW i \in DOMAIN a, Whole(b[i])
          PROVE  b[i].id \in whole2 /\ b[i].text = said2[b[i].id]
      <3>1. CASE OfRun(a[i], r)
        BY <1>4, <3>1 DEF OfRun
      <3>2. CASE ~OfRun(a[i], r)
        BY <1>4, <2>1, <3>2 DEF Talk, WholeOK
      <3> QED BY <3>1, <3>2
    <2> QED BY <1>4, <2>1 DEF WholeOK
  <1>11. OneWhole(b, of)
    <2>1. ASSUME NEW i \in DOMAIN a, NEW j \in DOMAIN a, Whole(b[i]), Whole(b[j]),
                 of[b[i].id] = of[b[j].id]
          PROVE  i = j
      <3>1. CASE OfRun(a[i], r) /\ OfRun(a[j], r)
        BY <3>1 DEF Talk, Distinct, OfRun
      <3>2. CASE OfRun(a[i], r) /\ ~OfRun(a[j], r)
        BY <1>4, <2>1, <3>2 DEF OfRun
      <3>3. CASE ~OfRun(a[i], r) /\ OfRun(a[j], r)
        BY <1>4, <2>1, <3>3 DEF OfRun
      <3>4. CASE ~OfRun(a[i], r) /\ ~OfRun(a[j], r)
        BY <1>4, <2>1, <3>4 DEF Talk, OneWhole
      <3> QED BY <3>1, <3>2, <3>3, <3>4
    <2> QED BY <1>4, <2>1 DEF OneWhole
  <1> QED BY <1>5, <1>6, <1>8, <1>9, <1>10, <1>11 DEF Talk, b

\* The turn that may be retried is the last one, and no whole reply follows it.
LEMMA RetryableIs ==
    ASSUME NEW msgs \in Seq(Message), RetryableIndex(msgs) # 0
    PROVE  /\ RetryableIndex(msgs) \in DOMAIN msgs
           /\ msgs[RetryableIndex(msgs)].role = "user"
           /\ \A i \in DOMAIN msgs : RetryableIndex(msgs) < i =>
                 msgs[i].role # "user" /\ ~Whole(msgs[i])
  <1> DEFINE asked == {i \in DOMAIN msgs : msgs[i].role = "user"}
             last == CHOOSE i \in asked : \A j \in asked : j <= i
             n == Len(msgs)
  <1>1. DOMAIN msgs = 1..n /\ n \in Nat
    BY LenProperties
  <1>2. asked # {}
    BY DEF RetryableIndex
  <1>3. \E i \in asked : \A j \in asked : j <= i
    <2>1. asked \in SUBSET Nat /\ \A j \in asked : j <= n
      BY <1>1
    <2> HIDE DEF asked
    <2> QED BY <1>1, <1>2, <2>1, Greatest
  <1>4. last \in asked /\ \A j \in asked : j <= last
    BY <1>3
  <1>5. /\ RetryableIndex(msgs) = last
        /\ ~\E i \in DOMAIN msgs :
              i > last /\ msgs[i].role = "assistant" /\ msgs[i].status = "complete"
    <2> HIDE DEF last
    <2> QED BY <1>2 DEF RetryableIndex, last
  <1> HIDE DEF last
  <1>6. ASSUME NEW i \in DOMAIN msgs, last < i PROVE msgs[i].role # "user" /\ ~Whole(msgs[i])
    <2>1. i \in Nat /\ last \in Nat /\ ~(i <= last) /\ i > last
      BY <1>1, <1>4, <1>6
    <2> QED BY <1>4, <1>5, <2>1 DEF Whole
  <1> QED BY <1>4, <1>5, <1>6

-----------------------------------------------------------------------------
(* Types, but for the two conversations, whose type is part of Talk.       *)

FlagType ==
    /\ ModeTypeOK
    /\ loading \in BOOLEAN /\ alert \in {"none", "error", "notice"}
    /\ hydrated \in BOOLEAN /\ timer \in BOOLEAN /\ dirty \in BOOLEAN
RunType ==
    /\ active \in Runs \cup {NoRun} /\ aborted \in SUBSET Runs
    /\ phase \in [Runs -> Waiting \cup {"over"}] /\ captured \in SUBSET Runs
    /\ unlock \in [Runs -> {"none", "sent", "accepted"}]
    /\ turns \in 0..MaxTurns /\ runs \in 0..MaxRuns /\ reloads \in 0..MaxReloads
    /\ completed \in SUBSET Runs
    /\ forgotten \in 0..MaxTurns /\ lived \in SUBSET Runs
DataType ==
    /\ reply \in [Runs -> Reply] /\ history \in [Runs -> Seq(Message)]
    /\ buffer \in [Runs -> Buffer]
    /\ got \in [Runs -> Texts] /\ answers \in [Runs -> 0..MaxTurns]

\* The types of the variables, in parts a prover takes one at a time.
LEMMA TypeParts ==
    TypeOK <=> /\ FlagType /\ RunType /\ DataType
               /\ messages \in Seq(Message) /\ stored \in Seq(Message)
  BY Zenon DEF TypeOK, FlagType, RunType, DataType

\* What the bounds say of runs and texts.
LEMMA RunNumbers ==
    /\ MaxRuns \in Nat /\ MaxTurns \in Nat /\ MaxDeltas \in Nat /\ 0 < MaxDeltas
    /\ NoRun \notin Runs /\ NoText \notin Texts
    /\ \A t \in Texts : t \in Nat
    /\ 0 \in Texts /\ 1 \in Texts
  BY BoundsAssumption DEF Runs, NoRun, NoText, Texts

\* A run that resumes without finding itself aborted is the active one.
LEMMA Current ==
    ASSUME TypeOK, RunsInv, NEW r \in Runs, NEW p \in Waiting, Resumes(r, p)
    PROVE  /\ r = active /\ active # NoRun /\ IsCurrent(r) /\ r \notin completed /\ r \in lived
           /\ r \in 1..runs /\ hydrated /\ loading
  <1>1. r = active /\ r \notin aborted
    BY DEF Resumes, RunsInv
  <1>2. active # NoRun
    BY <1>1, RunNumbers
  <1>3. r \notin completed /\ r \in lived /\ hydrated /\ loading
    BY <1>1, <1>2, Zenon DEF RunsInv
  <1> QED BY <1>1, <1>2, <1>3 DEF IsCurrent, RunsInv

\* Only the active run has a buffer that is not disposed.
LEMMA BufferIsActive ==
    ASSUME TypeOK, RunsInv, NEW r \in Runs, buffer[r].frame \/ ~buffer[r].disposed
    PROVE  r = active /\ IsCurrent(r) /\ active # NoRun
  <1>1. r = active
    <2>1. ASSUME r # active PROVE FALSE
      <3>1. buffer[r] = Disposed
        BY <2>1 DEF RunsInv
      <3>2. Disposed.frame = FALSE /\ Disposed.disposed = TRUE
        BY DEF Disposed
      <3> QED BY <3>1, <3>2
    <2> QED BY <2>1
  <1> QED BY <1>1, RunNumbers DEF RunsInv, IsCurrent

\* A buffer in use has nothing that waits once it was flushed.
LEMMA FlushedBuffer ==
    ASSUME NEW b \in Buffer
    PROVE  /\ Flushed(b) \in Buffer /\ Flushed(b).disposed = b.disposed
           /\ b.disposed = FALSE => Flushed(b).pending = NoText
           /\ Flushed(b).frame = FALSE
  <1>1. /\ Flushed(b) = [frame |-> FALSE,
                         pending |-> IF b.disposed THEN b.pending ELSE NoText,
                         disposed |-> b.disposed]
        /\ b.pending \in Texts \cup {NoText} /\ b.disposed \in BOOLEAN
    BY DEF Flushed, Buffer
  <1>2. \A p \in Texts \cup {NoText}, d \in BOOLEAN :
           [frame |-> FALSE, pending |-> p, disposed |-> d] \in Buffer
    BY DEF Buffer
  <1>3. (IF b.disposed THEN b.pending ELSE NoText) \in Texts \cup {NoText}
    BY <1>1, Zenon
  <1>4. Flushed(b) \in Buffer
    BY <1>1, <1>2, <1>3, Zenon
  <1>5. Flushed(b).disposed = b.disposed /\ Flushed(b).frame = FALSE
    BY <1>1
  <1>6. ASSUME b.disposed = FALSE PROVE Flushed(b).pending = NoText
    BY <1>1, <1>6
  <1> QED BY <1>4, <1>5, <1>6

\* Flags.
LEMMA PersistFlags ==
    ASSUME TypeOK, NEW due \in BOOLEAN, PersistMessages(due)
    PROVE  FlagType'
  <1>1. dirty' \in BOOLEAN /\ timer' \in BOOLEAN
    BY Zenon DEF PersistMessages
  <1>2. UNCHANGED <<loading, alert, hydrated, modeVars>>
    BY DEF PersistMessages
  <1>3. ModeTypeOK /\ loading \in BOOLEAN /\ alert \in {"none", "error", "notice"}
        /\ hydrated \in BOOLEAN
    BY DEF TypeOK
  <1>4. ModeTypeOK'
    BY <1>2, <1>3 DEF ModeTypeOK, modeVars
  <1> QED BY <1>1, <1>2, <1>3, <1>4 DEF FlagType

\* activateGirlfriend sets flags.
LEMMA ActivateType ==
    ASSUME Activate
    PROVE  mode' \in [unlocked: BOOLEAN, active: BOOLEAN] /\ content' \in BOOLEAN
  BY DEF Activate

\* The types of the mode, through the steps that change it.
LEMMA ModeKept == ASSUME ModeTypeOK, UNCHANGED modeVars PROVE ModeTypeOK'
  BY DEF ModeTypeOK, modeVars

\* An activation, with what else its step sets.
LEMMA ModeActivated ==
    ASSUME ModeTypeOK, Activate, initial' \in {"status", "content", "done"}, cookie' \in BOOLEAN
    PROVE  ModeTypeOK'
  BY ActivateType DEF ModeTypeOK

\* The requests of the page load, and leaving the desktop.
LEMMA ModeStepType == ASSUME ModeTypeOK, ModeNext PROVE ModeTypeOK'
  <1>1. CASE InitialStatus
    BY <1>1 DEF InitialStatus, ModeTypeOK
  <1>2. CASE InitialContent
    <2>1. initial' \in {"status", "content", "done"} /\ cookie' = cookie /\ Activate
      BY <1>2 DEF InitialContent
    <2> QED BY <2>1, ModeActivated DEF ModeTypeOK
  <1>3. CASE InitialFails
    BY <1>3 DEF InitialFails, ModeTypeOK
  <1>4. CASE Leave
    <2>1. mode' = [mode EXCEPT !.active = FALSE] /\ UNCHANGED <<content, initial, cookie>>
      BY <1>4 DEF Leave
    <2>2. [mode EXCEPT !.active = FALSE] \in [unlocked: BOOLEAN, active: BOOLEAN]
      BY DEF ModeTypeOK
    <2> QED BY <2>1, <2>2 DEF ModeTypeOK
  <1> QED BY <1>1, <1>2, <1>3, <1>4 DEF ModeNext

\* A text that arrives makes an effect due or leaves things alone.
LEMMA FlagsOfPush ==
    ASSUME TypeOK, NEW r, NEW t, NEW final, Push(r, t, final)
    PROVE  dirty' \in BOOLEAN
  <1>1. dirty \in BOOLEAN
    BY DEF TypeOK
  <1>2. CASE ~IsCurrent(r) \/ buffer[r].disposed
    BY <1>1, <1>2 DEF Push
  <1>3. CASE ~(~IsCurrent(r) \/ buffer[r].disposed) /\ final
    BY <1>3 DEF Push
  <1>4. CASE ~(~IsCurrent(r) \/ buffer[r].disposed) /\ ~final
    BY <1>1, <1>4 DEF Push
  <1> QED BY <1>2, <1>3, <1>4

\* Every step keeps the types of the flags.
LEMMA FlagStep == ASSUME TypeOK, Next PROVE FlagType'
  <1>0. /\ FlagType /\ ModeTypeOK /\ cookie \in BOOLEAN /\ dirty \in BOOLEAN
        /\ initial \in {"status", "content", "done"}
    BY TypeParts DEF FlagType, ModeTypeOK
  <1>1. CASE Send \/ Retry \/ \E u, p, d : RunReply(u, p, d)
    <2>1. PICK u, p, d : RunReply(u, p, d)
      BY <1>1, Zenon DEF Send, Retry
    <2>2. /\ loading' = TRUE /\ alert' = "none" /\ dirty' = TRUE
          /\ UNCHANGED <<hydrated, timer, modeVars>>
      BY <2>1 DEF RunReply
    <2> QED BY <1>0, <2>2, ModeKept DEF FlagType
  <1>2. CASE Stop
    BY <1>0, <1>2, ModeKept DEF Stop, FlagType
  <1>3. CASE Reset
    BY <1>0, <1>3, ModeKept DEF Reset, FlagType
  <1>4. CASE Hide \/ TimerFires
    BY <1>0, <1>4, PersistFlags, Zenon DEF Hide, TimerFires
  <1>5. CASE PageLoads
    <2>1. /\ mode' = Locked /\ content' = FALSE /\ initial' = "status" /\ cookie' = cookie
          /\ loading' = FALSE /\ alert' = "none" /\ hydrated' = FALSE /\ timer' = FALSE
          /\ dirty' = TRUE
      BY <1>5 DEF PageLoads, ModeMounts
    <2>2. Locked \in [unlocked: BOOLEAN, active: BOOLEAN]
      BY DEF Locked
    <2>3. ModeTypeOK'
      BY <1>0, <2>1, <2>2 DEF ModeTypeOK
    <2> QED BY <2>1, <2>3 DEF FlagType
  <1>6. CASE Hydrate
    BY <1>0, <1>6, ModeKept DEF Hydrate, FlagType
  <1>7. CASE Effect
    <2>1. CASE PersistMessages(FALSE)
      BY <2>1, PersistFlags
    <2>2. CASE /\ dirty' = FALSE /\ timer' = (timer \/ hydrated)
               /\ UNCHANGED <<page, work, stored, counts, past, modeVars>>
      <3>1. dirty' \in BOOLEAN /\ timer' \in BOOLEAN
        BY <2>2, Zenon
      <3> QED BY <1>0, <2>2, <3>1, ModeKept DEF FlagType, page
    <2> QED BY <1>7, <2>1, <2>2 DEF Effect
  <1>8. CASE ModeSteps
    BY <1>0, <1>8, ModeStepType DEF ModeSteps, FlagType, page, disk
  <1>9. ASSUME NEW r \in Runs, SessionAnswers(r) \/ PostAnswers(r) \/ JsonAnswers(r)
                  \/ UnlockAnswers(r) \/ Done(r) \/ Desktop(r)
        PROVE  FlagType'
    <2>1. UNCHANGED <<page, disk, modeVars>>
      BY <1>9 DEF SessionAnswers, PostAnswers, JsonAnswers, UnlockAnswers, Done, Desktop
    <2> QED BY <1>0, <2>1, ModeKept DEF FlagType, page, disk
  <1>10. ASSUME NEW r \in Runs, ServerUnlocks(r) PROVE FlagType'
    <2>1. cookie' \in BOOLEAN /\ UNCHANGED <<page, disk, mode, content, initial>>
      BY <1>0, <1>10 DEF ServerUnlocks, SetCookie
    <2> QED BY <1>0, <2>1 DEF FlagType, ModeTypeOK, page, disk
  <1>11. ASSUME NEW r \in Runs, Over(r) PROVE loading' \in BOOLEAN /\ dirty' \in BOOLEAN
    BY <1>0, <1>11 DEF Over, FlagType
  <1>12. ASSUME NEW r \in Runs, Closes(r) PROVE FlagType'
    <2>1. Over(r) /\ UNCHANGED <<alert, hydrated, timer>>
      BY <1>12, Zenon DEF Closes, Complete
    <2>2. ModeTypeOK'
      BY <1>0, <1>12, ModeKept, ModeActivated, Zenon DEF Closes
    <2> QED BY <1>0, <1>11, <2>1, <2>2 DEF FlagType
  <1>13. ASSUME NEW r \in Runs, ContentAnswers(r) PROVE FlagType'
    <2>1. Over(r) /\ Activate /\ UNCHANGED <<alert, hydrated, timer, initial, cookie>>
      BY <1>13, Zenon DEF ContentAnswers, Complete
    <2>2. ModeTypeOK'
      BY <1>0, <2>1, ModeActivated, Zenon
    <2> QED BY <1>0, <1>11, <2>1, <2>2 DEF FlagType
  <1>14. ASSUME NEW r \in Runs, Throws(r) PROVE FlagType'
    <2>1. /\ Over(r) /\ alert' \in {"none", "error", "notice"}
          /\ UNCHANGED <<hydrated, timer, modeVars>>
      BY <1>0, <1>14 DEF Throws, FlagType
    <2> QED BY <1>0, <1>11, <2>1, ModeKept DEF FlagType
  <1>15. ASSUME NEW r \in Runs, NEW k, NEW t, NEW final, Deliver(r, k, t, final) PROVE FlagType'
    <2>1. dirty' \in BOOLEAN /\ UNCHANGED <<loading, alert, hydrated, timer, modeVars>>
      BY <1>15, FlagsOfPush DEF Deliver
    <2> QED BY <1>0, <2>1, ModeKept DEF FlagType
  <1>16. ASSUME NEW r \in Runs, Delta(r) \/ Final(r) \/ LegacyContent(r) PROVE FlagType'
    BY <1>15, <1>16, Zenon DEF Delta, Final, LegacyContent
  <1>17. ASSUME NEW r \in Runs, AsksUnlock(r) PROVE FlagType'
    <2>1. dirty' \in BOOLEAN /\ UNCHANGED <<loading, alert, hydrated, timer, modeVars>>
      BY <1>0, <1>17, FlagsOfPush DEF AsksUnlock
    <2> QED BY <1>0, <2>1, ModeKept DEF FlagType
  <1>18. ASSUME NEW r \in Runs, Frame(r) PROVE FlagType'
    <2>1. dirty' \in BOOLEAN
      BY <1>18, Zenon DEF Frame
    <2>2. UNCHANGED <<loading, alert, hydrated, timer, modeVars>>
      BY <1>18 DEF Frame
    <2> QED BY <1>0, <2>1, <2>2, ModeKept DEF FlagType
  <1> QED BY <1>1, <1>2, <1>3, <1>4, <1>5, <1>6, <1>7, <1>8, <1>9, <1>10, <1>12, <1>13, <1>14,
             <1>16, <1>17, <1>18, Zenon DEF Next, Answers, Events
\* Runs, turns and phases.
LEMMA RunStep == ASSUME TypeOK, Next PROVE RunType'
  <1>0. RunType /\ MaxRuns \in Nat /\ MaxTurns \in Nat
    BY TypeParts, RunNumbers
  <1>1. ASSUME NEW u, NEW p, NEW d, RunReply(u, p, d), turns' \in {turns, turns + 1},
               turns' \in 0..MaxTurns
        PROVE  RunType'
    <2>1. /\ runs < MaxRuns /\ runs' = runs + 1 /\ active' = runs + 1
          /\ phase' = [phase EXCEPT ![runs + 1] = "session"]
          /\ captured' \in {captured, captured \cup {runs + 1}}
          /\ lived' = lived \cup {runs + 1}
          /\ UNCHANGED <<aborted, unlock, reloads, completed, forgotten>>
      BY <1>1 DEF RunReply
    <2>2. runs + 1 \in Runs /\ runs + 1 \in 0..MaxRuns
      BY <1>0, <2>1 DEF RunType, Runs
    <2> QED BY <1>0, <1>1, <2>1, <2>2 DEF RunType, Waiting
  <1>2. CASE Send
    <2>1. PICK p, d : RunReply(turns + 1, p, d)
      BY <1>2, Zenon DEF Send
    <2>2. turns' = turns + 1 /\ turns' \in 0..MaxTurns
      BY <1>0, <1>2 DEF Send, RunType
    <2> QED BY <1>1, <2>1, <2>2
  <1>3. CASE Retry
    <2>1. PICK u, p, d : RunReply(u, p, d)
      BY <1>3, Zenon DEF Retry
    <2>2. turns' = turns /\ turns' \in 0..MaxTurns
      BY <1>0, <1>3 DEF Retry, RunType
    <2> QED BY <1>1, <2>1, <2>2
  <1>4. CASE Stop
    <2>1. /\ active \in Runs /\ aborted' = aborted \cup {active} /\ active' = NoRun
          /\ UNCHANGED <<phase, captured, unlock, counts, completed, forgotten, lived>>
      BY <1>0, <1>4 DEF Stop, RunType, past
    <2> QED BY <1>0, <2>1 DEF RunType, counts
  <1>5. CASE Reset
    <2>1. /\ aborted' \in SUBSET Runs /\ active' = NoRun /\ forgotten' = turns /\ lived' = {}
          /\ UNCHANGED <<phase, captured, unlock, counts, completed>>
      BY <1>0, <1>5 DEF Reset, RunType
    <2> QED BY <1>0, <2>1 DEF RunType, counts
  <1>6. ASSUME NEW due, PersistMessages(due) PROVE RunType'
    <2>1. UNCHANGED <<active, aborted, phase, captured, unlock, counts, past>>
      BY <1>6 DEF PersistMessages
    <2> QED BY <1>0, <2>1 DEF RunType, counts, past
  <1>7. CASE PageLoads
    <2>1. /\ reloads' \in 0..MaxReloads
      BY <1>0, <1>7, BoundsAssumption DEF PageLoads, RunType
    <2>2. /\ active' = NoRun /\ aborted' = {} /\ phase' = [r \in Runs |-> "over"]
          /\ captured' = {} /\ lived' = {}
          /\ UNCHANGED <<unlock, turns, runs, completed, forgotten>>
      BY <1>7 DEF PageLoads
    <2> QED BY <1>0, <2>1, <2>2 DEF RunType
  <1>8. CASE Hydrate \/ ModeSteps
    BY <1>0, <1>8 DEF Hydrate, ModeSteps, RunType, page, work, counts, past
  <1>9. CASE Effect
    <2>1. CASE UNCHANGED <<page, work, stored, counts, past, modeVars>>
      BY <1>0, <2>1 DEF RunType, page, work, counts, past
    <2> QED BY <1>6, <1>9, <2>1, Zenon DEF Effect
  <1>10. ASSUME NEW r \in Runs, NEW p \in Waiting, phase' = [phase EXCEPT ![r] = p],
                unlock' \in [Runs -> {"none", "sent", "accepted"}],
                UNCHANGED <<active, aborted, captured, counts, completed, forgotten, lived>>
         PROVE  RunType'
    BY <1>0, <1>10 DEF RunType, counts
  <1>11. ASSUME NEW r \in Runs, SessionAnswers(r) \/ PostAnswers(r) \/ JsonAnswers(r) \/ Done(r)
         PROVE  RunType'
    <2>1. \E p \in Waiting : phase' = [phase EXCEPT ![r] = p]
      BY <1>11 DEF SessionAnswers, PostAnswers, JsonAnswers, Done, Waiting
    <2>2. UNCHANGED <<page, captured, unlock, counts, past>>
      BY <1>11 DEF SessionAnswers, PostAnswers, JsonAnswers, Done
    <2> QED BY <1>0, <1>10, <2>1, <2>2 DEF RunType, page, past
  <1>12. ASSUME NEW r \in Runs, UnlockAnswers(r) PROVE RunType'
    <2>1. /\ phase' = [phase EXCEPT ![r] = "content"] /\ unlock' = [unlock EXCEPT ![r] = "none"]
          /\ UNCHANGED <<page, captured, counts, past>>
      BY <1>12 DEF UnlockAnswers
    <2> QED BY <1>0, <1>10, <2>1 DEF RunType, page, past, Waiting
  <1>13. ASSUME NEW r \in Runs, AsksUnlock(r) PROVE RunType'
    <2>1. /\ phase' = [phase EXCEPT ![r] = "unlock"] /\ unlock' = [unlock EXCEPT ![r] = "sent"]
          /\ UNCHANGED <<active, aborted, captured, counts, completed, forgotten, lived>>
      BY <1>13 DEF AsksUnlock
    <2> QED BY <1>0, <1>10, <2>1 DEF RunType, Waiting
  <1>14. ASSUME NEW r \in Runs, ServerUnlocks(r) PROVE RunType'
    <2>1. /\ \E v \in {"none", "accepted"} : unlock' = [unlock EXCEPT ![r] = v]
          /\ UNCHANGED <<page, phase, captured, counts, past>>
      BY <1>14 DEF ServerUnlocks
    <2> QED BY <1>0, <2>1 DEF RunType, page, counts, past
  <1>15. ASSUME NEW r \in Runs, Desktop(r) \/ Frame(r) PROVE RunType'
    BY <1>0, <1>15 DEF Desktop, Frame, RunType, page, counts, past
  <1>16. ASSUME NEW r \in Runs, Over(r), completed' \in SUBSET Runs,
                UNCHANGED <<aborted, unlock, counts, forgotten, lived>>
         PROVE  RunType'
    <2>1. /\ phase' = [phase EXCEPT ![r] = "over"] /\ captured' = captured \ {r}
          /\ active' \in {active, NoRun}
      BY <1>16 DEF Over
    <2> QED BY <1>0, <1>16, <2>1 DEF RunType, counts
  <1>17. ASSUME NEW r \in Runs, Closes(r) \/ ContentAnswers(r) PROVE RunType'
    <2>1. Complete(r) /\ UNCHANGED unlock
      BY <1>17 DEF Closes, ContentAnswers
    <2>2. /\ Over(r) /\ completed' = completed \cup {r}
          /\ UNCHANGED <<aborted, counts, forgotten, lived>>
      BY <2>1 DEF Complete
    <2> QED BY <1>0, <1>16, <2>1, <2>2 DEF RunType
  <1>18. ASSUME NEW r \in Runs, Throws(r) PROVE RunType'
    <2>1. Over(r) /\ UNCHANGED <<aborted, unlock, counts, past>>
      BY <1>18 DEF Throws
    <2> QED BY <1>0, <1>16, <2>1 DEF RunType, past
  <1>19. ASSUME NEW r \in Runs, Delta(r) \/ Final(r) \/ LegacyContent(r) PROVE RunType'
    <2>1. \E k, t, final : Deliver(r, k, t, final)
      BY <1>19, Zenon DEF Delta, Final, LegacyContent
    <2>2. UNCHANGED <<active, aborted, phase, captured, unlock, counts, completed, forgotten,
                      lived>>
      BY <2>1 DEF Deliver
    <2> QED BY <1>0, <2>2 DEF RunType, counts
  <1> QED BY <1>2, <1>3, <1>4, <1>5, <1>6, <1>7, <1>8, <1>9, <1>11, <1>12, <1>13, <1>14, <1>15,
             <1>17, <1>18, <1>19, Zenon DEF Next, Answers, Events, Hide, TimerFires
-----------------------------------------------------------------------------
(* How a run begins.                                                       *)

\* display ends with turn u and partial replies to it, and posted is what
\* display holds up to that turn.
Asks(u, posted, display) ==
    /\ posted \in Seq(Message) /\ posted # <<>> /\ posted[Len(posted)] = User(u)
    /\ \A k \in DOMAIN posted : k \in DOMAIN display /\ posted[k] = display[k]
    /\ Talk(display, turns', runs, answers, completed, got, forgotten)
    /\ Len(posted) \in DOMAIN display
    /\ \A i \in DOMAIN display : Len(posted) < i => display[i].role # "user"
    /\ \A i \in DOMAIN display : Whole(display[i]) => answers[display[i].id] # u
    /\ \A i \in DOMAIN display : display[i].status # "streaming"
    /\ \A m \in Shown(display) : m.role = "assistant" => m \in Shown(messages)
    /\ Shown(messages) \subseteq Shown(display)
    /\ u \in 1..turns'

\* A message of the user is known by its turn.
LEMMA UserIs ==
    ASSUME NEW m \in Message, m.role = "user", m.text = 1, m.status = "complete"
    PROVE  m = User(m.id)
  BY DEF Message, User

\* handleSendMessage and handleRetryReply ask about the last turn.
LEMMA StartIs ==
    ASSUME TypeOK, RunsInv, TalkInv, StreamingInv, Send \/ Retry
    PROVE  \E u, posted, display :
              /\ RunReply(u, posted, display) /\ Asks(u, posted, display)
              /\ turns' \in {turns, turns + 1} /\ turns' \in Nat /\ turns \in Nat
              /\ turns <= turns' /\ u \in 0..MaxTurns
  <1>0. active = NoRun
    BY DEF Send, Retry, RunReply
  <1>1. /\ messages \in Seq(Message) /\ Len(messages) \in Nat
        /\ DOMAIN messages = 1..Len(messages) /\ \A i \in DOMAIN messages : messages[i] \in Message
        /\ Talk(messages, turns, runs, answers, completed, got, forgotten)
    BY LenProperties, ElementOfSeq DEF TalkInv, TypeOK
  <1>2. /\ turns \in 0..MaxTurns /\ forgotten \in 0..MaxTurns /\ forgotten <= turns
        /\ runs \in Nat /\ MaxTurns \in Nat
    BY RunNumbers DEF TypeOK, RunsInv
  <1>3. \A i \in DOMAIN messages : messages[i].status # "streaming"
    <2>1. ASSUME NEW i \in DOMAIN messages, messages[i].status = "streaming" PROVE FALSE
      <3>1. messages[i].role = "assistant"
        BY <1>1, <2>1 DEF Talk, UsersOK, Message
      <3>2. messages[i].id \in 1..runs /\ messages[i].id = NoRun
        BY <1>0, <1>1, <2>1, <3>1 DEF StreamingInv, Talk, RepliesOK
      <3> QED BY <1>2, <3>2 DEF NoRun
    <2> QED BY <2>1
  <1>4. CASE Send
    <2> DEFINE asked == Append(messages, User(turns + 1))
    <2>1. /\ turns' = turns + 1 /\ RunReply(turns + 1, asked, asked) /\ turns < MaxTurns
      BY <1>4 DEF Send
    <2>2. turns + 1 \in 0..MaxTurns /\ turns' \in Nat /\ turns \in Nat /\ turns + 1 \in 1..turns'
          /\ turns <= turns' /\ turns' \in {turns, turns + 1} /\ forgotten \in Nat
      BY <1>2, <2>1
    <2>3. Talk(asked, turns', runs, answers, completed, got, forgotten)
      BY <1>1, <1>2, <2>1, <2>2, AskedTalk
    <2>4. User(turns + 1) \in Message /\ User(turns + 1).status = "complete"
          /\ User(turns + 1).role = "user"
      BY <2>2, BoundsAssumption DEF User, Message, Texts
    <2>5. /\ asked \in Seq(Message) /\ DOMAIN asked = 1..Len(messages) + 1
          /\ Len(asked) = Len(messages) + 1
          /\ \A i \in 1..Len(messages) : asked[i] = messages[i]
          /\ asked[Len(messages) + 1] = User(turns + 1)
      BY <1>1, <2>4, AppendProperties, LenProperties
    <2> HIDE DEF asked
    <2>6. asked # <<>> /\ Len(asked) \in DOMAIN asked
      BY <1>1, <2>5, EmptySeq
    <2>7. \A i \in DOMAIN asked : /\ ~(Len(asked) < i)
                                  /\ asked[i].status # "streaming"
      BY <1>1, <1>3, <2>4, <2>5
    <2>8. ASSUME NEW i \in DOMAIN asked, Whole(asked[i])
          PROVE  answers[asked[i].id] # turns + 1
      <3>1. i \in DOMAIN messages /\ Whole(messages[i]) /\ asked[i] = messages[i]
        BY <1>1, <2>4, <2>5, <2>8 DEF Whole
      <3>2. Under(messages, i, answers[messages[i].id])
        BY <1>1, <3>1 DEF Talk, RepliesOK, Whole
      <3>3. answers[messages[i].id] \in 1..turns
        BY <1>1, <3>2 DEF Talk, UsersOK, Under
      <3> QED BY <2>2, <3>1, <3>3
    <2>a. /\ \A m \in Shown(asked) : m.role = "assistant" => m \in Shown(messages)
          /\ Shown(messages) \subseteq Shown(asked)
      BY <1>1, <2>4, <2>5 DEF Shown
    <2>9. Asks(turns + 1, asked, asked)
      BY <2>2, <2>3, <2>5, <2>6, <2>7, <2>8, <2>a DEF Asks
    <2> QED BY <2>1, <2>2, <2>9
  <1>5. CASE Retry
    <2> DEFINE i == RetryableIndex(messages)
               u == messages[i].id
               posted == SubSeq(messages, 1, i)
    <2>1. i # 0 /\ RunReply(u, posted, messages) /\ turns' = turns
      BY <1>5 DEF Retry
    <2>2. /\ i \in DOMAIN messages /\ messages[i].role = "user"
          /\ \A k \in DOMAIN messages : i < k => messages[k].role # "user" /\ ~Whole(messages[k])
      BY <1>1, <2>1, RetryableIs
    <2> HIDE DEF i
    <2>3. /\ posted \in Seq(Message) /\ Len(posted) = i /\ \A k \in 1..i : posted[k] = messages[k]
      BY <1>1, <2>2, SubSeqProperties
    <2> HIDE DEF posted
    <2>4. /\ posted # <<>> /\ DOMAIN posted = 1..i
          /\ \A k \in DOMAIN posted : k \in DOMAIN messages /\ posted[k] = messages[k]
      BY <1>1, <2>2, <2>3, EmptySeq, LenProperties
    <2>5. u \in 1..turns /\ messages[i] = User(u) /\ u \in 0..MaxTurns
      <3>1. u \in 1..turns /\ messages[i].text = 1 /\ messages[i].status = "complete"
        BY <1>1, <2>2 DEF Talk, UsersOK
      <3> QED BY <1>1, <1>2, <2>2, <3>1, UserIs
    <2>6. posted[Len(posted)] = User(u)
      BY <2>3, <2>2, <2>4, <2>5, <1>1
    <2>7. ASSUME NEW k \in DOMAIN messages, Whole(messages[k])
          PROVE  answers[messages[k].id] # u
      <3>1. Under(messages, k, answers[messages[k].id])
        BY <1>1, <2>7 DEF Talk, RepliesOK, Whole
      <3>2. ASSUME answers[messages[k].id] = u PROVE FALSE
        <4>1. PICK j \in DOMAIN messages : j < k /\ messages[j].role = "user" /\ messages[j].id = u
          BY <3>1, <3>2 DEF Under
        <4>2. j = i
          BY <1>1, <2>2, <4>1 DEF Talk, Distinct
        <4> QED BY <2>2, <2>7, <4>1, <4>2
      <3> QED BY <3>2
    <2>8. Talk(messages, turns', runs, answers, completed, got, forgotten)
      BY <1>1, <2>1
    <2> HIDE DEF u
    <2>9. Asks(u, posted, messages)
      BY <1>3, <2>1, <2>2, <2>3, <2>4, <2>5, <2>6, <2>7, <2>8 DEF Asks, Shown
    <2>10. turns' \in {turns, turns + 1} /\ turns' \in Nat /\ turns \in Nat /\ turns <= turns'
      BY <1>2, <2>1
    <2> QED BY <2>1, <2>5, <2>9, <2>10
  <1> QED BY <1>4, <1>5

-----------------------------------------------------------------------------
(* Conversations through the steps.                                        *)

Conversation ==
    TalkInv /\ ActiveInv /\ StreamingInv /\ NothingReceivedIsLost

\* What the page owes to a run that lived.
KeptBy(r, msgs) ==
    IF \E m \in Shown(msgs) : OfRun(m, r)
    THEN \A m \in Shown(msgs) : OfRun(m, r) => m.text = got[r]
    ELSE got[r] = 0

\* What was received of the active run is in its message or waits for a frame:
\* after a flush it is in the message.
LEMMA FlushFacts ==
    ASSUME TypeOK, RunsInv, TalkInv, ActiveInv, active # NoRun
    PROVE  /\ Flush(active) \in Seq(Message) /\ DOMAIN Flush(active) = DOMAIN messages
           /\ Talk(Flush(active), turns, runs, answers, completed, got, forgotten)
           /\ \A i \in DOMAIN messages :
                 /\ Flush(active)[i].role = messages[i].role
                 /\ Flush(active)[i].id = messages[i].id
                 /\ Flush(active)[i].status = messages[i].status
                 /\ IF OfRun(messages[i], active) THEN Flush(active)[i].text = got[active]
                                                  ELSE Flush(active)[i] = messages[i]
  <1>1. /\ messages \in Seq(Message) /\ active \in Runs /\ buffer \in [Runs -> Buffer]
        /\ Talk(messages, turns, runs, answers, completed, got, forgotten)
    BY RunNumbers DEF TypeOK, TalkInv
  <1>2. \A i \in DOMAIN messages : OfRun(messages[i], active) =>
              /\ messages[i].status = "streaming"
              /\ LastSaid(buffer[active], got[active], messages[i].text)
    BY DEF ActiveInv
  <1>3. IsCurrent(active) /\ buffer[active].disposed = FALSE
    BY DEF RunsInv, IsCurrent
  <1>4. CASE buffer[active].pending = NoText
    <2>1. Flush(active) = messages
      BY <1>4 DEF Flush
    <2> QED BY <1>1, <1>2, <1>4, <2>1 DEF LastSaid
  <1>5. CASE buffer[active].pending # NoText
    <2> DEFINE t == buffer[active].pending
    <2>1. Flush(active) = Put(messages, active, t)
      BY <1>3, <1>5 DEF Flush
    <2>2. t \in Texts
      BY <1>1, <1>5 DEF Buffer
    <2>3. \A i \in DOMAIN messages : OfRun(messages[i], active) => t = got[active]
      BY <1>2, <1>5 DEF LastSaid
    <2> HIDE DEF t
    <2>4. /\ Put(messages, active, t) \in Seq(Message)
          /\ DOMAIN Put(messages, active, t) = DOMAIN messages
          /\ \A i \in DOMAIN messages :
                 /\ Put(messages, active, t)[i].role = messages[i].role
                 /\ Put(messages, active, t)[i].id = messages[i].id
                 /\ Put(messages, active, t)[i].status = messages[i].status
                 /\ IF OfRun(messages[i], active) THEN Put(messages, active, t)[i].text = t
                                         ELSE Put(messages, active, t)[i] = messages[i]
      BY <1>1, <2>2, PutFacts
    <2>5. Prunes(Put(messages, active, t), messages)
      BY <1>1, <1>2, <2>2, PutPrunes
    <2>6. Talk(Put(messages, active, t), turns, runs, answers, completed, got, forgotten)
      BY <1>1, <2>4, <2>5, PrunedTalk
    <2> QED BY <2>1, <2>3, <2>4, <2>6
  <1> QED BY <1>4, <1>5

\* A step that neither shows nor receives anything.
LEMMA QuietStep ==
    ASSUME TypeOK, Conversation,
           UNCHANGED <<messages, active, turns, runs, answers, completed, got, forgotten, lived>>,
           stored' \in {stored, messages},
           active # NoRun => buffer'[active].pending = buffer[active].pending
    PROVE  Conversation'
  <1>1. TalkInv'
    BY DEF Conversation, TalkInv
  <1>2. ActiveInv'
    BY DEF Conversation, ActiveInv, LastSaid
  <1>3. StreamingInv'
    BY DEF Conversation, StreamingInv
  <1>4. NothingReceivedIsLost'
    BY DEF Conversation, NothingReceivedIsLost
  <1> QED BY <1>1, <1>2, <1>3, <1>4 DEF Conversation

\* The others keep what they have when the message of one run changes only.
LEMMA OthersKeep ==
    ASSUME NothingReceivedIsLost, NEW r \in Runs, lived' \subseteq lived \cup {r},
           \A q \in lived' : q # r => q # active /\ got'[q] = got[q],
           \A q \in lived' : q # r =>
              /\ \A m \in Shown(messages') : OfRun(m, q) => m \in Shown(messages)
              /\ \A m \in Shown(messages) : OfRun(m, q) => m \in Shown(messages'),
           r \in lived' /\ r # active' => KeptBy(r, messages)'
    PROVE  NothingReceivedIsLost'
  <1>1. ASSUME NEW q \in lived', q # active' PROVE KeptBy(q, messages)'
    <2>1. CASE q = r
      BY <1>1, <2>1
    <2>2. CASE q # r
      <3>1. q \in lived /\ q # active /\ got'[q] = got[q]
        BY <2>2
      <3>2. KeptBy(q, messages)
        BY <3>1 DEF NothingReceivedIsLost, KeptBy
      <3>3. /\ \A m \in Shown(messages') : OfRun(m, q) => m \in Shown(messages)
            /\ \A m \in Shown(messages) : OfRun(m, q) => m \in Shown(messages')
        BY <2>2
      <3>4. CASE \E m \in Shown(messages) : OfRun(m, q)
        <4>1. \A m \in Shown(messages) : OfRun(m, q) => m.text = got[q]
          BY <3>2, <3>4 DEF KeptBy
        <4>2. \E m \in Shown(messages') : OfRun(m, q)
          BY <3>3, <3>4
        <4>3. \A m \in Shown(messages') : OfRun(m, q) => m.text = got'[q]
          BY <3>1, <3>3, <4>1
        <4> QED BY <4>2, <4>3 DEF KeptBy
      <3>5. CASE ~\E m \in Shown(messages) : OfRun(m, q)
        <4>1. got'[q] = 0
          BY <3>1, <3>2, <3>5 DEF KeptBy
        <4>2. ~\E m \in Shown(messages') : OfRun(m, q)
          BY <3>3, <3>5
        <4> QED BY <4>1, <4>2 DEF KeptBy
      <3> QED BY <3>4, <3>5
    <2> QED BY <2>1, <2>2
  <1> QED BY <1>1 DEF NothingReceivedIsLost, KeptBy

\* A step that shows more of the active reply, or keeps it for the next frame.
LEMMA TextStep ==
    ASSUME TypeOK, RunsInv, Conversation, active # NoRun,
           UNCHANGED <<active, turns, runs, answers, completed, forgotten, lived>>,
           DOMAIN messages' = DOMAIN messages,
           \A i \in DOMAIN messages :
              /\ messages'[i].role = messages[i].role /\ messages'[i].id = messages[i].id
              /\ messages'[i].status = messages[i].status
              /\ ~OfRun(messages[i], active) => messages'[i] = messages[i],
           Talk(messages', turns, runs, answers, completed, got, forgotten),
           \A q \in Runs : q # active => got'[q] = got[q],
           stored' \in {stored, messages'},
           \A i \in DOMAIN messages' :
              OfRun(messages'[i], active) =>
                 LastSaid(buffer'[active], got'[active], messages'[i].text)
    PROVE  Conversation'
  <1>0. /\ Talk(stored, turns, runs, answers, completed, got, forgotten)
        /\ turns \in Nat /\ runs \in Nat /\ completed \subseteq Runs
        /\ active \in Runs /\ active \notin completed /\ lived \subseteq Runs
    BY RunNumbers DEF TypeOK, RunsInv, Conversation, TalkInv
  <1>1. \A q \in completed : got'[q] = got[q]
    BY <1>0
  <1>2. /\ Talk(messages', turns', runs', answers', completed', got', forgotten')
        /\ Talk(stored, turns', runs', answers', completed', got', forgotten')
    BY <1>0, <1>1, TalkStays
  <1>3. TalkInv'
    BY <1>2 DEF TalkInv
  <1>4. \A i \in DOMAIN messages : OfRun(messages'[i], active) <=> OfRun(messages[i], active)
    BY DEF OfRun
  <1>5. \A i \in DOMAIN messages : Whole(messages'[i]) <=> Whole(messages[i])
    BY DEF Whole
  <1>6. ActiveInv'
    <2>1. \E i \in DOMAIN messages' : OfRun(messages'[i], active')
      BY <1>4 DEF Conversation, ActiveInv
    <2>2. \A i \in DOMAIN messages' : OfRun(messages'[i], active') =>
              messages'[i].status = "streaming"
      BY <1>4 DEF Conversation, ActiveInv
    <2>3. \A i \in DOMAIN messages' : Whole(messages'[i]) =>
              answers'[messages'[i].id] # answers'[active']
      BY <1>5 DEF Conversation, ActiveInv
    <2> QED BY <2>1, <2>2, <2>3 DEF ActiveInv
  <1>7. StreamingInv'
    BY DEF Conversation, StreamingInv
  <1>8. NothingReceivedIsLost'
    <2>1. ASSUME NEW q \in lived', q # active, NEW m \in Shown(messages'), OfRun(m, q)
          PROVE  m \in Shown(messages)
      <3>1. PICK i \in DOMAIN messages : m = messages'[i]
        BY <2>1 DEF Shown
      <3>2. ~OfRun(messages[i], active)
        BY <1>4, <2>1, <3>1 DEF OfRun
      <3> QED BY <3>1, <3>2 DEF Shown
    <2>2. ASSUME NEW q \in lived', q # active, NEW m \in Shown(messages), OfRun(m, q)
          PROVE  m \in Shown(messages')
      <3>1. PICK i \in DOMAIN messages : m = messages[i]
        BY <2>2 DEF Shown
      <3>2. ~OfRun(messages[i], active)
        BY <1>4, <2>2, <3>1 DEF OfRun
      <3> QED BY <3>1, <3>2 DEF Shown
    <2>3. \A q \in lived' : q # active => got'[q] = got[q]
      BY <1>0
    <2> QED BY <1>0, <2>1, <2>2, <2>3, OthersKeep DEF Conversation
  <1> QED BY <1>3, <1>6, <1>7, <1>8 DEF Conversation

\* The frame, the timer, hiding: the text that waits is shown.
LEMMA FlushStep ==
    ASSUME TypeOK, RunsInv, Conversation, active # NoRun,
           UNCHANGED <<active, turns, runs, answers, completed, got, forgotten, lived>>,
           messages' = Flush(active), buffer' = [buffer EXCEPT ![active] = Flushed(@)],
           stored' \in {stored, messages'}
    PROVE  Conversation'
  <1>1. /\ DOMAIN messages' = DOMAIN messages
        /\ Talk(messages', turns, runs, answers, completed, got, forgotten)
        /\ \A i \in DOMAIN messages :
                 /\ messages'[i].role = messages[i].role /\ messages'[i].id = messages[i].id
                 /\ messages'[i].status = messages[i].status
                 /\ IF OfRun(messages[i], active) THEN messages'[i].text = got[active]
                                                  ELSE messages'[i] = messages[i]
    BY FlushFacts DEF Conversation
  <1>2. buffer[active] \in Buffer /\ buffer[active].disposed = FALSE /\ active \in Runs
        /\ buffer \in [Runs -> Buffer]
    BY DEF TypeOK, RunsInv
  <1>3. buffer'[active].pending = NoText
    BY <1>2, FlushedBuffer
  <1>4. \A i \in DOMAIN messages' :
              OfRun(messages'[i], active) =>
                 LastSaid(buffer'[active], got'[active], messages'[i].text)
    BY <1>1, <1>3 DEF OfRun, LastSaid
  <1> QED BY <1>1, <1>4, TextStep

\* persistMessages, however it is called.
LEMMA PersistStep ==
    ASSUME TypeOK, RunsInv, Conversation, NEW due, PersistMessages(due)
    PROVE  Conversation'
  <1>1. /\ UNCHANGED <<active, turns, runs, answers, completed, got, forgotten, lived>>
        /\ stored' = messages'
    BY DEF PersistMessages, counts, past
  <1>2. CASE active = NoRun
    <2>1. messages' = messages
      BY <1>2 DEF PersistMessages
    <2> QED BY <1>1, <1>2, <2>1, QuietStep
  <1>3. CASE active # NoRun
    <2>1. messages' = Flush(active) /\ buffer' = [buffer EXCEPT ![active] = Flushed(@)]
      BY <1>3 DEF PersistMessages
    <2> QED BY <1>1, <1>3, <2>1, FlushStep
  <1> QED BY <1>2, <1>3

\* Text that arrives.
LEMMA PushStep ==
    ASSUME TypeOK, RunsInv, Conversation, active # NoRun, NEW t \in Texts, NEW final \in BOOLEAN,
           Push(active, t, final), got' = [got EXCEPT ![active] = t],
           UNCHANGED <<active, turns, runs, answers, completed, forgotten, lived, stored>>
    PROVE  Conversation'
  <1>1. IsCurrent(active) /\ buffer[active].disposed = FALSE /\ active \in Runs
        /\ buffer \in [Runs -> Buffer] /\ buffer[active] \in Buffer
        /\ messages \in Seq(Message) /\ got \in [Runs -> Texts]
    BY DEF TypeOK, RunsInv, IsCurrent
  <1>2. \A q \in Runs : q # active => got'[q] = got[q]
    BY <1>1
  <1>3. got'[active] = t
    BY <1>1
  <1>4. t # NoText
    BY RunNumbers
  <1>5. CASE final
    <2>1. /\ messages' = Put(messages, active, t)
          /\ buffer' = [buffer EXCEPT ![active] = Flushed([@ EXCEPT !.pending = t])]
      BY <1>1, <1>5 DEF Push
    <2>2. \A i \in DOMAIN messages : OfRun(messages[i], active) => messages[i].status = "streaming"
      BY DEF Conversation, ActiveInv
    <2>3. /\ messages' \in Seq(Message) /\ DOMAIN messages' = DOMAIN messages
          /\ \A i \in DOMAIN messages :
                 /\ messages'[i].role = messages[i].role /\ messages'[i].id = messages[i].id
                 /\ messages'[i].status = messages[i].status
                 /\ IF OfRun(messages[i], active) THEN messages'[i].text = t
                                                  ELSE messages'[i] = messages[i]
      BY <1>1, <2>1, PutFacts
    <2>4. Talk(messages', turns, runs, answers, completed, got, forgotten)
      BY <1>1, <2>1, <2>2, <2>3, PutPrunes, PrunedTalk DEF Conversation, TalkInv
    <2>5. buffer'[active].pending = NoText
      <3> DEFINE b == [buffer[active] EXCEPT !.pending = t]
      <3>1. b \in Buffer /\ b.disposed = FALSE
        BY <1>1 DEF Buffer
      <3>2. buffer'[active] = Flushed(b)
        BY <1>1, <2>1
      <3> HIDE DEF b
      <3> QED BY <3>1, <3>2, FlushedBuffer
    <2>6. \A i \in DOMAIN messages' :
              OfRun(messages'[i], active) =>
                 LastSaid(buffer'[active], got'[active], messages'[i].text)
      BY <1>3, <2>3, <2>5 DEF OfRun, LastSaid
    <2> QED BY <1>2, <2>3, <2>4, <2>6, TextStep
  <1>6. CASE ~final
    <2>1. /\ messages' = messages
          /\ buffer' = [buffer EXCEPT ![active].pending = t, ![active].frame = TRUE]
      BY <1>1, <1>6 DEF Push
    <2>2. buffer'[active].pending = t
      BY <1>1, <2>1 DEF Buffer
    <2>3. \A i \in DOMAIN messages' :
              OfRun(messages'[i], active) =>
                 LastSaid(buffer'[active], got'[active], messages'[i].text)
      BY <1>3, <1>4, <2>2 DEF LastSaid
    <2> QED BY <1>2, <2>1, <2>3, TextStep DEF Conversation, TalkInv
  <1> QED BY <1>5, <1>6

\* Whoever streams is the active run.
LEMMA StreamsIsActive ==
    ASSUME TypeOK, TalkInv, StreamingInv, NEW i \in DOMAIN messages,
           messages[i].status = "streaming"
    PROVE  OfRun(messages[i], active) /\ active # NoRun
  <1>1. messages[i] \in Message
    BY ElementOfSeq, LenProperties DEF TypeOK
  <1>2. messages[i].role = "assistant" /\ messages[i].id = active /\ messages[i].id \in 1..runs
    BY <1>1 DEF TalkInv, Talk, UsersOK, RepliesOK, StreamingInv, Message
  <1> QED BY <1>2 DEF OfRun, NoRun

\* A run returns its content.
LEMMA SettleStep ==
    ASSUME TypeOK, RunsInv, Conversation, NEW r \in Runs, r = active, NEW t \in Texts,
           messages' = Settled(messages, r, t), got' = [got EXCEPT ![r] = t],
           completed' = completed \cup {r}, active' = NoRun,
           UNCHANGED <<turns, runs, answers, forgotten, lived, stored>>
    PROVE  Conversation'
  <1>0. /\ Talk(messages, turns, runs, answers, completed, got, forgotten)
        /\ Talk(stored, turns, runs, answers, completed, got, forgotten)
        /\ turns \in Nat /\ runs \in Nat /\ completed \subseteq Runs
        /\ r \notin completed /\ active # NoRun /\ lived \subseteq Runs
        /\ got \in [Runs -> Texts] /\ messages \in Seq(Message)
    BY RunNumbers DEF TypeOK, RunsInv, Conversation, TalkInv
  <1>1. got'[r] = t /\ \A q \in Runs : q # r => got'[q] = got[q]
    BY <1>0
  <1>2. \A q \in completed : got'[q] = got[q]
    BY <1>0, <1>1
  <1>3. /\ \A i \in DOMAIN messages : OfRun(messages[i], r) => messages[i].status = "streaming"
        /\ \A i \in DOMAIN messages : Whole(messages[i]) =>
              answers[messages[i].id] # answers[r]
        /\ \E i \in DOMAIN messages : OfRun(messages[i], r)
    BY <1>0 DEF Conversation, ActiveInv
  <1> DEFINE whole2 == completed'
             said2 == got'
  <1>a. /\ completed \subseteq whole2 /\ said2[r] = t /\ \A q \in completed : said2[q] = got[q]
        /\ r \in whole2 /\ turns <= turns /\ runs <= runs
        /\ \A q \in 1..runs : answers[q] = answers[q]
    BY <1>0, <1>1, <1>2
  <1> HIDE DEF whole2, said2
  <1>4. /\ Talk(messages', turns, runs, answers, whole2, said2, forgotten)
        /\ DOMAIN messages' = DOMAIN messages
        /\ \A i \in DOMAIN messages :
              IF OfRun(messages[i], r)
              THEN /\ OfRun(messages'[i], r) /\ messages'[i].text = t
                   /\ messages'[i].status = "complete"
              ELSE messages'[i] = messages[i]
    <2>1. Talk(Settled(messages, r, t), turns, runs, answers, whole2, said2, forgotten)
      BY <1>0, <1>a, <1>3, SettledTalk
    <2>2. /\ DOMAIN Settled(messages, r, t) = DOMAIN messages
          /\ \A i \in DOMAIN messages :
              IF OfRun(messages[i], r)
              THEN /\ OfRun(Settled(messages, r, t)[i], r) /\ Settled(messages, r, t)[i].text = t
                   /\ Settled(messages, r, t)[i].status = "complete"
              ELSE Settled(messages, r, t)[i] = messages[i]
      BY <1>0, SettledFacts
    <2> QED BY <2>1, <2>2
  <1>5. Talk(stored, turns, runs, answers, whole2, said2, forgotten)
    BY <1>0, <1>a, TalkStays
  <1>6. TalkInv'
    BY <1>4, <1>5 DEF TalkInv, whole2, said2
  <1>7. ActiveInv'
    BY DEF ActiveInv
  <1>8. StreamingInv'
    <2>1. ASSUME NEW i \in DOMAIN messages', messages'[i].status = "streaming" PROVE FALSE
      <3>1. messages'[i] = messages[i] /\ ~OfRun(messages[i], r) /\ i \in DOMAIN messages
        BY <1>4, <2>1
      <3> QED BY <2>1, <3>1, StreamsIsActive DEF Conversation
    <2> QED BY <2>1 DEF StreamingInv
  <1>9. NothingReceivedIsLost'
    <2>1. ASSUME NEW q \in lived', q # r, NEW m \in Shown(messages'), OfRun(m, q)
          PROVE  m \in Shown(messages)
      <3>1. PICK i \in DOMAIN messages : m = messages'[i]
        BY <1>4, <2>1 DEF Shown
      <3>2. ~OfRun(messages[i], r)
        BY <1>4, <2>1, <3>1 DEF OfRun
      <3> QED BY <1>4, <3>1, <3>2 DEF Shown
    <2>2. ASSUME NEW q \in lived', q # r, NEW m \in Shown(messages), OfRun(m, q)
          PROVE  m \in Shown(messages')
      <3>1. PICK i \in DOMAIN messages : m = messages[i]
        BY <2>2 DEF Shown
      <3>2. ~OfRun(messages[i], r)
        BY <2>2, <3>1 DEF OfRun
      <3> QED BY <1>4, <3>1, <3>2 DEF Shown
    <2>4. \A q \in lived' : q # r => got'[q] = got[q]
      BY <1>0, <1>1
    <2>5. /\ \E m \in Shown(messages') : OfRun(m, r)
          /\ \A m \in Shown(messages') : OfRun(m, r) => m.text = got'[r]
      <3>1. \E m \in Shown(messages') : OfRun(m, r)
        BY <1>3, <1>4 DEF Shown
      <3>2. ASSUME NEW m \in Shown(messages'), OfRun(m, r) PROVE m.text = got'[r]
        <4>1. PICK i \in DOMAIN messages : m = messages'[i]
          BY <1>4, <3>2 DEF Shown
        <4> QED BY <1>1, <1>4, <3>2, <4>1
      <3> QED BY <3>1, <3>2
    <2>6. KeptBy(r, messages)'
      BY <2>5 DEF KeptBy
    <2>7. \A q \in lived' : q # r => q # active /\ got'[q] = got[q]
      BY <2>4
    <2> QED BY <1>0, <2>1, <2>2, <2>6, <2>7, OthersKeep DEF Conversation
  <1> QED BY <1>6, <1>7, <1>8, <1>9 DEF Conversation

\* A reply is stopped or fails: what came of it is shown and marked.
LEMMA InterruptStep ==
    ASSUME TypeOK, RunsInv, Conversation, NEW r \in Runs, r = active,
           messages' = InterruptAssistant(Flush(r), r), active' = NoRun,
           UNCHANGED <<turns, runs, answers, completed, got, forgotten, lived, stored>>
    PROVE  Conversation'
  <1> DEFINE a == Flush(r)
             b == InterruptAssistant(Flush(r), r)
  <1>1. active # NoRun
    BY RunNumbers
  <1>2. /\ a \in Seq(Message) /\ DOMAIN a = DOMAIN messages
        /\ Talk(a, turns, runs, answers, completed, got, forgotten)
        /\ \A i \in DOMAIN messages :
              /\ a[i].role = messages[i].role /\ a[i].id = messages[i].id
              /\ a[i].status = messages[i].status
              /\ IF OfRun(messages[i], r) THEN a[i].text = got[r] ELSE a[i] = messages[i]
    BY <1>1, FlushFacts DEF Conversation
  <1>3. b = InterruptAssistant(a, r)
    OBVIOUS
  <1> HIDE DEF a, b
  <1>4. \A i \in DOMAIN messages : /\ OfRun(a[i], r) <=> OfRun(messages[i], r)
                                   /\ OfRun(messages[i], r) => messages[i].status = "streaming"
    BY <1>1, <1>2 DEF OfRun, Conversation, ActiveInv
  <1>5. \A i \in DOMAIN a : OfRun(a[i], r) => a[i].status = "streaming"
    BY <1>2, <1>4
  <1>6. /\ b \in Seq(Message) /\ Prunes(b, a)
        /\ \A k \in DOMAIN b :
              IF OfRun(b[k], r)
              THEN /\ b[k].text # 0 /\ b[k].status = "interrupted"
                   /\ \E i \in DOMAIN a : OfRun(a[i], r) /\ a[i].text = b[k].text
              ELSE \E i \in DOMAIN a : b[k] = a[i]
        /\ \A i \in DOMAIN a : OfRun(a[i], r) => a[i].text = 0 \/ \E k \in DOMAIN b : OfRun(b[k], r)
        /\ \A i \in DOMAIN a : ~OfRun(a[i], r) => \E k \in DOMAIN b : b[k] = a[i]
    <2>1. b \in Seq(Message) /\ Prunes(b, a) /\ Interrupts(b, a, r)
      BY <1>2, <1>3, <1>5, InterruptFacts
    <2> QED BY <2>1 DEF Interrupts
  <1>7. Talk(b, turns, runs, answers, completed, got, forgotten)
    BY <1>2, <1>6, PrunedTalk
  <1>8. messages' = b
    BY DEF b
  <1>9. TalkInv'
    BY <1>7, <1>8 DEF TalkInv, Conversation
  <1>10. ActiveInv'
    BY DEF ActiveInv
  <1>11. \A k \in DOMAIN b : OfRun(b[k], r) => b[k].text = got[r]
    BY <1>2, <1>4, <1>6
  <1>12. \A k \in DOMAIN b : ~OfRun(b[k], r) =>
            \E i \in DOMAIN messages : b[k] = messages[i] /\ ~OfRun(messages[i], r)
    BY <1>2, <1>4, <1>6
  <1>13. \A i \in DOMAIN messages : ~OfRun(messages[i], r) => \E k \in DOMAIN b : b[k] = messages[i]
    BY <1>2, <1>4, <1>6
  <1>14. StreamingInv'
    <2>1. ASSUME NEW k \in DOMAIN b, b[k].status = "streaming" PROVE FALSE
      <3>1. PICK i \in DOMAIN messages : b[k] = messages[i] /\ ~OfRun(messages[i], r)
        BY <1>6, <1>12, <2>1
      <3> QED BY <2>1, <3>1, StreamsIsActive DEF Conversation
    <2> QED BY <1>8, <2>1 DEF StreamingInv
  <1>15. NothingReceivedIsLost'
    <2>1. ASSUME NEW q \in lived', q # r, NEW m \in Shown(messages'), OfRun(m, q)
          PROVE  m \in Shown(messages)
      <3>1. PICK k \in DOMAIN b : m = b[k]
        BY <1>8, <2>1 DEF Shown
      <3>2. ~OfRun(b[k], r)
        BY <2>1, <3>1 DEF OfRun
      <3> QED BY <1>12, <3>1, <3>2 DEF Shown
    <2>2. ASSUME NEW q \in lived', q # r, NEW m \in Shown(messages), OfRun(m, q)
          PROVE  m \in Shown(messages')
      <3>1. PICK i \in DOMAIN messages : m = messages[i]
        BY <2>2 DEF Shown
      <3>2. ~OfRun(messages[i], r)
        BY <2>2, <3>1 DEF OfRun
      <3> QED BY <1>8, <1>13, <3>1, <3>2 DEF Shown
    <2>3. \A q \in lived' : q # r => q # active /\ got'[q] = got[q]
      OBVIOUS
    <2>4. \A m \in Shown(messages') : OfRun(m, r) => m.text = got'[r]
      BY <1>8, <1>11 DEF Shown
    <2>5. ASSUME ~\E m \in Shown(messages') : OfRun(m, r) PROVE got'[r] = 0
      <3>1. \A k \in DOMAIN b : ~OfRun(b[k], r)
        BY <1>8, <2>5 DEF Shown
      <3>2. PICK i \in DOMAIN messages : OfRun(messages[i], r)
        BY <1>1 DEF Conversation, ActiveInv
      <3>3. a[i].text = 0 /\ a[i].text = got[r]
        BY <1>2, <1>4, <1>6, <3>1, <3>2
      <3> QED BY <3>3
    <2>6. KeptBy(r, messages)'
      BY <2>4, <2>5 DEF KeptBy
    <2>7. lived' \subseteq lived \cup {r}
      OBVIOUS
    <2> QED BY <2>1, <2>2, <2>3, <2>6, <2>7, OthersKeep DEF Conversation
  <1> QED BY <1>9, <1>10, <1>14, <1>15 DEF Conversation

\* A run begins.
LEMMA StartStep ==
    ASSUME TypeOK, RunsInv, Conversation, Send \/ Retry
    PROVE  Conversation'
  <1>1. PICK u, posted, display :
              /\ RunReply(u, posted, display) /\ Asks(u, posted, display)
              /\ turns' \in {turns, turns + 1} /\ turns' \in Nat /\ turns \in Nat
              /\ turns <= turns' /\ u \in 0..MaxTurns
    BY StartIs DEF Conversation
  <1> DEFINE r == runs + 1
             of2 == answers'
             b == Append(display, Assistant(r))
  <1>2. /\ active = NoRun /\ runs' = r /\ active' = r /\ messages' = b
        /\ buffer' = [buffer EXCEPT ![r] = Fresh] /\ answers' = [answers EXCEPT ![r] = u]
        /\ lived' = lived \cup {r} /\ runs < MaxRuns
        /\ UNCHANGED <<got, completed, forgotten, stored>>
    BY <1>1 DEF RunReply
  <1>3. /\ r \in Runs /\ runs \in Nat /\ r \in Nat /\ runs <= r /\ r > runs /\ r # NoRun
        /\ lived \subseteq Runs
        /\ completed \subseteq 1..runs /\ lived \subseteq 1..runs
        /\ \A q \in 1..runs : q # r
        /\ buffer \in [Runs -> Buffer] /\ answers \in [Runs -> 0..MaxTurns] /\ r \notin 1..runs
    <2>1. /\ runs \in 0..MaxRuns /\ lived \subseteq Runs /\ MaxRuns \in Nat /\ NoRun \notin Runs
          /\ buffer \in [Runs -> Buffer] /\ answers \in [Runs -> 0..MaxTurns]
      BY RunNumbers DEF TypeOK
    <2>2. completed \subseteq 1..runs /\ lived \subseteq 1..runs
      BY DEF RunsInv
    <2>3. /\ r \in Runs /\ runs \in Nat /\ r \in Nat /\ runs <= r /\ r > runs
          /\ \A q \in 1..runs : q # r
      BY <1>2, <2>1 DEF Runs
    <2> QED BY <2>1, <2>2, <2>3
  <1>4. of2[r] = u /\ \A q \in 1..runs : of2[q] = answers[q]
    BY <1>2, <1>3
  <1>5. got[r] = 0
    BY <1>3 DEF RunsInv
  <1> HIDE DEF r, of2, b
  <1>6. /\ posted[Len(posted)] = User(u)
        /\ Talk(display, turns', runs, answers, completed, got, forgotten)
        /\ Len(posted) \in DOMAIN display /\ Len(posted) \in DOMAIN posted
        /\ display[Len(posted)] = User(u)
        /\ \A i \in DOMAIN display : Len(posted) < i => display[i].role # "user"
        /\ \A i \in DOMAIN display : Whole(display[i]) => answers[display[i].id] # u
        /\ \A i \in DOMAIN display : display[i].status # "streaming"
    <2>1. posted \in Seq(Message) /\ posted # <<>>
      BY <1>1 DEF Asks
    <2>2. Len(posted) \in DOMAIN posted
      BY <2>1, EmptySeq, LenProperties
    <2> QED BY <1>1, <2>2 DEF Asks
  <1>7. Talk(display, turns', runs, of2, completed, got, forgotten)
    BY <1>1, <1>3, <1>4, <1>6, TalkStays
  <1>8. Talk(b, turns', r, of2, completed, got, forgotten)
    <2>1. display[Len(posted)].role = "user" /\ display[Len(posted)].id = u
      BY <1>6 DEF User
    <2> QED BY <1>3, <1>4, <1>6, <1>7, <2>1, RunTalk DEF r, b
  <1>9. Talk(stored, turns', r, of2, completed, got, forgotten)
    <2>1. Talk(stored, turns, runs, answers, completed, got, forgotten)
      BY DEF Conversation, TalkInv
    <2> QED BY <1>1, <1>3, <1>4, <2>1, TalkStays
  <1>10. TalkInv'
    BY <1>2, <1>8, <1>9 DEF TalkInv, of2
  <1>11. /\ display \in Seq(Message) /\ DOMAIN b = 1..Len(display) + 1 /\ Len(display) \in Nat
         /\ DOMAIN display = 1..Len(display)
         /\ \A i \in DOMAIN display : b[i] = display[i]
         /\ b[Len(display) + 1] = Assistant(r)
    <2>1. display \in Seq(Message) /\ Assistant(r) \in Message
      BY <1>3, <1>6, RunNumbers DEF Talk, Assistant, Message
    <2> QED BY <2>1, AppendProperties, LenProperties DEF b
  <1>12. /\ OfRun(Assistant(r), r) /\ Assistant(r).status = "streaming" /\ Assistant(r).text = 0
         /\ ~Whole(Assistant(r)) /\ Assistant(r).role = "assistant" /\ Assistant(r).id = r
    BY DEF Assistant, OfRun, Whole
  <1>13. \A i \in DOMAIN display : ~OfRun(display[i], r)
    BY <1>3, <1>6 DEF Talk, RepliesOK, OfRun
  <1>14. \A i \in DOMAIN b : \/ i \in DOMAIN display /\ b[i] = display[i]
                             \/ i = Len(display) + 1 /\ b[i] = Assistant(r)
    BY <1>11
  <1>15. ActiveInv'
    <2>1. \E i \in DOMAIN messages' : OfRun(messages'[i], active')
      BY <1>2, <1>11, <1>12
    <2>2. buffer'[r].pending = NoText
      BY <1>2, <1>3 DEF Fresh
    <2>3. \A i \in DOMAIN messages' : OfRun(messages'[i], active') =>
              /\ messages'[i].status = "streaming"
              /\ LastSaid(buffer'[active'], got'[active'], messages'[i].text)
      BY <1>2, <1>5, <1>12, <1>13, <1>14, <2>2 DEF LastSaid
    <2>4. \A i \in DOMAIN messages' : Whole(messages'[i]) =>
              answers'[messages'[i].id] # answers'[active']
      <3>1. ASSUME NEW i \in DOMAIN b, Whole(b[i]) PROVE of2[b[i].id] # of2[r]
        <4>1. i \in DOMAIN display /\ b[i] = display[i]
          BY <1>12, <1>14, <3>1
        <4>2. b[i].id \in 1..runs
          BY <1>6, <3>1, <4>1 DEF Talk, RepliesOK, Whole
        <4> QED BY <1>4, <1>6, <3>1, <4>1, <4>2
      <3> QED BY <1>2, <3>1 DEF of2
    <2> QED BY <2>1, <2>3, <2>4 DEF ActiveInv
  <1>16. StreamingInv'
    BY <1>2, <1>6, <1>12, <1>14 DEF StreamingInv
  <1>17. NothingReceivedIsLost'
    <2>1. ASSUME NEW q \in lived', q # r, NEW m \in Shown(messages'), OfRun(m, q)
          PROVE  m \in Shown(messages)
      <3>1. PICK i \in DOMAIN b : m = b[i]
        BY <1>2, <2>1 DEF Shown
      <3>2. i \in DOMAIN display /\ m = display[i]
        BY <1>12, <1>14, <2>1, <3>1 DEF OfRun
      <3>3. m \in Shown(display) /\ m.role = "assistant"
        BY <2>1, <3>2 DEF Shown, OfRun
      <3> QED BY <1>1, <3>3 DEF Asks
    <2>2. ASSUME NEW q \in lived', q # r, NEW m \in Shown(messages), OfRun(m, q)
          PROVE  m \in Shown(messages')
      <3>1. m \in Shown(display)
        BY <1>1 DEF Asks
      <3>2. PICK i \in DOMAIN display : m = display[i]
        BY <3>1 DEF Shown
      <3>3. i \in DOMAIN b /\ b[i] = m
        BY <1>11, <3>2
      <3> QED BY <1>2, <3>3 DEF Shown
    <2>3. \A q \in lived' : q # r => q # active /\ got'[q] = got[q]
      BY <1>2, <1>3, RunNumbers
    <2>4. lived' \subseteq lived \cup {r} /\ r = active'
      BY <1>2
    <2> QED BY <1>3, <2>1, <2>2, <2>3, <2>4, OthersKeep DEF Conversation
  <1> QED BY <1>10, <1>15, <1>16, <1>17 DEF Conversation

\* An empty conversation is a sound one.
LEMMA EmptyTalk ==
    ASSUME NEW T, NEW R, NEW of, NEW whole, NEW said, NEW f
    PROVE  Talk(<<>>, T, R, of, whole, said, f) /\ DOMAIN <<>> = {} /\ Shown(<<>>) = {}
  <1>1. <<>> \in Seq(Message) /\ DOMAIN <<>> = {}
    BY EmptySeq, LenProperties
  <1> QED BY <1>1 DEF Talk, UsersOK, RepliesOK, Distinct, WholeOK, OneWhole, Shown

\* A new conversation.
LEMMA ResetStep ==
    ASSUME Reset
    PROVE  Conversation'
  <1>1. messages' = <<>> /\ stored' = <<>> /\ active' = NoRun /\ lived' = {}
    BY DEF Reset
  <1>2. TalkInv'
    BY <1>1, EmptyTalk DEF TalkInv
  <1>3. ActiveInv' /\ StreamingInv' /\ NothingReceivedIsLost'
    BY <1>1, EmptyTalk DEF ActiveInv, StreamingInv, NothingReceivedIsLost
  <1> QED BY <1>2, <1>3 DEF Conversation

\* The page shows what was stored.
LEMMA HydrateStep ==
    ASSUME TypeOK, RunsInv, Conversation, Hydrate
    PROVE  Conversation'
  <1>1. /\ messages' = RestoreConversation(stored) /\ ~hydrated
        /\ UNCHANGED <<active, turns, runs, answers, completed, got, forgotten, lived, stored>>
    BY DEF Hydrate, counts, past
  <1>2. active = NoRun /\ lived = {}
    BY <1>1, Zenon DEF RunsInv
  <1>3. stored \in Seq(Message) /\ Talk(stored, turns, runs, answers, completed, got, forgotten)
    BY DEF Conversation, TalkInv, Talk
  <1>4. \A i \in DOMAIN stored : stored[i].role = "user" =>
              stored[i].text = 1 /\ stored[i].status = "complete"
    BY <1>3 DEF Talk, UsersOK
  <1>5. /\ messages' \in Seq(Message) /\ Prunes(messages', stored)
        /\ \A k \in DOMAIN messages' : messages'[k].status # "streaming"
    BY <1>1, <1>3, <1>4, RestoreFacts
  <1>6. Talk(messages', turns, runs, answers, completed, got, forgotten)
    BY <1>3, <1>5, PrunedTalk
  <1>7. TalkInv'
    BY <1>1, <1>3, <1>6 DEF TalkInv
  <1>8. ActiveInv'
    BY <1>1, <1>2 DEF ActiveInv
  <1>9. StreamingInv'
    BY <1>5 DEF StreamingInv
  <1>10. NothingReceivedIsLost'
    BY <1>1, <1>2 DEF NothingReceivedIsLost
  <1> QED BY <1>7, <1>8, <1>9, <1>10 DEF Conversation

\* The page is loaded.
LEMMA LoadStep ==
    ASSUME TypeOK, RunsInv, Conversation, PageLoads
    PROVE  Conversation'
  <1>1. /\ messages' = <<>> /\ active' = NoRun /\ lived' = {}
        /\ UNCHANGED <<turns, runs, answers, completed, got, forgotten>>
    BY DEF PageLoads
  <1>2. stored' \in {stored, messages} \/ (active # NoRun /\ stored' = Flush(active))
    <2>1. stored' = stored \/ stored' = (IF active = NoRun THEN messages ELSE Flush(active))
      BY DEF PageLoads
    <2> QED BY <2>1
  <1>3. Talk(stored', turns, runs, answers, completed, got, forgotten)
    <2>1. CASE stored' \in {stored, messages}
      BY <2>1 DEF Conversation, TalkInv
    <2>2. CASE active # NoRun /\ stored' = Flush(active)
      BY <2>2, FlushFacts DEF Conversation
    <2> QED BY <1>2, <2>1, <2>2
  <1>4. TalkInv'
    BY <1>1, <1>3, EmptyTalk DEF TalkInv
  <1>5. ActiveInv' /\ StreamingInv' /\ NothingReceivedIsLost'
    BY <1>1, EmptyTalk DEF ActiveInv, StreamingInv, NothingReceivedIsLost
  <1> QED BY <1>4, <1>5 DEF Conversation

\* The texts that arrive are texts.
LEMMA TextsArrive ==
    ASSUME TypeOK, RunsInv, NEW r \in Runs
    PROVE  /\ reply[r].text \in Texts /\ reply[r].seen \in Texts
           /\ reply[r].kind # "final" => Next1(r) \in Texts /\ Next1(r) - 1 <= MaxDeltas
           /\ reply[r].seen < MaxDeltas => Next1(r) \in Texts /\ Next1(r) <= MaxDeltas
  <1>1. reply[r] \in Reply
    BY DEF TypeOK
  <1>2. reply[r].text \in Texts /\ reply[r].seen \in Texts
    BY <1>1 DEF Reply
  <1>3. reply[r].kind # "final" => reply[r].seen <= MaxDeltas
    BY DEF RunsInv
  <1> QED BY <1>2, <1>3, RunNumbers DEF Texts, Next1

\* Deliver hands over a text for the active run.
LEMMA Delivers ==
    ASSUME TypeOK, RunsInv, NEW r \in Runs, Delta(r) \/ Final(r) \/ LegacyContent(r)
    PROVE  /\ r = active /\ active # NoRun
           /\ \E k \in {"legacy", "deltas", "final"}, t \in Texts, final \in BOOLEAN :
                 /\ Deliver(r, k, t, final) /\ reply[r].seen <= MaxDeltas
                 /\ k # "final" => reply[r].seen < MaxDeltas
  <1>1. Resumes(r, "stream")
    BY DEF Delta, Final, LegacyContent
  <1>2. r = active /\ active # NoRun
    BY <1>1, Current DEF Waiting
  <1>3. CASE Delta(r)
    <2>1. Deliver(r, "deltas", Next1(r), FALSE) /\ reply[r].seen < MaxDeltas
          /\ reply[r].kind # "final"
      BY <1>3 DEF Delta
    <2>2. reply[r].seen <= MaxDeltas
      BY <2>1, TextsArrive DEF RunsInv
    <2> QED BY <1>2, <2>1, <2>2, TextsArrive
  <1>4. CASE Final(r)
    <2>1. /\ \E t \in {0, Next1(r)} : Deliver(r, "final", t, TRUE)
          /\ reply[r].kind # "final"
      BY <1>4 DEF Final
    <2>2. reply[r].seen <= MaxDeltas
      BY <2>1 DEF RunsInv
    <2> QED BY <1>2, <2>1, <2>2, TextsArrive, RunNumbers
  <1>5. CASE LegacyContent(r)
    <2>1. Deliver(r, "legacy", Next1(r), FALSE) /\ reply[r].seen < MaxDeltas
          /\ reply[r].kind # "final"
      BY <1>5 DEF LegacyContent
    <2>2. reply[r].seen <= MaxDeltas
      BY <2>1 DEF RunsInv
    <2> QED BY <1>2, <2>1, <2>2, TextsArrive
  <1> QED BY <1>3, <1>4, <1>5

\* A run returns its content, whichever answer came last.
LEMMA CompleteStep ==
    ASSUME TypeOK, RunsInv, Conversation, NEW r \in Runs, NEW p \in Waiting, Resumes(r, p),
           Complete(r)
    PROVE  Conversation'
  <1>1. r = active /\ IsCurrent(r) /\ active # NoRun
    BY Current
  <1>2. /\ messages' = Settled(messages, r, reply[r].text)
        /\ got' = [got EXCEPT ![r] = reply[r].text] /\ completed' = completed \cup {r}
        /\ Over(r)
        /\ UNCHANGED <<stored, counts, answers, forgotten, lived>>
    BY <1>1, Zenon DEF Complete, Settled
  <1>3. active' = NoRun
    BY <1>1, <1>2 DEF Over
  <1> QED BY <1>1, <1>2, <1>3, TextsArrive, SettleStep DEF counts

\* Every step keeps the conversation.
LEMMA ConversationStep ==
    ASSUME TypeOK, RunsInv, Conversation, Next
    PROVE  Conversation'
  <1>1. CASE Send \/ Retry
    BY <1>1, StartStep
  <1>2. CASE Stop
    <2>1. /\ active # NoRun /\ messages' = InterruptAssistant(Flush(active), active)
          /\ active' = NoRun /\ UNCHANGED <<counts, past, stored>>
      BY <1>2 DEF Stop
    <2>2. active \in Runs
      BY <2>1 DEF TypeOK
    <2> QED BY <2>1, <2>2, InterruptStep DEF counts, past
  <1>3. CASE Reset
    BY <1>3, ResetStep
  <1>4. CASE Hide \/ TimerFires
    BY <1>4, PersistStep DEF Hide, TimerFires
  <1>5. CASE PageLoads
    BY <1>5, LoadStep
  <1>6. CASE Hydrate
    BY <1>6, HydrateStep
  <1>7. CASE Effect
    <2>1. CASE PersistMessages(FALSE)
      BY <2>1, PersistStep
    <2>2. CASE UNCHANGED <<page, work, stored, counts, past, modeVars>>
      BY <2>2, QuietStep DEF page, work, counts, past
    <2> QED BY <1>7, <2>1, <2>2 DEF Effect
  <1>8. CASE ModeSteps
    BY <1>8, QuietStep DEF ModeSteps, page, work, counts, past, disk
  <1>9. ASSUME NEW r \in Runs, SessionAnswers(r) \/ PostAnswers(r) \/ JsonAnswers(r)
                  \/ UnlockAnswers(r) \/ Done(r) \/ Desktop(r) \/ ServerUnlocks(r)
        PROVE  Conversation'
    <2>1. UNCHANGED <<page, disk, counts, past, buffer>>
      BY <1>9 DEF SessionAnswers, PostAnswers, JsonAnswers, UnlockAnswers, Done, Desktop,
                  ServerUnlocks
    <2> QED BY <2>1, QuietStep DEF page, counts, past, disk
  <1>10. ASSUME NEW r \in Runs, Closes(r) \/ ContentAnswers(r) PROVE Conversation'
    <2>1. Complete(r) /\ (Resumes(r, "closing") \/ Resumes(r, "content"))
      BY <1>10 DEF Closes, ContentAnswers
    <2>2. "closing" \in Waiting /\ "content" \in Waiting
      BY DEF Waiting
    <2> QED BY <2>1, <2>2, CompleteStep
  <1>11. ASSUME NEW r \in Runs, Delta(r) \/ Final(r) \/ LegacyContent(r) PROVE Conversation'
    <2>1. r = active /\ active # NoRun
      BY <1>11, Delivers
    <2>2. PICK k \in {"legacy", "deltas", "final"}, t \in Texts, final \in BOOLEAN :
              Deliver(r, k, t, final)
      BY <1>11, Delivers
    <2>3. /\ Push(active, t, final) /\ got' = [got EXCEPT ![active] = t]
          /\ UNCHANGED <<active, counts, completed, answers, forgotten, lived, stored>>
      BY <2>1, <2>2 DEF Deliver
    <2> QED BY <2>1, <2>3, PushStep DEF counts
  <1>12. ASSUME NEW r \in Runs, AsksUnlock(r) PROVE Conversation'
    <2>1. r = active /\ active # NoRun
      BY <1>12, Current DEF AsksUnlock, Waiting
    <2>2. UNCHANGED <<active, counts, completed, answers, forgotten, lived, stored>>
      BY <1>12 DEF AsksUnlock
    <2>3. CASE reply[r].kind = "final"
      <3>1. UNCHANGED <<messages, buffer, got>>
        BY <1>12, <2>3 DEF AsksUnlock
      <3> QED BY <2>2, <3>1, QuietStep DEF counts
    <2>4. CASE reply[r].kind # "final"
      <3>1. Push(active, reply[r].text, TRUE) /\ got' = [got EXCEPT ![active] = reply[r].text]
        BY <1>12, <2>1, <2>4 DEF AsksUnlock
      <3>2. reply[r].text \in Texts /\ TRUE \in BOOLEAN
        BY TextsArrive
      <3> QED BY <2>1, <2>2, <3>1, <3>2, PushStep DEF counts
    <2> QED BY <2>3, <2>4
  <1>13. ASSUME NEW r \in Runs, Throws(r) PROVE Conversation'
    <2>1. buffer' = [buffer EXCEPT ![r] = Disposed] /\ Over(r) /\ UNCHANGED <<stored, counts, past>>
      BY <1>13 DEF Throws
    <2>2. CASE IsCurrent(r)
      <3>1. messages' = InterruptAssistant(Flush(r), r) /\ r = active /\ active' = NoRun
        BY <1>13, <2>1, <2>2 DEF Throws, Over, IsCurrent
      <3> QED BY <2>1, <3>1, InterruptStep DEF counts, past
    <2>3. CASE ~IsCurrent(r)
      <3>1. messages' = messages /\ active' = active
        BY <1>13, <2>1, <2>3 DEF Throws, Over
      <3>2. active # NoRun => r # active
        BY <2>3 DEF IsCurrent, RunsInv
      <3>3. active # NoRun => buffer'[active].pending = buffer[active].pending
        BY <2>1, <3>2 DEF TypeOK
      <3> QED BY <2>1, <3>1, <3>3, QuietStep DEF counts, past
    <2> QED BY <2>2, <2>3
  <1>14. ASSUME NEW r \in Runs, Frame(r) PROVE Conversation'
    <2>1. /\ buffer[r].frame /\ messages' = Flush(r) /\ buffer' = [buffer EXCEPT ![r] = Flushed(@)]
          /\ UNCHANGED <<active, stored, counts, past>>
      BY <1>14 DEF Frame
    <2>2. r = active /\ active # NoRun
      BY <2>1, BufferIsActive
    <2> QED BY <2>1, <2>2, FlushStep DEF counts, past
  <1> QED BY <1>1, <1>2, <1>3, <1>4, <1>5, <1>6, <1>7, <1>8, <1>9, <1>10, <1>11, <1>12, <1>13,
             <1>14, Zenon DEF Next, Answers, Events
-----------------------------------------------------------------------------
(* Who runs.                                                               *)

RunSets ==
    /\ aborted \subseteq 1..runs /\ lived \subseteq 1..runs /\ completed \subseteq 1..runs
    /\ active # NoRun => /\ active \in lived /\ active \notin aborted
                         /\ active \notin completed /\ phase[active] \in Waiting
    /\ \A r \in Runs : phase[r] \in Waiting => r = active \/ r \in aborted
    /\ forgotten <= turns
RunFlags ==
    /\ active # NoRun => hydrated
    /\ loading = (active # NoRun)
    /\ ~hydrated => lived = {}
RunBuffers ==
    /\ \A r \in Runs : r # active => buffer[r] = Disposed
    /\ active # NoRun => buffer[active].disposed = FALSE
RunReplies ==
    /\ \A r \in Runs : r > runs => got[r] = 0 /\ reply[r] = Nothing
    /\ \A r \in Runs : reply[r].kind # "final" => reply[r].seen <= MaxDeltas

\* Who runs, in parts: sets of runs, flags, buffers, decoders.
LEMMA RunsParts == RunsInv <=> RunSets /\ RunFlags /\ RunBuffers /\ RunReplies
  BY Zenon DEF RunsInv, RunSets, RunFlags, RunBuffers, RunReplies

\* The run that starts is a new one.
LEMMA NewRun ==
    ASSUME TypeOK, NEW u, NEW p, NEW d, RunReply(u, p, d)
    PROVE  /\ runs + 1 \in Runs /\ runs + 1 \notin 1..runs /\ runs \in Nat
           /\ runs + 1 # NoRun /\ 1..runs \subseteq 1..runs + 1 /\ runs + 1 \in 1..runs + 1
           /\ active = NoRun /\ active' = runs + 1 /\ runs' = runs + 1 /\ hydrated
  <1>1. /\ runs \in 0..MaxRuns /\ runs < MaxRuns /\ MaxRuns \in Nat /\ active = NoRun /\ hydrated
        /\ active' = runs + 1 /\ runs' = runs + 1
    BY RunNumbers DEF TypeOK, RunReply
  <1> QED BY <1>1 DEF Runs, NoRun

\* A run that ends was the active one, or was aborted before.
LEMMA Ends ==
    ASSUME TypeOK, RunsInv, NEW r \in Runs, Over(r)
    PROVE  /\ phase' = [phase EXCEPT ![r] = "over"] /\ reply' = [reply EXCEPT ![r] = Nothing]
           /\ \/ r = active /\ active' = NoRun /\ loading' = FALSE
              \/ r # active /\ active' = active /\ loading' = loading
  <1>1. active \in aborted => active = NoRun
    BY DEF RunsInv
  <1>2. r # NoRun
    BY RunNumbers
  <1>3. CASE IsCurrent(r)
    BY <1>3 DEF Over, IsCurrent
  <1>4. CASE ~IsCurrent(r)
    BY <1>1, <1>2, <1>4 DEF Over, IsCurrent
  <1> QED BY <1>3, <1>4

\* Every step keeps who runs and who waits.
LEMMA RunSetsStep == ASSUME TypeOK, RunsInv, Next PROVE RunSets'
  <1>0. /\ RunSets /\ active \in Runs \cup {NoRun} /\ phase \in [Runs -> Waiting \cup {"over"}]
        /\ runs \in Nat /\ turns \in Nat /\ NoRun \notin Runs
    BY RunsParts, RunNumbers DEF TypeOK
  <1>1. CASE Send \/ Retry
    <2>1. PICK u, p, d : RunReply(u, p, d)
      BY <1>1, Zenon DEF Send, Retry
    <2> DEFINE r == runs + 1
    <2>2. /\ r \in Runs /\ r \notin 1..runs /\ r # NoRun /\ 1..runs \subseteq 1..r
          /\ r \in 1..r /\ active = NoRun /\ active' = r /\ runs' = r
      BY <2>1, NewRun
    <2>3. /\ phase' = [phase EXCEPT ![r] = "session"] /\ lived' = lived \cup {r}
          /\ UNCHANGED <<aborted, completed, forgotten>>
      BY <2>1 DEF RunReply
    <2>4. forgotten' <= turns'
      <3>1. turns' \in {turns, turns + 1}
        BY <1>1 DEF Send, Retry
      <3>2. forgotten <= turns /\ forgotten \in Nat
        BY <1>0 DEF RunSets, TypeOK
      <3> QED BY <1>0, <2>3, <3>1, <3>2
    <2> HIDE DEF r
    <2>5. phase'[r] = "session" /\ \A q \in Runs : q # r => phase'[q] = phase[q]
      BY <1>0, <2>2, <2>3
    <2>6. "session" \in Waiting
      BY DEF Waiting
    <2> QED BY <1>0, <2>2, <2>3, <2>4, <2>5, <2>6 DEF RunSets
  <1>2. CASE Stop
    <2>1. /\ active # NoRun /\ aborted' = aborted \cup {active} /\ active' = NoRun
          /\ UNCHANGED <<phase, runs, turns, completed, forgotten, lived>>
      BY <1>2 DEF Stop, counts, past
    <2>2. active \in 1..runs
      BY <1>0, <2>1 DEF RunSets
    <2> QED BY <1>0, <2>1, <2>2 DEF RunSets
  <1>3. CASE Reset
    <2>1. /\ aborted' = IF active = NoRun THEN aborted ELSE aborted \cup {active}
          /\ active' = NoRun /\ forgotten' = turns /\ lived' = {}
          /\ UNCHANGED <<phase, runs, turns, completed>>
      BY <1>3 DEF Reset, counts
    <2>2. active # NoRun => active \in 1..runs
      BY <1>0 DEF RunSets
    <2>3. aborted' \subseteq 1..runs
      BY <1>0, <2>1, <2>2 DEF RunSets
    <2>4. \A r \in Runs : phase[r] \in Waiting => r \in aborted'
      BY <1>0, <2>1 DEF RunSets
    <2>5. forgotten' <= turns'
      BY <1>0, <2>1
    <2> QED BY <1>0, <2>1, <2>3, <2>4, <2>5 DEF RunSets
  <1>4. ASSUME UNCHANGED <<active, aborted, phase, runs, turns, completed, forgotten, lived>>
        PROVE  RunSets'
    BY <1>0, <1>4 DEF RunSets
  <1>5. ASSUME NEW due, PersistMessages(due) PROVE RunSets'
    BY <1>4, <1>5 DEF PersistMessages, counts, past
  <1>6. CASE Hide \/ TimerFires
    BY <1>5, <1>6 DEF Hide, TimerFires
  <1>7. CASE PageLoads
    <2>1. /\ active' = NoRun /\ aborted' = {} /\ lived' = {} /\ phase' = [r \in Runs |-> "over"]
          /\ UNCHANGED <<runs, turns, completed, forgotten>>
      BY <1>7 DEF PageLoads
    <2> QED BY <1>0, <2>1 DEF RunSets, Waiting
  <1>8. CASE Hydrate \/ ModeSteps
    BY <1>4, <1>8 DEF Hydrate, ModeSteps, page, work, counts, past
  <1>9. CASE Effect
    <2>1. CASE UNCHANGED <<page, work, stored, counts, past, modeVars>>
      BY <1>4, <2>1 DEF page, work, counts, past
    <2> QED BY <1>5, <1>9, <2>1 DEF Effect
  <1>10. ASSUME NEW r \in Runs, Delta(r) \/ Final(r) \/ LegacyContent(r) PROVE RunSets'
    <2>1. PICK k, t, final : Deliver(r, k, t, final)
      BY <1>10, Zenon DEF Delta, Final, LegacyContent
    <2> QED BY <1>4, <2>1 DEF Deliver, counts
  <1>11. ASSUME NEW r \in Runs, Desktop(r) \/ ServerUnlocks(r) \/ Frame(r) PROVE RunSets'
    BY <1>4, <1>11 DEF Desktop, ServerUnlocks, Frame, page, counts, past
  <1>12. ASSUME NEW r \in Runs, NEW p \in Waiting, Resumes(r, p), NEW q \in Waiting,
                phase' = [phase EXCEPT ![r] = q],
                UNCHANGED <<active, aborted, runs, turns, completed, forgotten, lived>>
         PROVE  RunSets'
    <2>1. r = active
      BY <1>12, Current
    <2>2. phase'[r] \in Waiting /\ \A n \in Runs : n # r => phase'[n] = phase[n]
      BY <1>0, <1>12
    <2> QED BY <1>0, <1>12, <2>1, <2>2 DEF RunSets
  <1>13. {"session", "post", "stream", "json", "closing", "unlock", "content"} \subseteq Waiting
    BY DEF Waiting
  <1>14. ASSUME NEW r \in Runs, SessionAnswers(r) \/ PostAnswers(r) \/ JsonAnswers(r)
                  \/ UnlockAnswers(r) \/ Done(r) \/ AsksUnlock(r)
         PROVE  RunSets'
    <2>1. UNCHANGED <<active, aborted, runs, turns, completed, forgotten, lived>>
      BY <1>14 DEF SessionAnswers, PostAnswers, JsonAnswers, UnlockAnswers, Done, AsksUnlock,
                   page, counts, past
    <2>2. \E p \in Waiting, q \in Waiting : Resumes(r, p) /\ phase' = [phase EXCEPT ![r] = q]
      <3>1. CASE SessionAnswers(r)
        BY <1>13, <3>1 DEF SessionAnswers
      <3>2. CASE PostAnswers(r)
        BY <1>13, <3>2 DEF PostAnswers
      <3>3. CASE JsonAnswers(r)
        BY <1>13, <3>3 DEF JsonAnswers
      <3>4. CASE UnlockAnswers(r)
        BY <1>13, <3>4 DEF UnlockAnswers
      <3>5. CASE Done(r)
        BY <1>13, <3>5 DEF Done
      <3>6. CASE AsksUnlock(r)
        BY <1>13, <3>6 DEF AsksUnlock
      <3> QED BY <1>14, <3>1, <3>2, <3>3, <3>4, <3>5, <3>6
    <2> QED BY <1>12, <2>1, <2>2
  <1>15. ASSUME NEW r \in Runs, Over(r), UNCHANGED <<aborted, runs, turns, forgotten, lived>>,
                completed' \subseteq 1..runs, active' # NoRun => completed' = completed
         PROVE  RunSets'
    <2>1. phase'[r] = "over" /\ \A n \in Runs : n # r => phase'[n] = phase[n]
      BY <1>0, <1>15, Ends
    <2>2. "over" \notin Waiting
      BY DEF Waiting
    <2>3. \/ r = active /\ active' = NoRun
          \/ r # active /\ active' = active
      BY <1>15, Ends
    <2> QED BY <1>0, <1>15, <2>1, <2>2, <2>3 DEF RunSets
  <1>16. ASSUME NEW r \in Runs, Closes(r) \/ ContentAnswers(r) PROVE RunSets'
    <2>1. Complete(r) /\ (Resumes(r, "closing") \/ Resumes(r, "content"))
      BY <1>16 DEF Closes, ContentAnswers
    <2>2. r = active /\ r \in 1..runs
      BY <1>13, <2>1, Current
    <2>3. Over(r) /\ completed' = completed \cup {r}
          /\ UNCHANGED <<aborted, runs, turns, forgotten, lived>>
      BY <2>1 DEF Complete, counts
    <2>4. active' = NoRun
      BY <2>2, <2>3, Ends
    <2> QED BY <1>0, <1>15, <2>2, <2>3, <2>4 DEF RunSets
  <1>17. ASSUME NEW r \in Runs, Throws(r) PROVE RunSets'
    <2>1. Over(r) /\ UNCHANGED <<aborted, runs, turns, forgotten, lived, completed>>
      BY <1>17 DEF Throws, counts, past
    <2> QED BY <1>0, <1>15, <2>1 DEF RunSets
  <1> QED BY <1>1, <1>2, <1>3, <1>6, <1>7, <1>8, <1>9, <1>10, <1>11, <1>14, <1>16, <1>17, Zenon
          DEF Next, Answers, Events

\* Every step keeps the flags of the page in line with the active run.
LEMMA RunFlagsStep == ASSUME TypeOK, RunsInv, Next PROVE RunFlags'
  <1>0. RunFlags
    BY RunsParts
  <1>1. ASSUME NEW r \in Runs, Over(r), UNCHANGED <<hydrated, lived>> PROVE RunFlags'
    <2>1. \/ active' = NoRun /\ loading' = FALSE
          \/ active' = active /\ loading' = loading
      BY <1>1, Ends
    <2>2. CASE active' = NoRun /\ loading' = FALSE
      BY <1>0, <1>1, <2>2, Zenon DEF RunFlags
    <2>3. CASE active' = active /\ loading' = loading
      BY <1>0, <1>1, <2>3, Zenon DEF RunFlags
    <2> QED BY <2>1, <2>2, <2>3
  <1>2. ASSUME UNCHANGED <<active, loading, hydrated, lived>> PROVE RunFlags'
    <2>1. active' = active /\ loading' = loading /\ hydrated' = hydrated /\ lived' = lived
      BY <1>2
    <2> QED BY <1>0, <2>1, Zenon DEF RunFlags
  <1>3. CASE Send \/ Retry
    <2>1. PICK u, p, d : RunReply(u, p, d)
      BY <1>3, Zenon DEF Send, Retry
    <2>2. active' # NoRun /\ hydrated
      BY <2>1, NewRun
    <2>3. loading' = TRUE /\ hydrated' = hydrated
      BY <2>1 DEF RunReply
    <2> QED BY <2>2, <2>3, Zenon DEF RunFlags
  <1>4. CASE Stop
    <2>1. active' = NoRun /\ loading' = FALSE /\ hydrated' = hydrated /\ lived' = lived
      BY <1>4 DEF Stop, past
    <2> QED BY <1>0, <2>1, Zenon DEF RunFlags
  <1>5. CASE Reset \/ PageLoads
    <2>1. active' = NoRun /\ loading' = FALSE /\ lived' = {}
      BY <1>5 DEF Reset, PageLoads
    <2> QED BY <2>1, Zenon DEF RunFlags
  <1>6. CASE Hydrate
    <2>1. active' = active /\ loading' = loading /\ hydrated' = TRUE
      BY <1>6 DEF Hydrate
    <2> QED BY <1>0, <2>1, Zenon DEF RunFlags
  <1>7. ASSUME NEW due, PersistMessages(due) PROVE RunFlags'
    BY <1>2, <1>7 DEF PersistMessages, past
  <1>8. CASE Hide \/ TimerFires
    BY <1>7, <1>8 DEF Hide, TimerFires
  <1>9. CASE ModeSteps
    BY <1>2, <1>9 DEF ModeSteps, page, past
  <1>10. CASE Effect
    <2>1. CASE UNCHANGED <<page, work, stored, counts, past, modeVars>>
      BY <1>2, <2>1 DEF page, past
    <2> QED BY <1>7, <1>10, <2>1 DEF Effect
  <1>11. ASSUME NEW r \in Runs, Delta(r) \/ Final(r) \/ LegacyContent(r) PROVE RunFlags'
    <2>1. PICK k, t, final : Deliver(r, k, t, final)
      BY <1>11, Zenon DEF Delta, Final, LegacyContent
    <2> QED BY <1>2, <2>1 DEF Deliver
  <1>12. ASSUME NEW r \in Runs, SessionAnswers(r) \/ PostAnswers(r) \/ JsonAnswers(r)
                  \/ UnlockAnswers(r) \/ Done(r) \/ AsksUnlock(r) \/ Desktop(r)
                  \/ ServerUnlocks(r) \/ Frame(r)
         PROVE  RunFlags'
    BY <1>2, <1>12 DEF SessionAnswers, PostAnswers, JsonAnswers, UnlockAnswers, Done, AsksUnlock,
                       Desktop, ServerUnlocks, Frame, page, past
  <1>13. ASSUME NEW r \in Runs, Closes(r) \/ ContentAnswers(r) \/ Throws(r) PROVE RunFlags'
    <2>1. Over(r) /\ UNCHANGED <<hydrated, lived>>
      BY <1>13 DEF Closes, ContentAnswers, Throws, Complete, past
    <2> QED BY <1>1, <2>1
  <1> QED BY <1>3, <1>4, <1>5, <1>6, <1>8, <1>9, <1>10, <1>11, <1>12, <1>13, Zenon
          DEF Next, Answers, Events

\* Every step leaves a buffer to the active run alone.
LEMMA RunBuffersStep == ASSUME TypeOK, RunsInv, Next PROVE RunBuffers'
  <1>0. /\ RunBuffers /\ active \in Runs \cup {NoRun} /\ NoRun \notin Runs
        /\ buffer \in [Runs -> Buffer]
    BY RunsParts, RunNumbers DEF TypeOK
  <1>1. Fresh.disposed = FALSE
    BY DEF Fresh
  \* The active buffer changes and stays in use.
  <1>2. ASSUME active' = active, NEW b, active # NoRun => b.disposed = FALSE,
               active # NoRun => buffer' = [buffer EXCEPT ![active] = b],
               active = NoRun => buffer' = buffer
        PROVE  RunBuffers'
    <2>1. CASE active = NoRun
      BY <1>0, <1>2, <2>1 DEF RunBuffers
    <2>2. CASE active # NoRun
      <3>1. buffer'[active] = b /\ \A q \in Runs : q # active => buffer'[q] = buffer[q]
        BY <1>0, <1>2, <2>2
      <3> QED BY <1>0, <1>2, <2>2, <3>1 DEF RunBuffers
    <2> QED BY <2>1, <2>2
  \* A buffer is disposed of, and so is the run.
  <1>3. ASSUME NEW r \in Runs, buffer' = [buffer EXCEPT ![r] = Disposed],
               \/ r = active /\ active' = NoRun
               \/ r # active /\ active' = active
        PROVE  RunBuffers'
    <2>1. buffer'[r] = Disposed /\ \A q \in Runs : q # r => buffer'[q] = buffer[q]
      BY <1>0, <1>3
    <2> QED BY <1>0, <1>3, <2>1 DEF RunBuffers
  <1>4. ASSUME UNCHANGED <<active, buffer>> PROVE RunBuffers'
    BY <1>0, <1>4 DEF RunBuffers
  <1>5. ASSUME NEW t, NEW final, active # NoRun, Push(active, t, final), active' = active
        PROVE  RunBuffers'
    <2>1. buffer[active] \in Buffer /\ buffer[active].disposed = FALSE
      BY <1>0, <1>5 DEF RunBuffers
    <2>2. CASE UNCHANGED buffer
      BY <1>4, <1>5, <2>2
    <2>3. CASE buffer' = [buffer EXCEPT ![active] = Flushed([@ EXCEPT !.pending = t])]
      <3> DEFINE b == Flushed([buffer[active] EXCEPT !.pending = t])
      <3>1. b.disposed = FALSE
        BY <2>1 DEF Flushed, Buffer
      <3>2. buffer' = [buffer EXCEPT ![active] = b]
        BY <2>3
      <3> HIDE DEF b
      <3> QED BY <1>2, <1>5, <3>1, <3>2
    <2>4. CASE buffer' = [buffer EXCEPT ![active].pending = t, ![active].frame = TRUE]
      <3> DEFINE b == [buffer[active] EXCEPT !.pending = t, !.frame = TRUE]
      <3>1. b.disposed = FALSE
        BY <2>1 DEF Buffer
      <3>2. buffer' = [buffer EXCEPT ![active] = b]
        BY <1>0, <1>5, <2>4
      <3> HIDE DEF b
      <3> QED BY <1>2, <1>5, <3>1, <3>2
    <2> QED BY <1>5, <2>2, <2>3, <2>4 DEF Push
  <1>6. ASSUME active # NoRun, active' = active, buffer' = [buffer EXCEPT ![active] = Flushed(@)]
        PROVE  RunBuffers'
    <2> DEFINE b == Flushed(buffer[active])
    <2>1. b.disposed = FALSE
      BY <1>0, <1>6, FlushedBuffer DEF RunBuffers
    <2>2. buffer' = [buffer EXCEPT ![active] = b]
      BY <1>6
    <2> HIDE DEF b
    <2> QED BY <1>2, <1>6, <2>1, <2>2
  <1>7. ASSUME NEW due, PersistMessages(due) PROVE RunBuffers'
    <2>1. active' = active
      BY <1>7 DEF PersistMessages
    <2>2. CASE active = NoRun
      BY <1>4, <1>7, <2>1, <2>2 DEF PersistMessages
    <2>3. CASE active # NoRun
      BY <1>6, <1>7, <2>1, <2>3 DEF PersistMessages
    <2> QED BY <2>2, <2>3
  <1>8. CASE Send \/ Retry
    <2>1. PICK u, p, d : RunReply(u, p, d)
      BY <1>8, Zenon DEF Send, Retry
    <2> DEFINE r == runs + 1
    <2>2. r \in Runs /\ r # NoRun /\ active = NoRun /\ active' = r
      BY <2>1, NewRun
    <2>3. buffer' = [buffer EXCEPT ![r] = Fresh]
      BY <2>1 DEF RunReply
    <2> HIDE DEF r
    <2>4. buffer'[r] = Fresh /\ \A q \in Runs : q # r => buffer'[q] = buffer[q]
      BY <1>0, <2>2, <2>3
    <2> QED BY <1>0, <1>1, <2>2, <2>4 DEF RunBuffers
  <1>9. CASE Stop
    BY <1>0, <1>3, <1>9 DEF Stop
  <1>10. CASE Reset
    <2>1. CASE active = NoRun
      BY <1>4, <1>10, <2>1 DEF Reset
    <2>2. CASE active # NoRun
      BY <1>0, <1>3, <1>10, <2>2 DEF Reset
    <2> QED BY <2>1, <2>2
  <1>11. CASE PageLoads
    <2>1. active' = NoRun /\ buffer' = [r \in Runs |-> Disposed]
      BY <1>11 DEF PageLoads
    <2> QED BY <2>1 DEF RunBuffers
  <1>12. CASE Hide \/ TimerFires
    BY <1>7, <1>12 DEF Hide, TimerFires
  <1>13. CASE Effect
    <2>1. CASE UNCHANGED <<page, work, stored, counts, past, modeVars>>
      BY <1>4, <2>1 DEF page, work
    <2> QED BY <1>7, <1>13, <2>1 DEF Effect
  <1>14. CASE Hydrate \/ ModeSteps
    BY <1>4, <1>14 DEF Hydrate, ModeSteps, page, work
  <1>15. ASSUME NEW r \in Runs, Delta(r) \/ Final(r) \/ LegacyContent(r) PROVE RunBuffers'
    <2>1. r = active /\ active # NoRun
      BY <1>15, Delivers
    <2>2. PICK k, t, final : Deliver(r, k, t, final)
      BY <1>15, Zenon DEF Delta, Final, LegacyContent
    <2>3. Push(active, t, final) /\ active' = active
      BY <2>1, <2>2 DEF Deliver
    <2> QED BY <1>5, <2>1, <2>3
  <1>16. ASSUME NEW r \in Runs, SessionAnswers(r) \/ PostAnswers(r) \/ JsonAnswers(r)
                  \/ UnlockAnswers(r) \/ Done(r) \/ Desktop(r) \/ ServerUnlocks(r)
         PROVE  RunBuffers'
    BY <1>4, <1>16 DEF SessionAnswers, PostAnswers, JsonAnswers, UnlockAnswers, Done,
                       Desktop, ServerUnlocks, page
  <1>17. ASSUME NEW r \in Runs, AsksUnlock(r) PROVE RunBuffers'
    <2>1. r = active /\ active # NoRun
      BY <1>17, Current DEF AsksUnlock, Waiting
    <2>2. active' = active /\ (UNCHANGED buffer \/ Push(active, reply[r].text, TRUE))
      BY <1>17, <2>1 DEF AsksUnlock
    <2> QED BY <1>4, <1>5, <2>1, <2>2
  <1>18. ASSUME NEW r \in Runs, Closes(r) \/ ContentAnswers(r) \/ Throws(r) PROVE RunBuffers'
    <2>1. Over(r) /\ buffer' = [buffer EXCEPT ![r] = Disposed]
      BY <1>18 DEF Closes, ContentAnswers, Throws, Complete
    <2> QED BY <1>3, <2>1, Ends
  <1>19. ASSUME NEW r \in Runs, Frame(r) PROVE RunBuffers'
    <2>1. r = active /\ active # NoRun
      BY <1>19, BufferIsActive DEF Frame
    <2> QED BY <1>6, <1>19, <2>1 DEF Frame
  <1> QED BY <1>8, <1>9, <1>10, <1>11, <1>12, <1>13, <1>14, <1>15, <1>16, <1>17, <1>18, <1>19,
             Zenon DEF Next, Answers, Events
\* What the decoder of the active run has after an event.
LEMMA ReplyOf ==
    ASSUME TypeOK, RunsInv, NEW r \in Runs,
           NEW k \in {"legacy", "deltas", "final"}, NEW t \in Texts, NEW final,
           Deliver(r, k, t, final), reply[r].seen <= MaxDeltas,
           k # "final" => reply[r].seen < MaxDeltas
    PROVE  /\ reply' \in [Runs -> Reply]
           /\ \A q \in Runs : q # r => reply'[q] = reply[q]
           /\ reply'[r].kind # "final" => reply'[r].seen <= MaxDeltas
  <1> DEFINE s == reply[r].seen + 1
             b == [reply[r] EXCEPT !.kind = k, !.text = t, !.seen = s]
  <1>1. reply \in [Runs -> Reply] /\ reply[r] \in Reply
    BY DEF TypeOK
  <1>2. /\ s \in Texts
        /\ k # "final" => s <= MaxDeltas
    <2>1. reply[r].seen \in Texts
      BY <1>1 DEF Reply
    <2> QED BY <2>1, RunNumbers DEF Texts
  <1>3. reply' = [reply EXCEPT ![r].kind = k, ![r].text = t, ![r].seen = s]
    BY DEF Deliver
  <1> HIDE DEF s
  <1>4. reply' = [reply EXCEPT ![r] = b]
    BY <1>1, <1>3
  <1>5. b \in Reply /\ b.kind = k /\ b.seen = s
    BY <1>1, <1>2 DEF Reply
  <1> HIDE DEF b
  <1>6. reply' \in [Runs -> Reply]
    BY <1>1, <1>4, <1>5
  <1>7. reply'[r] = b /\ \A q \in Runs : q # r => reply'[q] = reply[q]
    BY <1>1, <1>4
  <1> QED BY <1>2, <1>5, <1>6, <1>7

\* A decoder that has received nothing.
LEMMA NothingIs == Nothing \in Reply /\ Nothing.kind # "final" /\ Nothing.seen <= MaxDeltas
  <1>1. FALSE \in BOOLEAN /\ 0 \in Texts /\ 0 <= MaxDeltas
    BY RunNumbers
  <1> QED BY <1>1 DEF Nothing, Reply

\* A run that ends keeps nothing of its reply.
LEMMA ReplyEnds ==
    ASSUME TypeOK, NEW r \in Runs, reply' = [reply EXCEPT ![r] = Nothing]
    PROVE  /\ reply' \in [Runs -> Reply] /\ reply'[r] = Nothing
           /\ \A q \in Runs : q # r => reply'[q] = reply[q]
  <1>1. reply \in [Runs -> Reply]
    BY DEF TypeOK
  <1> QED BY <1>1, NothingIs

\* The proof arrives, or the whole reply as one body.
LEMMA ReplyProof ==
    ASSUME TypeOK, NEW r \in Runs, Desktop(r)
    PROVE  /\ reply' \in [Runs -> Reply]
           /\ \A q \in Runs : q # r => reply'[q] = reply[q]
           /\ reply'[r].kind = reply[r].kind /\ reply'[r].seen = reply[r].seen
  <1> DEFINE b == [reply[r] EXCEPT !.proof = TRUE]
  <1>1. reply \in [Runs -> Reply] /\ reply[r] \in Reply
    BY DEF TypeOK
  <1>2. reply' = [reply EXCEPT ![r] = b]
    BY <1>1 DEF Desktop
  <1>3. b \in Reply /\ b.kind = reply[r].kind /\ b.seen = reply[r].seen
    BY <1>1 DEF Reply
  <1> HIDE DEF b
  <1> QED BY <1>1, <1>2, <1>3

\* A JSON answer brings the text at once.
LEMMA ReplyBody ==
    ASSUME TypeOK, NEW r \in Runs, JsonAnswers(r)
    PROVE  /\ reply' \in [Runs -> Reply]
           /\ \A q \in Runs : q # r => reply'[q] = reply[q]
           /\ reply'[r].seen <= MaxDeltas
  <1>1. reply \in [Runs -> Reply]
    BY DEF TypeOK
  <1>2. PICK t \in {0, 1}, p \in {FALSE, (r \in Unlocking)} :
            reply' = [reply EXCEPT ![r] = [kind |-> "legacy", text |-> t, seen |-> t, proof |-> p]]
    BY DEF JsonAnswers
  <1> DEFINE b == [kind |-> "legacy", text |-> t, seen |-> t, proof |-> p]
  <1>3. t \in Texts /\ t <= MaxDeltas
    BY RunNumbers
  <1>4. p \in BOOLEAN
    <2>1. p = FALSE \/ p = (r \in Unlocking)
      OBVIOUS
    <2>2. (r \in Unlocking) \in BOOLEAN
      <3>1. CASE r \in Unlocking
        BY <3>1
      <3>2. CASE r \notin Unlocking
        BY <3>2
      <3> QED BY <3>1, <3>2
    <2> QED BY <2>1, <2>2
  <1>5. b \in Reply /\ b.seen = t
    BY <1>3, <1>4 DEF Reply
  <1>6. reply' = [reply EXCEPT ![r] = b]
    BY <1>2
  <1> HIDE DEF b
  <1> QED BY <1>1, <1>3, <1>5, <1>6

\* Every step keeps the decoders within the bound of the deltas.
LEMMA RunRepliesStep == ASSUME TypeOK, RunsInv, Next PROVE RunReplies'
  <1>0. /\ RunReplies /\ runs \in Nat /\ got \in [Runs -> Texts]
        /\ \A r \in Runs : r \in Nat
    BY RunsParts, RunNumbers DEF TypeOK, Runs
  <1>1. ASSUME UNCHANGED <<got, reply>>, runs' \in {runs, runs + 1} PROVE RunReplies'
    <2>1. \A r \in Runs : r > runs' => r > runs
      BY <1>0, <1>1
    <2> QED BY <1>0, <1>1, <2>1 DEF RunReplies
  <1>2. ASSUME NEW r \in Runs, r <= runs, \A q \in Runs : q # r => got'[q] = got[q],
               \A q \in Runs : q # r => reply'[q] = reply[q], runs' = runs,
               reply'[r].kind # "final" => reply'[r].seen <= MaxDeltas
        PROVE  RunReplies'
    <2>1. ~(r > runs')
      BY <1>0, <1>2
    <2> QED BY <1>0, <1>2, <2>1 DEF RunReplies
  <1>3. ASSUME NEW r \in Runs, reply' = [reply EXCEPT ![r] = Nothing], runs' = runs, got' = got
        PROVE  RunReplies'
    <2>1. reply'[r] = Nothing /\ \A q \in Runs : q # r => reply'[q] = reply[q]
      BY <1>3, ReplyEnds
    <2> QED BY <1>0, <1>3, <2>1, NothingIs DEF RunReplies
  <1>4. ASSUME NEW r \in Runs, r \in 1..runs PROVE r <= runs
    BY <1>0, <1>4
  <1>5. {"session", "post", "stream", "json", "closing", "unlock", "content"} \subseteq Waiting
    BY DEF Waiting
  <1>6. CASE Send \/ Retry
    <2>1. PICK u, p, d : RunReply(u, p, d)
      BY <1>6, Zenon DEF Send, Retry
    <2> QED BY <1>1, <2>1 DEF RunReply
  <1>7. CASE Stop
    BY <1>1, <1>7 DEF Stop, counts, past
  <1>8. CASE Reset
    <2>1. runs' = runs /\ reply' = reply /\ \A r \in Runs : got'[r] = 0
      BY <1>8 DEF Reset, counts
    <2> QED BY <1>0, <2>1 DEF RunReplies
  <1>9. CASE PageLoads
    <2>1. runs' = runs /\ got' = got /\ reply' = [r \in Runs |-> Nothing]
      BY <1>9 DEF PageLoads
    <2> QED BY <1>0, <2>1, NothingIs DEF RunReplies
  <1>10. ASSUME NEW due, PersistMessages(due) PROVE RunReplies'
    BY <1>1, <1>10 DEF PersistMessages, counts, past
  <1>11. CASE Hide \/ TimerFires
    BY <1>10, <1>11 DEF Hide, TimerFires
  <1>12. CASE Effect
    <2>1. CASE UNCHANGED <<page, work, stored, counts, past, modeVars>>
      BY <1>1, <2>1 DEF counts, past, work
    <2> QED BY <1>10, <1>12, <2>1 DEF Effect
  <1>13. CASE Hydrate \/ ModeSteps
    BY <1>1, <1>13 DEF Hydrate, ModeSteps, work, counts, past
  <1>14. ASSUME NEW r \in Runs, SessionAnswers(r) \/ PostAnswers(r) \/ UnlockAnswers(r) \/ Done(r)
                  \/ ServerUnlocks(r) \/ Frame(r)
         PROVE  RunReplies'
    BY <1>1, <1>14 DEF SessionAnswers, PostAnswers, UnlockAnswers, Done, ServerUnlocks, Frame,
                       counts, past
  <1>15. ASSUME NEW r \in Runs, Delta(r) \/ Final(r) \/ LegacyContent(r) PROVE RunReplies'
    <2>1. PICK k \in {"legacy", "deltas", "final"}, t \in Texts, final \in BOOLEAN :
                 /\ Deliver(r, k, t, final) /\ reply[r].seen <= MaxDeltas
                 /\ k # "final" => reply[r].seen < MaxDeltas
      BY <1>15, Delivers
    <2>2. /\ \A q \in Runs : q # r => reply'[q] = reply[q]
          /\ reply'[r].kind # "final" => reply'[r].seen <= MaxDeltas
      BY <2>1, ReplyOf
    <2>3. runs' = runs /\ got' = [got EXCEPT ![r] = t]
      BY <2>1 DEF Deliver, counts
    <2>4. \A q \in Runs : q # r => got'[q] = got[q]
      BY <1>0, <2>3
    <2>5. r <= runs
      BY <1>4, <1>5, <1>15, Current DEF Delta, Final, LegacyContent
    <2> QED BY <1>2, <2>2, <2>3, <2>4, <2>5
  <1>16. ASSUME NEW r \in Runs, JsonAnswers(r) \/ Desktop(r) PROVE RunReplies'
    <2>1. runs' = runs /\ got' = got
      BY <1>16 DEF JsonAnswers, Desktop, counts, past
    <2>2. r <= runs
      BY <1>4, <1>5, <1>16, Current DEF JsonAnswers, Desktop
    <2>3. /\ \A q \in Runs : q # r => reply'[q] = reply[q]
          /\ reply'[r].kind # "final" => reply'[r].seen <= MaxDeltas
      <3>1. reply[r].kind # "final" => reply[r].seen <= MaxDeltas
        BY <1>0 DEF RunReplies
      <3> QED BY <1>16, <3>1, ReplyProof, ReplyBody
    <2> QED BY <1>2, <2>1, <2>2, <2>3
  <1>17. ASSUME NEW r \in Runs, AsksUnlock(r) PROVE RunReplies'
    <2>1. /\ runs' = runs /\ reply' = reply
          /\ got' = got \/ got' = [got EXCEPT ![r] = reply[r].text]
      BY <1>17 DEF AsksUnlock, counts
    <2>2. \A q \in Runs : q # r => got'[q] = got[q]
      BY <1>0, <2>1
    <2>3. r <= runs
      BY <1>4, <1>5, <1>17, Current DEF AsksUnlock
    <2> QED BY <1>0, <1>2, <2>1, <2>2, <2>3 DEF RunReplies
  <1>18. ASSUME NEW r \in Runs, Closes(r) \/ ContentAnswers(r) PROVE RunReplies'
    <2>1. Complete(r) /\ (Resumes(r, "closing") \/ Resumes(r, "content"))
      BY <1>18 DEF Closes, ContentAnswers
    <2>2. r <= runs
      BY <1>4, <1>5, <2>1, Current
    <2>3. /\ runs' = runs /\ reply' = [reply EXCEPT ![r] = Nothing]
          /\ got' = [got EXCEPT ![r] = reply[r].text]
      BY <2>1 DEF Complete, Over, counts
    <2>4. reply'[r] = Nothing /\ \A q \in Runs : q # r => reply'[q] = reply[q]
      BY <2>3, ReplyEnds
    <2>5. \A q \in Runs : q # r => got'[q] = got[q]
      BY <1>0, <2>3
    <2> QED BY <1>2, <2>2, <2>3, <2>4, <2>5, NothingIs
  <1>19. ASSUME NEW r \in Runs, Throws(r) PROVE RunReplies'
    <2>1. runs' = runs /\ got' = got /\ reply' = [reply EXCEPT ![r] = Nothing]
      BY <1>19 DEF Throws, Over, counts, past
    <2> QED BY <1>3, <2>1
  <1> QED BY <1>6, <1>7, <1>8, <1>9, <1>11, <1>12, <1>13, <1>14, <1>15, <1>16, <1>17, <1>18,
             <1>19, Zenon DEF Next, Answers, Events

\* Together.
LEMMA RunsStep == ASSUME TypeOK, RunsInv, Next PROVE RunsInv'
  <1>1. RunSets' /\ RunFlags' /\ RunBuffers' /\ RunReplies'
    BY RunSetsStep, RunFlagsStep, RunBuffersStep, RunRepliesStep
  <1> QED BY <1>1, Zenon DEF RunsInv, RunSets, RunFlags, RunBuffers, RunReplies

-----------------------------------------------------------------------------
(* What is posted.                                                         *)

\* What a run posts ends with its question; a reply in it was completed.
LEMMA StartHistory ==
    ASSUME TypeOK, RunsInv, TalkInv, StreamingInv, Send \/ Retry
    PROVE  /\ history' \in [Runs -> Seq(Message)] /\ answers' \in [Runs -> 0..MaxTurns]
           /\ PostedHistoryIsClean'
  <1>1. PICK u, posted, display :
              RunReply(u, posted, display) /\ Asks(u, posted, display) /\ u \in 0..MaxTurns
    BY StartIs
  <1> DEFINE r == runs + 1
             sent == ToChatHistory(posted)
  <1>2. r \in Runs /\ active' = r
    BY <1>1, NewRun
  <1>3. /\ history' = [history EXCEPT ![r] = sent] /\ answers' = [answers EXCEPT ![r] = u]
        /\ UNCHANGED <<got, completed>>
    BY <1>1 DEF RunReply
  <1>4. history \in [Runs -> Seq(Message)] /\ answers \in [Runs -> 0..MaxTurns]
    BY DEF TypeOK
  <1>5. /\ posted \in Seq(Message) /\ posted # <<>> /\ posted[Len(posted)] = User(u)
        /\ \A k \in DOMAIN posted : k \in DOMAIN display /\ posted[k] = display[k]
        /\ WholeOK(display, completed, got)
    BY <1>1 DEF Asks, Talk
  <1>6. User(u).text # 0 /\ User(u).status = "complete"
    BY DEF User
  <1>7. /\ sent \in Seq(Message) /\ sent # <<>> /\ sent[Len(sent)] = User(u)
        /\ \A k \in DOMAIN sent :
              \E i \in DOMAIN posted : sent[k] = posted[i] /\ posted[i].status = "complete"
    BY <1>5, <1>6, HistoryFacts
  <1> HIDE DEF r, sent
  <1>8. history'[r] = sent /\ answers'[r] = u
    BY <1>2, <1>3, <1>4
  <1>9. history' \in [Runs -> Seq(Message)] /\ answers' \in [Runs -> 0..MaxTurns]
    BY <1>1, <1>2, <1>3, <1>4, <1>7
  <1>10. ASSUME NEW m \in Shown(sent), m.role = "assistant"
         PROVE  m.id \in completed /\ m.text = got[m.id]
    <2>1. PICK k \in DOMAIN sent : m = sent[k]
      BY DEF Shown
    <2>2. PICK i \in DOMAIN posted : sent[k] = posted[i] /\ posted[i].status = "complete"
      BY <1>7
    <2>3. i \in DOMAIN display /\ m = display[i] /\ Whole(m)
      BY <1>5, <1>10, <2>1, <2>2 DEF Whole
    <2> QED BY <1>5, <2>3 DEF WholeOK
  <1>11. \A q \in Runs : IsCurrent(q)' => q = r
    BY <1>2 DEF IsCurrent
  <1>12. PostedHistoryIsClean'
    <2>1. /\ history'[r] # <<>>
          /\ history'[r][Len(history'[r])] = User(answers'[r])
          /\ \A m \in Shown(history'[r]) :
                m.role = "assistant" => m.id \in completed' /\ m.text = got'[m.id]
      BY <1>3, <1>7, <1>8, <1>10
    <2> QED BY <1>2, <1>11, <2>1 DEF PostedHistoryIsClean
  <1> QED BY <1>9, <1>12

\* Who still has something to post has it as it was.
LEMMA HistoryKept ==
    ASSUME PostedHistoryIsClean,
           \A r \in Runs : IsCurrent(r)' /\ phase'[r] \in {"session", "post"} =>
              /\ IsCurrent(r) /\ phase[r] \in {"session", "post"}
              /\ history'[r] = history[r] /\ answers'[r] = answers[r],
           completed \subseteq completed', \A q \in completed : got'[q] = got[q]
    PROVE  PostedHistoryIsClean'
  <1>1. ASSUME NEW r \in Runs, IsCurrent(r)', phase'[r] \in {"session", "post"}
        PROVE  /\ history'[r] # <<>>
               /\ history'[r][Len(history'[r])] = User(answers'[r])
               /\ \A m \in Shown(history'[r]) :
                     m.role = "assistant" => m.id \in completed' /\ m.text = got'[m.id]
    <2>1. history'[r] = history[r] /\ answers'[r] = answers[r]
      BY <1>1
    <2>2. /\ history[r] # <<>>
          /\ history[r][Len(history[r])] = User(answers[r])
          /\ \A m \in Shown(history[r]) :
                m.role = "assistant" => m.id \in completed /\ m.text = got[m.id]
      BY <1>1 DEF PostedHistoryIsClean
    <2> QED BY <2>1, <2>2
  <1> QED BY <1>1 DEF PostedHistoryIsClean

\* The phases of the runs that do not move, of one that does, of one that ends.
LEMMA HistoryStep ==
    ASSUME TypeOK, RunsInv, TalkInv, StreamingInv, PostedHistoryIsClean, Next
    PROVE  /\ history' \in [Runs -> Seq(Message)] /\ answers' \in [Runs -> 0..MaxTurns]
           /\ PostedHistoryIsClean'
  <1> DEFINE Goal == /\ history' \in [Runs -> Seq(Message)] /\ answers' \in [Runs -> 0..MaxTurns]
                     /\ PostedHistoryIsClean'
  <1>0. /\ history \in [Runs -> Seq(Message)] /\ answers \in [Runs -> 0..MaxTurns]
        /\ got \in [Runs -> Texts] /\ phase \in [Runs -> Waiting \cup {"over"}]
        /\ completed \subseteq Runs /\ NoRun \notin Runs /\ 0 \in 0..MaxTurns
        /\ <<>> \in Seq(Message) /\ active \in Runs \cup {NoRun}
    BY RunNumbers, EmptySeq DEF TypeOK
  <1>1. CASE Send \/ Retry
    BY <1>1, StartHistory
  \* No run is active any more.
  <1>2. ASSUME active' = NoRun PROVE PostedHistoryIsClean'
    BY <1>0, <1>2 DEF PostedHistoryIsClean, IsCurrent
  <1>3. CASE Reset
    <2>1. active' = NoRun /\ answers' = [r \in Runs |-> 0] /\ history' = history
      BY <1>3 DEF Reset
    <2> QED BY <1>0, <1>2, <2>1
  <1>4. CASE PageLoads
    <2>1. active' = NoRun /\ answers' = answers /\ history' = [r \in Runs |-> <<>>]
      BY <1>4 DEF PageLoads
    <2> QED BY <1>0, <1>2, <2>1
  <1>5. CASE Stop
    <2>1. active' = NoRun /\ answers' = answers /\ history' = history
      BY <1>5 DEF Stop, past
    <2> QED BY <1>0, <1>2, <2>1
  <1>6. ASSUME UNCHANGED <<active, aborted, phase, history, answers, completed>>,
               \A q \in completed : got'[q] = got[q]
        PROVE  Goal
    <2>1. \A r \in Runs : IsCurrent(r)' => IsCurrent(r)
      BY <1>6 DEF IsCurrent
    <2>2. PostedHistoryIsClean'
      BY <1>6, <2>1, HistoryKept
    <2> QED BY <1>0, <1>6, <2>2
  <1>7. ASSUME NEW due, PersistMessages(due) PROVE Goal
    <2>1. UNCHANGED <<active, aborted, phase, history, answers, completed, got>>
      BY <1>7 DEF PersistMessages, past
    <2> QED BY <1>6, <2>1
  <1>8. CASE Hide \/ TimerFires
    BY <1>7, <1>8 DEF Hide, TimerFires
  <1>9. CASE Effect
    <2>1. CASE UNCHANGED <<page, work, stored, counts, past, modeVars>>
      <3>1. UNCHANGED <<active, aborted, phase, history, answers, completed, got>>
        BY <2>1 DEF page, work, past
      <3> QED BY <1>6, <3>1
    <2> QED BY <1>7, <1>9, <2>1 DEF Effect
  <1>10. CASE Hydrate \/ ModeSteps
    <2>1. UNCHANGED <<active, aborted, phase, history, answers, completed, got>>
      BY <1>10 DEF Hydrate, ModeSteps, page, work, past
    <2> QED BY <1>6, <2>1
  <1>11. ASSUME NEW r \in Runs, Desktop(r) \/ ServerUnlocks(r) \/ Frame(r) PROVE Goal
    <2>1. UNCHANGED <<active, aborted, phase, history, answers, completed, got>>
      BY <1>11 DEF Desktop, ServerUnlocks, Frame, page, past
    <2> QED BY <1>6, <2>1
  <1>12. ASSUME NEW r \in Runs, r = active, active # NoRun, NEW t, got' = [got EXCEPT ![r] = t]
         PROVE  \A q \in completed : got'[q] = got[q]
    <2>1. r \notin completed
      BY <1>12 DEF RunsInv
    <2> QED BY <1>0, <1>12, <2>1
  <1>13. ASSUME NEW r \in Runs, Delta(r) \/ Final(r) \/ LegacyContent(r) PROVE Goal
    <2>1. r = active /\ active # NoRun
      BY <1>13, Delivers
    <2>2. PICK k, t, final : Deliver(r, k, t, final)
      BY <1>13, Zenon DEF Delta, Final, LegacyContent
    <2>3. UNCHANGED <<active, aborted, phase, history, answers, completed>>
          /\ got' = [got EXCEPT ![r] = t]
      BY <2>2 DEF Deliver
    <2> QED BY <1>6, <1>12, <2>1, <2>3
  \* One run moves on.
  <1>14. ASSUME NEW r \in Runs, NEW p, phase' = [phase EXCEPT ![r] = p],
                p = "post" => phase[r] = "session" /\ history' = history, p # "session",
                history' \in {history, [history EXCEPT ![r] = <<>>]},
                UNCHANGED <<aborted, answers>>, active' \in {active, NoRun},
                completed \subseteq completed', \A q \in completed : got'[q] = got[q]
         PROVE  Goal
    <2>1. phase'[r] = p /\ \A q \in Runs : q # r => phase'[q] = phase[q] /\ history'[q] = history[q]
      BY <1>0, <1>14
    <2>2. \A q \in Runs : IsCurrent(q)' => IsCurrent(q)
      BY <1>0, <1>14 DEF IsCurrent
    <2>3. \A q \in Runs : IsCurrent(q)' /\ phase'[q] \in {"session", "post"} =>
              /\ IsCurrent(q) /\ phase[q] \in {"session", "post"}
              /\ history'[q] = history[q] /\ answers'[q] = answers[q]
      <3>1. ASSUME NEW q \in Runs, IsCurrent(q)', phase'[q] \in {"session", "post"}
            PROVE  phase[q] \in {"session", "post"} /\ history'[q] = history[q]
        <4>1. CASE q = r
          BY <1>14, <2>1, <3>1, <4>1
        <4>2. CASE q # r
          BY <2>1, <3>1, <4>2
        <4> QED BY <4>1, <4>2
      <3> QED BY <1>14, <2>2, <3>1
    <2>4. PostedHistoryIsClean'
      BY <1>14, <2>3, HistoryKept
    <2>5. history' \in [Runs -> Seq(Message)]
      BY <1>0, <1>14
    <2> QED BY <1>0, <1>14, <2>4, <2>5
  <1>15. ASSUME NEW r \in Runs, SessionAnswers(r) \/ PostAnswers(r) \/ JsonAnswers(r)
                  \/ UnlockAnswers(r) \/ Done(r)
         PROVE  Goal
    <2>1. UNCHANGED <<active, aborted, answers, completed, got>>
      BY <1>15 DEF SessionAnswers, PostAnswers, JsonAnswers, UnlockAnswers, Done, page, past
    <2>2. \E p : /\ phase' = [phase EXCEPT ![r] = p] /\ p # "session"
                 /\ p = "post" => phase[r] = "session" /\ history' = history
                 /\ history' \in {history, [history EXCEPT ![r] = <<>>]}
      <3>1. CASE SessionAnswers(r)
        BY <3>1 DEF SessionAnswers, Resumes
      <3>2. CASE PostAnswers(r)
        BY <3>2 DEF PostAnswers
      <3>3. CASE JsonAnswers(r)
        BY <3>3 DEF JsonAnswers
      <3>4. CASE UnlockAnswers(r)
        BY <3>4 DEF UnlockAnswers
      <3>5. CASE Done(r)
        BY <3>5 DEF Done
      <3> QED BY <1>15, <3>1, <3>2, <3>3, <3>4, <3>5
    <2> HIDE DEF Goal
    <2> QED BY <1>14, <2>1, <2>2
  <1>16. ASSUME NEW r \in Runs, AsksUnlock(r) PROVE Goal
    <2>1. r = active /\ active # NoRun
      BY <1>16, Current DEF AsksUnlock, Waiting
    <2>2. /\ UNCHANGED <<active, aborted, history, answers, completed>>
          /\ phase' = [phase EXCEPT ![r] = "unlock"]
          /\ got' = got \/ got' = [got EXCEPT ![r] = reply[r].text]
      BY <1>16 DEF AsksUnlock
    <2>3. \A q \in completed : got'[q] = got[q]
      BY <1>12, <2>1, <2>2
    <2> HIDE DEF Goal
    <2> QED BY <1>14, <2>2, <2>3
  <1>17. ASSUME NEW r \in Runs, Over(r)
         PROVE  /\ phase' = [phase EXCEPT ![r] = "over"] /\ active' \in {active, NoRun}
                /\ history' \in {history, [history EXCEPT ![r] = <<>>]}
    BY <1>17 DEF Over
  <1>18. ASSUME NEW r \in Runs, Closes(r) \/ ContentAnswers(r) PROVE Goal
    <2>1. Complete(r) /\ (Resumes(r, "closing") \/ Resumes(r, "content"))
      BY <1>18 DEF Closes, ContentAnswers
    <2>2. r = active /\ active # NoRun
      BY <2>1, Current DEF Waiting
    <2>3. /\ Over(r) /\ UNCHANGED <<aborted, answers>> /\ completed \subseteq completed'
          /\ got' = [got EXCEPT ![r] = reply[r].text]
      BY <2>1 DEF Complete
    <2>4. \A q \in completed : got'[q] = got[q]
      BY <1>12, <2>2, <2>3
    <2> HIDE DEF Goal
    <2> QED BY <1>14, <1>17, <2>3, <2>4
  <1>19. ASSUME NEW r \in Runs, Throws(r) PROVE Goal
    <2>1. Over(r) /\ UNCHANGED <<aborted, answers, completed, got>>
      BY <1>19 DEF Throws, past
    <2> HIDE DEF Goal
    <2> QED BY <1>14, <1>17, <2>1
  <1> QED BY <1>1, <1>3, <1>4, <1>5, <1>8, <1>9, <1>10, <1>11, <1>13, <1>15, <1>16, <1>18, <1>19,
             Zenon DEF Next, Answers, Events

\* The buffers a run begins and ends with.
LEMMA BufferConstants == Disposed \in Buffer /\ Fresh \in Buffer
  <1>1. TRUE \in BOOLEAN /\ FALSE \in BOOLEAN /\ NoText \in Texts \cup {NoText}
    OBVIOUS
  <1> QED BY <1>1 DEF Disposed, Fresh, Buffer

\* buffer.push keeps the buffers what they are.
LEMMA PushedBuffer ==
    ASSUME TypeOK, NEW r \in Runs, NEW t \in Texts, NEW final \in BOOLEAN, Push(r, t, final)
    PROVE  buffer' \in [Runs -> Buffer]
  <1>1. buffer \in [Runs -> Buffer] /\ buffer[r] \in Buffer
    BY DEF TypeOK
  <1>2. CASE buffer' = buffer
    BY <1>1, <1>2
  <1>3. CASE buffer' = [buffer EXCEPT ![r] = Flushed([@ EXCEPT !.pending = t])]
    <2> DEFINE b == [buffer[r] EXCEPT !.pending = t]
    <2>1. b \in Buffer
      BY <1>1 DEF Buffer
    <2>2. buffer' = [buffer EXCEPT ![r] = Flushed(b)]
      BY <1>3
    <2> HIDE DEF b
    <2> QED BY <1>1, <2>1, <2>2, FlushedBuffer
  <1>4. CASE buffer' = [buffer EXCEPT ![r].pending = t, ![r].frame = TRUE]
    <2> DEFINE b == [buffer[r] EXCEPT !.pending = t, !.frame = TRUE]
    <2>1. b \in Buffer
      BY <1>1 DEF Buffer
    <2>2. buffer' = [buffer EXCEPT ![r] = b]
      BY <1>1, <1>4
    <2> HIDE DEF b
    <2> QED BY <1>1, <2>1, <2>2
  <1> QED BY <1>2, <1>3, <1>4 DEF Push

Texting ==
    reply \in [Runs -> Reply] /\ buffer \in [Runs -> Buffer] /\ got \in [Runs -> Texts]

\* Every step keeps the types of what is received.
LEMMA TextingStep == ASSUME TypeOK, RunsInv, Next PROVE Texting'
  <1>0. /\ reply \in [Runs -> Reply] /\ buffer \in [Runs -> Buffer] /\ got \in [Runs -> Texts]
        /\ Disposed \in Buffer /\ Fresh \in Buffer /\ 0 \in Texts /\ Nothing \in Reply
        /\ active \in Runs \cup {NoRun}
    BY BufferConstants, NothingIs, RunNumbers DEF TypeOK
  <1>1. ASSUME UNCHANGED <<reply, buffer, got>> PROVE Texting'
    BY <1>0, <1>1 DEF Texting
  <1>2. ASSUME NEW r \in Runs, buffer' = [buffer EXCEPT ![r] = Flushed(@)], UNCHANGED <<reply, got>>
        PROVE  Texting'
    <2>1. Flushed(buffer[r]) \in Buffer
      BY <1>0, FlushedBuffer
    <2> QED BY <1>0, <1>2, <2>1 DEF Texting
  <1>3. ASSUME NEW due, PersistMessages(due) PROVE Texting'
    <2>1. UNCHANGED <<reply, got>>
      BY <1>3 DEF PersistMessages, past
    <2>2. CASE active = NoRun
      BY <1>1, <1>3, <2>1, <2>2 DEF PersistMessages
    <2>3. CASE active # NoRun
      BY <1>0, <1>2, <1>3, <2>1, <2>3 DEF PersistMessages
    <2> QED BY <2>2, <2>3
  <1>4. CASE Send \/ Retry
    <2>1. PICK u, p, d : RunReply(u, p, d)
      BY <1>4, Zenon DEF Send, Retry
    <2>2. buffer' = [buffer EXCEPT ![runs + 1] = Fresh] /\ UNCHANGED <<reply, got>>
      BY <2>1 DEF RunReply
    <2> QED BY <1>0, <2>2 DEF Texting
  <1>5. CASE Stop
    <2>1. buffer' = [buffer EXCEPT ![active] = Disposed] /\ UNCHANGED <<reply, got>>
      BY <1>5 DEF Stop, past
    <2> QED BY <1>0, <2>1 DEF Texting
  <1>6. CASE Reset
    <2>1. /\ buffer' = buffer \/ buffer' = [buffer EXCEPT ![active] = Disposed]
          /\ reply' = reply /\ got' = [r \in Runs |-> 0]
      BY <1>6 DEF Reset
    <2> QED BY <1>0, <2>1 DEF Texting
  <1>7. CASE PageLoads
    <2>1. /\ reply' = [r \in Runs |-> Nothing] /\ buffer' = [r \in Runs |-> Disposed] /\ got' = got
      BY <1>7 DEF PageLoads
    <2> QED BY <1>0, <2>1 DEF Texting
  <1>8. CASE Hide \/ TimerFires
    BY <1>3, <1>8 DEF Hide, TimerFires
  <1>9. CASE Effect
    <2>1. CASE UNCHANGED <<page, work, stored, counts, past, modeVars>>
      BY <1>1, <2>1 DEF work, past
    <2> QED BY <1>3, <1>9, <2>1 DEF Effect
  <1>10. CASE Hydrate \/ ModeSteps
    BY <1>1, <1>10 DEF Hydrate, ModeSteps, work, past
  <1>11. ASSUME NEW r \in Runs, SessionAnswers(r) \/ PostAnswers(r) \/ UnlockAnswers(r) \/ Done(r)
                  \/ ServerUnlocks(r)
         PROVE  Texting'
    BY <1>1, <1>11 DEF SessionAnswers, PostAnswers, UnlockAnswers, Done, ServerUnlocks, past
  <1>12. ASSUME NEW r \in Runs, Frame(r) PROVE Texting'
    BY <1>2, <1>12 DEF Frame, past
  <1>13. ASSUME NEW r \in Runs, Delta(r) \/ Final(r) \/ LegacyContent(r) PROVE Texting'
    <2>1. PICK k \in {"legacy", "deltas", "final"}, t \in Texts, final \in BOOLEAN :
                 /\ Deliver(r, k, t, final) /\ reply[r].seen <= MaxDeltas
                 /\ k # "final" => reply[r].seen < MaxDeltas
      BY <1>13, Delivers
    <2>2. reply' \in [Runs -> Reply]
      BY <2>1, ReplyOf
    <2>3. Push(r, t, final) /\ got' = [got EXCEPT ![r] = t]
      BY <2>1 DEF Deliver
    <2>4. buffer' \in [Runs -> Buffer]
      BY <2>3, PushedBuffer
    <2> QED BY <1>0, <2>2, <2>3, <2>4 DEF Texting
  <1>14. ASSUME NEW r \in Runs, JsonAnswers(r) \/ Desktop(r) PROVE Texting'
    <2>1. buffer' = buffer /\ got' = got
      BY <1>14 DEF JsonAnswers, Desktop, past
    <2>2. reply' \in [Runs -> Reply]
      BY <1>14, ReplyBody, ReplyProof
    <2> QED BY <1>0, <2>1, <2>2 DEF Texting
  <1>15. ASSUME NEW r \in Runs, AsksUnlock(r) PROVE Texting'
    <2>1. reply' = reply /\ reply[r].text \in Texts /\ TRUE \in BOOLEAN
      BY <1>15, TextsArrive DEF AsksUnlock
    <2>2. CASE reply[r].kind = "final"
      BY <1>1, <1>15, <2>1, <2>2 DEF AsksUnlock
    <2>3. CASE reply[r].kind # "final"
      <3>1. Push(r, reply[r].text, TRUE) /\ got' = [got EXCEPT ![r] = reply[r].text]
        BY <1>15, <2>3 DEF AsksUnlock
      <3>2. buffer' \in [Runs -> Buffer]
        BY <2>1, <3>1, PushedBuffer
      <3> QED BY <1>0, <2>1, <3>1, <3>2 DEF Texting
    <2> QED BY <2>2, <2>3
  <1>16. ASSUME NEW r \in Runs, Closes(r) \/ ContentAnswers(r) \/ Throws(r) PROVE Texting'
    <2>1. /\ reply' = [reply EXCEPT ![r] = Nothing] /\ buffer' = [buffer EXCEPT ![r] = Disposed]
          /\ got' = got \/ got' = [got EXCEPT ![r] = reply[r].text]
      BY <1>16 DEF Closes, ContentAnswers, Throws, Complete, Over, past
    <2>2. reply[r].text \in Texts
      BY TextsArrive
    <2> QED BY <1>0, <2>1, <2>2 DEF Texting
  <1> QED BY <1>4, <1>5, <1>6, <1>7, <1>8, <1>9, <1>10, <1>11, <1>12, <1>13, <1>14, <1>15, <1>16,
             Zenon DEF Next, Answers, Events
-----------------------------------------------------------------------------
(* What is stored.                                                         *)

\* Nothing of a conversation is from before the last reset.
Recent(msgs) ==
    \A m \in Shown(msgs) :
        IF m.role = "user" THEN m.id > forgotten ELSE answers[m.id] > forgotten

\* A sound conversation has nothing from before the reset.
LEMMA TalkIsRecent ==
    ASSUME NEW msgs, NEW T, NEW R, NEW whole, NEW said,
           Talk(msgs, T, R, answers, whole, said, forgotten)
    PROVE  Recent(msgs)
  <1>1. \A i \in DOMAIN msgs : msgs[i] \in Message
    BY ElementOfSeq, LenProperties DEF Talk
  <1>2. ASSUME NEW m \in Shown(msgs)
        PROVE  IF m.role = "user" THEN m.id > forgotten ELSE answers[m.id] > forgotten
    <2>1. PICK i \in DOMAIN msgs : m = msgs[i]
      BY DEF Shown
    <2>2. CASE m.role = "user"
      BY <2>1, <2>2 DEF Talk, UsersOK
    <2>3. CASE m.role # "user"
      <3>1. m.role = "assistant"
        BY <1>1, <2>1, <2>3 DEF Message
      <3> QED BY <2>1, <2>3, <3>1 DEF Talk, RepliesOK
    <2> QED BY <2>2, <2>3
  <1> QED BY <1>2 DEF Recent

\* Between renders what is stored is what is shown, or the timer is set.
StoredSoon ==
    hydrated /\ ~dirty => IF loading THEN timer \/ stored = messages ELSE stored = messages

\* The second half of StoredFollowsShown is part of Talk.
LEMMA StoredParts ==
    ASSUME TalkInv
    PROVE  StoredFollowsShown <=> StoredSoon
  <1>1. Recent(messages) /\ Recent(stored)
    BY TalkIsRecent DEF TalkInv
  <1> QED BY <1>1, Zenon DEF StoredFollowsShown, StoredSoon, Recent

\* Whatever changes what is shown leaves an effect due.
LEMMA StoredSoonStep == ASSUME TypeOK, RunsInv, StoredSoon, Next PROVE StoredSoon'
  <1>1. ASSUME dirty' = TRUE PROVE StoredSoon'
    BY <1>1, Zenon DEF StoredSoon
  <1>2. ASSUME UNCHANGED <<hydrated, dirty, loading, timer, stored, messages>> PROVE StoredSoon'
    <2>1. /\ hydrated' = hydrated /\ dirty' = dirty /\ loading' = loading /\ timer' = timer
          /\ stored' = stored /\ messages' = messages
      BY <1>2
    <2> QED BY <2>1, Zenon DEF StoredSoon
  <1>3. ASSUME NEW due, PersistMessages(due) PROVE StoredSoon'
    <2>1. stored' = messages'
      BY <1>3 DEF PersistMessages
    <2> QED BY <2>1, Zenon DEF StoredSoon
  <1>4. CASE Send \/ Retry
    <2>1. PICK u, p, d : RunReply(u, p, d)
      BY <1>4, Zenon DEF Send, Retry
    <2> QED BY <1>1, <2>1 DEF RunReply
  <1>5. CASE Stop \/ Reset \/ PageLoads \/ Hydrate
    BY <1>1, <1>5 DEF Stop, Reset, PageLoads, Hydrate
  <1>6. CASE Hide \/ TimerFires
    BY <1>3, <1>6 DEF Hide, TimerFires
  <1>7. CASE Effect
    <2>1. CASE PersistMessages(FALSE)
      BY <1>3, <2>1
    <2>2. CASE /\ loading \/ ~hydrated
               /\ timer' = (timer \/ hydrated)
               /\ UNCHANGED <<page, work, stored, counts, past, modeVars>>
      <3>1. hydrated' = hydrated /\ loading' = loading
        BY <2>2 DEF page
      <3>2. hydrated' => loading' /\ timer'
        BY <2>2, <3>1, Zenon
      <3> QED BY <3>2, Zenon DEF StoredSoon
    <2> QED BY <1>7, <2>1, <2>2 DEF Effect
  <1>8. CASE ModeSteps
    BY <1>2, <1>8 DEF ModeSteps, page, disk
  <1>9. ASSUME NEW r \in Runs, SessionAnswers(r) \/ PostAnswers(r) \/ JsonAnswers(r)
                  \/ UnlockAnswers(r) \/ Done(r) \/ Desktop(r) \/ ServerUnlocks(r)
        PROVE  StoredSoon'
    BY <1>2, <1>9 DEF SessionAnswers, PostAnswers, JsonAnswers, UnlockAnswers, Done, Desktop,
                      ServerUnlocks, page, disk
  <1>10. ASSUME NEW r, NEW t, NEW final, Push(r, t, final),
                UNCHANGED <<hydrated, loading, timer, stored>>
         PROVE  StoredSoon'
    <2>1. dirty' = TRUE \/ UNCHANGED <<messages, dirty>>
      BY <1>10 DEF Push
    <2> QED BY <1>1, <1>2, <1>10, <2>1
  <1>11. ASSUME NEW r \in Runs, Delta(r) \/ Final(r) \/ LegacyContent(r) PROVE StoredSoon'
    <2>1. PICK k, t, final : Deliver(r, k, t, final)
      BY <1>11, Zenon DEF Delta, Final, LegacyContent
    <2> QED BY <1>10, <2>1 DEF Deliver
  <1>12. ASSUME NEW r \in Runs, AsksUnlock(r) PROVE StoredSoon'
    <2>1. CASE reply[r].kind = "final"
      BY <1>2, <1>12, <2>1 DEF AsksUnlock
    <2>2. CASE reply[r].kind # "final"
      BY <1>10, <1>12, <2>2 DEF AsksUnlock
    <2> QED BY <2>1, <2>2
  <1>13. ASSUME NEW r \in Runs, Frame(r) PROVE StoredSoon'
    <2>1. /\ dirty' = (dirty \/ messages' # messages)
          /\ hydrated' = hydrated /\ loading' = loading /\ timer' = timer /\ stored' = stored
      BY <1>13 DEF Frame
    <2> QED BY <2>1, Zenon DEF StoredSoon
  <1>14. ASSUME NEW r \in Runs, Over(r), UNCHANGED <<hydrated, timer, stored>>,
                IsCurrent(r) \/ messages' = messages
         PROVE  StoredSoon'
    <2>1. CASE IsCurrent(r)
      BY <1>1, <1>14, <2>1 DEF Over
    <2>2. CASE ~IsCurrent(r)
      BY <1>2, <1>14, <2>2 DEF Over
    <2> QED BY <2>1, <2>2
  <1>15. ASSUME NEW r \in Runs, Closes(r) \/ ContentAnswers(r) \/ Throws(r) PROVE StoredSoon'
    <2>1. /\ Over(r) /\ UNCHANGED <<hydrated, timer, stored>>
          /\ IsCurrent(r) \/ messages' = messages
      BY <1>15, Zenon DEF Closes, ContentAnswers, Throws, Complete
    <2> QED BY <1>14, <2>1
  <1> QED BY <1>4, <1>5, <1>6, <1>7, <1>8, <1>9, <1>11, <1>12, <1>13, <1>15, Zenon
          DEF Next, Answers, Events
-----------------------------------------------------------------------------
(* The invariant.                                                          *)

\* The page without a stored conversation.
LEMMA InitInv == Init => Inv
  <1> SUFFICES ASSUME Init PROVE Inv
    OBVIOUS
  <1>0. /\ BoundsAssumption /\ <<>> \in Seq(Message) /\ 0 \in Texts /\ Nothing \in Reply
        /\ Disposed \in Buffer /\ Nothing.kind # "final" /\ Nothing.seen <= MaxDeltas
    BY BoundsAssumption, EmptySeq, RunNumbers, NothingIs, BufferConstants
  <1>1. FlagType
    <2>1. loading = FALSE /\ alert = "none" /\ hydrated = TRUE /\ timer = FALSE /\ dirty = FALSE
      BY DEF Init
    <2>2. ModeTypeOK
      <3>1. mode = Locked /\ content = FALSE /\ initial \in {"status", "content", "done"}
            /\ cookie \in BOOLEAN
        BY CookieAssumption DEF Init, ModeInit
      <3>2. Locked \in [unlocked: BOOLEAN, active: BOOLEAN]
        BY DEF Locked
      <3> QED BY <3>1, <3>2 DEF ModeTypeOK
    <2> QED BY <2>1, <2>2 DEF FlagType
  <1>2. RunType
    BY <1>0 DEF Init, RunType, BoundsAssumption, Waiting
  <1>3. DataType
    BY <1>0 DEF Init, DataType, BoundsAssumption
  <1>4. messages = <<>> /\ stored = <<>> /\ active = NoRun /\ lived = {}
    BY DEF Init
  <1>5. TypeOK
    BY <1>0, <1>1, <1>2, <1>3, <1>4, TypeParts
  <1>6. RunSets
    BY DEF Init, RunSets, Waiting
  <1>7. RunFlags
    <2>1. loading = FALSE /\ hydrated = TRUE
      BY DEF Init
    <2> QED BY <1>4, <2>1, Zenon DEF RunFlags
  <1>8. RunBuffers
    BY DEF Init, RunBuffers
  <1>9. RunReplies
    BY <1>0 DEF Init, RunReplies
  <1>10. RunsInv
    BY <1>6, <1>7, <1>8, <1>9, RunsParts
  <1>11. TalkInv
    BY <1>4, EmptyTalk DEF TalkInv
  <1>12. ActiveInv /\ StreamingInv /\ NothingReceivedIsLost
    BY <1>4, EmptyTalk DEF ActiveInv, StreamingInv, NothingReceivedIsLost
  <1>13. PostedHistoryIsClean
    BY <1>4, RunNumbers DEF PostedHistoryIsClean, IsCurrent
  <1>14. StoredSoon
    BY <1>4, Zenon DEF StoredSoon
  <1> QED BY <1>5, <1>10, <1>11, <1>12, <1>13, <1>14, StoredParts DEF Inv

\* The invariant is inductive.
LEMMA InvStep == ASSUME Inv, [Next]_vars PROVE Inv'
  <1>0. TypeOK /\ RunsInv /\ TalkInv /\ StreamingInv /\ PostedHistoryIsClean /\ Conversation
        /\ StoredSoon
    BY StoredParts DEF Inv, Conversation
  <1>1. CASE Next
    <2>1. FlagType' /\ RunType' /\ Texting' /\ RunsInv' /\ Conversation' /\ StoredSoon'
      BY <1>0, <1>1, FlagStep, RunStep, TextingStep, RunsStep, ConversationStep, StoredSoonStep
    <2>2. /\ history' \in [Runs -> Seq(Message)] /\ answers' \in [Runs -> 0..MaxTurns]
          /\ PostedHistoryIsClean'
      BY <1>0, <1>1, HistoryStep
    <2>3. messages' \in Seq(Message) /\ stored' \in Seq(Message)
      BY <2>1 DEF Conversation, TalkInv, Talk
    <2>4. DataType'
      BY <2>1, <2>2 DEF DataType, Texting
    <2>5. TypeOK'
      BY <2>1, <2>3, <2>4, Zenon DEF TypeOK, FlagType, RunType, DataType
    <2>6. TalkInv'
      BY <2>1 DEF Conversation
    <2>7. StoredFollowsShown'
      BY <2>1, <2>6, StoredParts, PTL
    <2> QED BY <2>1, <2>2, <2>5, <2>6, <2>7 DEF Inv, Conversation
  <1>2. CASE UNCHANGED vars
    <2>1. UNCHANGED <<page, work, disk, counts, past, modeVars>>
      BY <1>2 DEF vars
    <2>2. UNCHANGED <<messages, active, aborted, loading, alert, hydrated, phase, reply, captured>>
      BY <2>1 DEF page, work
    <2>3. UNCHANGED <<history, buffer, unlock, stored, timer, dirty, turns, runs, reloads>>
      BY <2>1 DEF work, disk, counts
    <2>4. UNCHANGED <<completed, got, answers, forgotten, lived, mode, content, initial, cookie>>
      BY <2>1 DEF past, modeVars
    <2>5. TypeOK'
      BY <1>0, <2>2, <2>3, <2>4 DEF TypeOK, ModeTypeOK
    <2>6. RunsInv'
      BY <1>0, <2>2, <2>3, <2>4 DEF RunsInv
    <2>7. Conversation'
      BY <1>0, <2>2, <2>3, <2>4, QuietStep
    <2>8. PostedHistoryIsClean'
      BY <1>0, <2>2, <2>3, <2>4 DEF PostedHistoryIsClean, IsCurrent
    <2>9. StoredFollowsShown'
      BY <2>2, <2>3, <2>4 DEF Inv, StoredFollowsShown
    <2> QED BY <2>5, <2>6, <2>7, <2>8, <2>9 DEF Inv, Conversation
  <1> QED BY <1>1, <1>2

\* The invariant holds always.
LEMMA InvAlways == Spec => []Inv
  BY InitInv, InvStep, PTL DEF Spec
-----------------------------------------------------------------------------
(* What the invariant says.                                                *)

\* The turn a reply stands under is the one AnsweredTurn finds.
LEMMA UnderIsAnswered ==
    ASSUME NEW msgs \in Seq(Message), NEW i \in DOMAIN msgs, NEW u, Under(msgs, i, u)
    PROVE  AnsweredTurn(msgs, i) = u
  <1> DEFINE before == {j \in 1..(i - 1) : msgs[j].role = "user"}
             last == CHOOSE j \in before : \A k \in before : k <= j
  <1>1. DOMAIN msgs = 1..Len(msgs) /\ Len(msgs) \in Nat
    BY LenProperties
  <1>2. PICK j \in DOMAIN msgs : /\ j < i /\ msgs[j].role = "user" /\ msgs[j].id = u
                                 /\ \A k \in DOMAIN msgs : j < k /\ k < i => msgs[k].role # "user"
    BY DEF Under
  <1>3. j \in before /\ \A k \in before : k <= j
    <2>1. j \in 1..(i - 1)
      BY <1>1, <1>2
    <2>2. ASSUME NEW k \in before PROVE k <= j
      <3>1. k \in DOMAIN msgs /\ k < i /\ msgs[k].role = "user" /\ k \in Nat /\ j \in Nat
        BY <1>1
      <3> QED BY <1>2, <3>1
    <2> QED BY <1>2, <2>1, <2>2
  <1>4. last \in before /\ \A k \in before : k <= last
    BY <1>3
  <1>5. AnsweredTurn(msgs, i) = msgs[last].id
    <2> HIDE DEF last
    <2>1. before # {}
      BY <1>3
    <2> QED BY <2>1 DEF AnsweredTurn, last
  <1> HIDE DEF last
  <1>6. last = j
    <2>1. last <= j /\ j <= last /\ j \in Nat /\ last \in Nat
      BY <1>1, <1>3, <1>4
    <2> QED BY <2>1
  <1> QED BY <1>2, <1>5, <1>6

\* The invariant implies the soundness of the conversation.
LEMMA InvIsSound == Inv => ConversationSound
  <1> SUFFICES ASSUME Inv PROVE ConversationSound
    OBVIOUS
  <1>1. /\ messages \in Seq(Message) /\ \A i \in DOMAIN messages : messages[i] \in Message
        /\ Talk(messages, turns, runs, answers, completed, got, forgotten)
    BY ElementOfSeq, LenProperties DEF Inv, TypeOK, TalkInv
  <1>2. OneReplyGrows
    <2>1. loading = (active # NoRun)
      BY Zenon DEF Inv, RunsInv
    <2>2. \A m \in Shown(messages) : m.status = "streaming" => m.id = active
      BY DEF Inv, StreamingInv, Shown
    <2>3. \A i, j \in DOMAIN messages :
             messages[i] = messages[j] /\ messages[i].role = "assistant" => i = j
      BY <1>1 DEF Talk, Distinct
    <2> QED BY <2>1, <2>2, <2>3, Zenon DEF OneReplyGrows
  <1>3. RepliesAnswerTheirTurn
    <2>1. ASSUME NEW i \in DOMAIN messages, Whole(messages[i])
          PROVE  /\ messages[i].id \in completed
                 /\ AnsweredTurn(messages, i) = answers[messages[i].id]
      <3>1. Under(messages, i, answers[messages[i].id]) /\ messages[i].id \in completed
        BY <1>1, <2>1 DEF Talk, RepliesOK, WholeOK, Whole
      <3> QED BY <1>1, <3>1, UnderIsAnswered
    <2>2. ASSUME NEW i \in DOMAIN messages, NEW j \in DOMAIN messages,
                 Whole(messages[i]), Whole(messages[j]),
                 AnsweredTurn(messages, j) = AnsweredTurn(messages, i)
          PROVE  i = j
      <3>1. answers[messages[j].id] = answers[messages[i].id]
        BY <2>1, <2>2
      <3> QED BY <1>1, <2>2, <3>1 DEF Talk, OneWhole
    <2> QED BY <2>1, <2>2 DEF RepliesAnswerTheirTurn, Whole
  <1> QED BY <1>2, <1>3 DEF Inv, ConversationSound

\* One reply at most grows, every complete reply stands under the turn it was
\* asked about, and what is posted holds no partial reply (runReply,
\* retryHistory), for any number of turns, runs, deltas and page loads.
THEOREM ConversationIsSound == Spec => []ConversationSound
  BY InvAlways, InvIsSound, PTL

\* Text that arrived is shown when its run is over, however it ended: by
\* completion, an error or Stop (finishReply, failReply, stopReply).
THEOREM NothingIsLost == Spec => []NothingReceivedIsLost
  <1>1. Inv => NothingReceivedIsLost
    BY DEF Inv
  <1> QED BY <1>1, InvAlways, PTL

\* What is shown is stored or will be, and a reset leaves nothing behind
\* (persistMessages and its effect, resetConversation).
THEOREM StoredIsShown == Spec => []StoredFollowsShown
  <1>1. Inv => StoredFollowsShown
    BY DEF Inv
  <1> QED BY <1>1, InvAlways, PTL

-----------------------------------------------------------------------------
(* What a step may never do.                                               *)

\* A run that is not current when it moves on does so by failing: nothing of
\* the page, the storage or the desktop changes.
LEMMA StaleStep ==
    ASSUME TypeOK, RunsInv, Next, reloads' = reloads, runs' = runs,
           NEW r \in Runs, phase'[r] # phase[r], ~IsCurrent(r)
    PROVE  UNCHANGED <<messages, active, loading, alert, stored, mode, content>>
  <1>0. phase \in [Runs -> Waiting \cup {"over"}] /\ runs \in Nat /\ reloads \in Nat
    BY DEF TypeOK
  <1>1. ASSUME phase' = phase PROVE FALSE
    BY <1>1
  <1>2. ASSUME NEW q \in Runs, NEW p, phase' = [phase EXCEPT ![q] = p] PROVE q = r
    BY <1>0, <1>2
  <1>3. ~(Send \/ Retry)
    <2>1. ASSUME NEW u, NEW p, NEW d, RunReply(u, p, d) PROVE FALSE
      <3>1. runs' = runs + 1
        BY <2>1 DEF RunReply
      <3> QED BY <1>0, <3>1
    <2> QED BY <2>1, Zenon DEF Send, Retry
  <1>4. ~PageLoads
    BY <1>0 DEF PageLoads
  <1>5. ~(Stop \/ Reset \/ Hydrate \/ ModeSteps)
    BY <1>1 DEF Stop, Reset, Hydrate, ModeSteps, work
  <1>6. \A due : ~PersistMessages(due)
    BY <1>1 DEF PersistMessages
  <1>7. ~(Hide \/ TimerFires \/ Effect)
    BY <1>1, <1>6 DEF Hide, TimerFires, Effect, work
  <1>8. \A q \in Runs : ~(Desktop(q) \/ ServerUnlocks(q) \/ Frame(q))
    BY <1>1 DEF Desktop, ServerUnlocks, Frame
  <1>9. ASSUME NEW q \in Runs, Delta(q) \/ Final(q) \/ LegacyContent(q) PROVE FALSE
    <2>1. PICK k, t, final : Deliver(q, k, t, final)
      BY <1>9, Zenon DEF Delta, Final, LegacyContent
    <2> QED BY <1>1, <2>1 DEF Deliver
  <1>10. ASSUME NEW q \in Runs, NEW p \in Waiting, Resumes(q, p), NEW s,
                phase' = [phase EXCEPT ![q] = s]
         PROVE  FALSE
    BY <1>2, <1>10, Current
  <1>11. {"session", "post", "stream", "json", "closing", "unlock", "content"} \subseteq Waiting
    BY DEF Waiting
  <1>12. ASSUME NEW q \in Runs, SessionAnswers(q) \/ PostAnswers(q) \/ JsonAnswers(q)
                  \/ UnlockAnswers(q) \/ Done(q) \/ AsksUnlock(q)
         PROVE  FALSE
    BY <1>10, <1>11, <1>12 DEF SessionAnswers, PostAnswers, JsonAnswers, UnlockAnswers, Done,
                               AsksUnlock
  <1>13. ASSUME NEW q \in Runs, Closes(q) \/ ContentAnswers(q) PROVE FALSE
    <2>1. /\ Resumes(q, "closing") \/ Resumes(q, "content")
          /\ phase' = [phase EXCEPT ![q] = "over"]
      BY <1>13 DEF Closes, ContentAnswers, Complete, Over
    <2> QED BY <1>10, <1>11, <2>1
  <1>14. ASSUME NEW q \in Runs, Throws(q)
         PROVE  UNCHANGED <<messages, active, loading, alert, stored, mode, content>>
    <2>1. Over(q) /\ UNCHANGED <<stored, modeVars>>
      BY <1>14 DEF Throws
    <2>2. q = r
      BY <1>2, <2>1 DEF Over
    <2> QED BY <1>14, <2>1, <2>2 DEF Throws, Over, modeVars
  <1> QED BY <1>3, <1>4, <1>5, <1>7, <1>8, <1>9, <1>12, <1>13, <1>14, Zenon
          DEF Next, Answers, Events

\* A run that was stopped, reset or left behind changes nothing when it
\* resumes (isCurrent and check after every await).
THEOREM StaleAreSilent == Spec => StaleRunsAreSilent
  <1>1. ASSUME Inv, [Next]_vars
        PROVE  [\A r \in Runs :
                   phase[r] # phase'[r] /\ ~IsCurrent(r) /\ reloads' = reloads /\ runs' = runs
                   => UNCHANGED <<messages, active, loading, alert, stored, mode, content>>]_vars
    BY <1>1, StaleStep DEF Inv
  <1> QED BY <1>1, InvAlways, PTL DEF Spec, StaleRunsAreSilent

\* The desktop appears in the step in which the active run shows its reply.
LEMMA CompletionShows ==
    ASSUME TypeOK, RunsInv, ActiveInv, NEW r \in Runs, NEW p \in Waiting, Resumes(r, p),
           Complete(r)
    PROVE  \E m \in Shown(messages') : m.status = "complete" /\ OfRun(m, active) /\ active' = NoRun
  <1>1. r = active /\ active # NoRun /\ IsCurrent(r)
    BY Current
  <1>2. messages' = Settled(messages, r, reply[r].text) /\ Over(r)
    BY <1>1, Zenon DEF Complete, Settled
  <1>3. active' = NoRun
    BY <1>1, <1>2 DEF Over
  <1>4. PICK i \in DOMAIN messages : OfRun(messages[i], r)
    BY <1>1 DEF ActiveInv
  <1>5. messages \in Seq(Message) /\ reply[r].text \in Texts
    BY TextsArrive DEF TypeOK
  <1>6. /\ i \in DOMAIN messages' /\ OfRun(messages'[i], r) /\ messages'[i].status = "complete"
    BY <1>2, <1>4, <1>5, SettledFacts
  <1> QED BY <1>1, <1>3, <1>6 DEF Shown

\* Whichever step shows the desktop.
LEMMA DesktopStep ==
    ASSUME TypeOK, RunsInv, ActiveInv, Next, ~IsShown, IsShown'
    PROVE  \/ initial = "content"
           \/ \E m \in Shown(messages') : m.status = "complete" /\ OfRun(m, active)
                 /\ active' = NoRun
  <1> DEFINE Follows == \E m \in Shown(messages') :
                           m.status = "complete" /\ OfRun(m, active) /\ active' = NoRun
  <1>1. ASSUME UNCHANGED mode PROVE FALSE
    BY <1>1 DEF IsShown
  <1>2. CASE PageLoads
    <2>1. mode' = Locked
      BY <1>2 DEF PageLoads, ModeMounts
    <2>2. Locked.active = FALSE
      BY DEF Locked
    <2> QED BY <2>1, <2>2 DEF IsShown
  <1>3. CASE ModeSteps
    <2>1. CASE InitialStatus \/ InitialFails
      BY <1>1, <2>1 DEF InitialStatus, InitialFails
    <2>2. CASE InitialContent
      BY <2>2 DEF InitialContent
    <2>3. CASE Leave
      BY <2>3 DEF Leave
    <2> QED BY <1>3, <2>1, <2>2, <2>3 DEF ModeSteps, ModeNext
  <1>4. ASSUME NEW r \in Runs, Closes(r) \/ ContentAnswers(r) PROVE Follows
    <2>1. Complete(r) /\ (Resumes(r, "closing") \/ Resumes(r, "content"))
      BY <1>4 DEF Closes, ContentAnswers
    <2>2. "closing" \in Waiting /\ "content" \in Waiting
      BY DEF Waiting
    <2> QED BY <2>1, <2>2, CompletionShows
  <1>5. ~(Send \/ Retry)
    <2>1. \A u, p, d : RunReply(u, p, d) => UNCHANGED mode
      BY DEF RunReply, modeVars
    <2> QED BY <1>1, <2>1, Zenon DEF Send, Retry
  <1>6. ~(Stop \/ Reset \/ Hydrate)
    BY <1>1 DEF Stop, Reset, Hydrate, modeVars
  <1>7. \A due : ~PersistMessages(due)
    BY <1>1 DEF PersistMessages, modeVars
  <1>8. ~(Hide \/ TimerFires \/ Effect)
    BY <1>1, <1>7 DEF Hide, TimerFires, Effect, modeVars
  <1>9. \A r \in Runs : ~(Desktop(r) \/ ServerUnlocks(r) \/ Frame(r) \/ SessionAnswers(r)
                          \/ PostAnswers(r) \/ JsonAnswers(r) \/ UnlockAnswers(r) \/ Done(r)
                          \/ AsksUnlock(r) \/ Throws(r))
    BY <1>1 DEF Desktop, ServerUnlocks, Frame, SessionAnswers, PostAnswers, JsonAnswers,
                UnlockAnswers, Done, AsksUnlock, Throws, modeVars
  <1>10. ASSUME NEW r \in Runs, Delta(r) \/ Final(r) \/ LegacyContent(r) PROVE FALSE
    <2>1. PICK k, t, final : Deliver(r, k, t, final)
      BY <1>10, Zenon DEF Delta, Final, LegacyContent
    <2> QED BY <1>1, <2>1 DEF Deliver, modeVars
  <1> QED BY <1>2, <1>3, <1>4, <1>5, <1>6, <1>8, <1>9, <1>10, Zenon DEF Next, Answers, Events

\* The page becomes the relationship desktop when it loads with the cookie or
\* with the reply that completes in the same step (activateGirlfriend).
THEOREM DesktopFollows == Spec => DesktopFollowsReplies
  <1>1. ASSUME Inv, [Next]_vars
        PROVE  [~IsShown /\ IsShown' =>
                  \/ initial = "content"
                  \/ \E m \in Shown(messages') : m.status = "complete" /\ OfRun(m, active)
                        /\ active' = NoRun]_vars
    BY <1>1, DesktopStep DEF Inv
  <1> QED BY <1>1, InvAlways, PTL DEF Spec, DesktopFollowsReplies
=============================================================================
