-------------------------- MODULE SessionClient_proofs --------------------------
(***************************************************************************)
(* SessionClient for any sessions, any number of handlers at a time, any   *)
(* bound of the recent ones, and for every user, patient or not, with or   *)
(* without another window that writes to the same storage.                 *)
(***************************************************************************)
EXTENDS SessionClient, FiniteSetTheorems, TLAPS

-----------------------------------------------------------------------------
(* The filter of the recent sessions *)

Unique(q) == \A i, k \in 1..Len(q) : q[i] = q[k] => i = k

\* Numbered one after the other, the members of a set of positions have the numbers from 1 to
\* their number, each once.
LEMMA Numbering ==
  ASSUME NEW m \in Nat, NEW left \in SUBSET (1..m)
  PROVE  /\ Cardinality(left) \in Nat /\ Cardinality(left) <= m
         /\ \A k \in 1..Cardinality(left) : \E i \in left : Cardinality({h \in left : h <= i}) = k
<1> DEFINE UpTo(i) == {h \in left : h <= i}
           n == Cardinality(left)
           rank == [i \in left |-> Cardinality(UpTo(i))]
<1>1. IsFiniteSet(1..m) /\ Cardinality(1..m) = m
  BY FS_Interval
<1>2. IsFiniteSet(left) /\ n \in Nat /\ n <= m
  BY <1>1, FS_Subset, FS_CardinalityType
<1>3. \A i \in left : UpTo(i) \in SUBSET left /\ i \in UpTo(i)
  OBVIOUS
<1>4. \A i \in left : IsFiniteSet(UpTo(i)) /\ Cardinality(UpTo(i)) \in Nat /\ Cardinality(UpTo(i)) <= n
  BY <1>2, <1>3, FS_Subset, FS_CardinalityType
<1>5. \A i \in left : Cardinality(UpTo(i)) # 0
  BY <1>3, <1>4, FS_EmptySet
<1>6. rank \in [left -> 1..n]
  BY <1>2, <1>4, <1>5
<1>7. ASSUME NEW i \in left, NEW k \in left, i < k PROVE rank[i] # rank[k]
  <2>1. k <= k /\ ~ (k <= i) /\ \A h \in left : h <= i => h <= k
    BY <1>7
  <2>2. UpTo(i) \in SUBSET UpTo(k) /\ k \in UpTo(k) /\ k \notin UpTo(i)
    BY <2>1, Zenon
  <2>3. Cardinality(UpTo(k)) # Cardinality(UpTo(i))
    BY <1>4, <2>2, FS_Subset
  <2> QED BY <2>3
<1>8. rank \in Injection(left, 1..n)
  <2>1. ASSUME NEW i \in left, NEW k \in left, rank[i] = rank[k] PROVE i = k
    BY <1>7, <2>1
  <2> HIDE DEF rank
  <2> QED BY <1>6, <2>1 DEF Injection, IsInjective
<1>9. IsFiniteSet(1..n) /\ Cardinality(1..n) = n
  BY <1>2, FS_Interval
<1>10. rank \in Surjection(left, 1..n)
  <2> HIDE DEF rank
  <2> QED BY <1>8, <1>9, FS_Injection
<1>11. \A k \in 1..n : \E i \in left : rank[i] = k
  <2> HIDE DEF rank
  <2> QED BY <1>10 DEF Surjection
<1> QED BY <1>2, <1>11

\* The filter yields members of the list, none of them s, and no two that were one.
LEMMA WithoutType ==
  ASSUME mru \in Seq(Sessions), NEW s
  PROVE  /\ Without(s) \in Seq(Sessions)
         /\ Len(Without(s)) <= Len(mru)
         /\ \A k \in 1..Len(Without(s)) : Without(s)[k] # s
         /\ Unique(mru) => Unique(Without(s))
<1> DEFINE left == {i \in DOMAIN mru : mru[i] # s}
           n == Cardinality(left)
           nth == [k \in 1..n |-> CHOOSE i \in left : Cardinality({h \in left : h <= i}) = k]
<1>1. left \in SUBSET (1..Len(mru)) /\ \A i \in left : mru[i] \in Sessions /\ mru[i] # s
  OBVIOUS
<1>2. Without(s) = [k \in 1..n |-> mru[CHOOSE i \in left : Cardinality({h \in left : h <= i}) = k]]
  BY DEF Without
<1>3. Without(s) = [k \in 1..n |-> mru[nth[k]]]
  BY <1>2
<1> HIDE DEF left
<1>4. n \in Nat /\ n <= Len(mru) /\ \A k \in 1..n : \E i \in left : Cardinality({h \in left : h <= i}) = k
  <2>1. Len(mru) \in Nat
    OBVIOUS
  <2> QED BY <1>1, <2>1, Numbering
<1>5. \A k \in 1..n : nth[k] \in left /\ Cardinality({h \in left : h <= nth[k]}) = k
  BY <1>4
<1> HIDE DEF nth, n
<1>6. \A k \in 1..n : mru[nth[k]] \in Sessions
  BY <1>1, <1>5
<1>7. Without(s) \in Seq(Sessions) /\ Len(Without(s)) = n /\ \A k \in 1..n : Without(s)[k] = mru[nth[k]]
  BY <1>3, <1>4, <1>6
<1>8. \A k \in 1..n : Without(s)[k] # s
  BY <1>1, <1>5, <1>7
<1>9. ASSUME Unique(mru) PROVE Unique(Without(s))
  <2> SUFFICES ASSUME NEW i \in 1..n, NEW k \in 1..n, Without(s)[i] = Without(s)[k] PROVE i = k
    BY <1>7 DEF Unique
  <2>1. mru[nth[i]] = mru[nth[k]] /\ nth[i] \in 1..Len(mru) /\ nth[k] \in 1..Len(mru)
    BY <1>1, <1>5, <1>7
  <2>2. nth[i] = nth[k]
    BY <1>9, <2>1 DEF Unique
  <2> QED BY <1>5, <2>2
<1> QED BY <1>4, <1>7, <1>8, <1>9

\* The list with a session in front stays within its bound and has no session twice.
LEMMA PushedType ==
  ASSUME mru \in Seq(Sessions), NEW s \in Sessions
  PROVE  /\ Pushed(s) \in Seq(Sessions)
         /\ Len(Pushed(s)) <= MruCap
         /\ Unique(mru) => Unique(Pushed(s))
<1> DEFINE rest == Without(s)
           all == <<s>> \o rest
           m == IF Len(all) < MruCap THEN Len(all) ELSE MruCap
<1>1. rest \in Seq(Sessions) /\ (\A k \in 1..Len(rest) : rest[k] # s) /\ (Unique(mru) => Unique(rest))
  BY WithoutType
<1>2. Pushed(s) = SubSeq(all, 1, m)
  BY DEF Pushed
<1> HIDE DEF rest
<1>3. /\ all \in Seq(Sessions) /\ Len(all) = Len(rest) + 1 /\ all[1] = s
      /\ \A k \in 1..Len(all) : k # 1 => k - 1 \in 1..Len(rest) /\ all[k] = rest[k - 1]
  BY <1>1
<1>4. ASSUME Unique(mru) PROVE Unique(all)
  BY <1>1, <1>3, <1>4 DEF Unique
<1> HIDE DEF all
<1>5. m \in 1..Len(all) /\ m <= MruCap
  BY <1>1, <1>3, ClientAssumption
<1> HIDE DEF m
<1>6. /\ SubSeq(all, 1, m) \in Seq(Sessions) /\ Len(SubSeq(all, 1, m)) = m
      /\ \A k \in 1..m : SubSeq(all, 1, m)[k] = all[k]
  BY <1>3, <1>5
<1>7. 1..m \subseteq 1..Len(all)
  BY <1>3, <1>5
<1>8. Unique(all) => Unique(SubSeq(all, 1, m))
  BY <1>6, <1>7 DEF Unique
<1> QED BY <1>2, <1>4, <1>5, <1>6, <1>8

-----------------------------------------------------------------------------
(* Types, for every user *)

SessionOrNone == Sessions \cup {None}
Steps == [at : Ats, session : SessionOrNone]
Handlers == [as : Users, stages : Seq(Steps)]
Store == [sid : SessionOrNone, mru : Seq(Sessions), draft : [Sessions -> SUBSET Sessions]]

Sound(q) == Len(q) <= MruCap /\ Unique(q)

StoreInv == gm \in [StoragePrefixes -> Store] /\ \A p \in StoragePrefixes : Sound(gm[p].mru)

\* A history that is awaited is that of a session.
OfSession(q) == \A k \in 1..Len(q) : q[k].at = "history" => q[k].session \in Sessions

JobsInv == jobs \in [Jobs -> Handlers] /\ \A j \in Jobs : OfSession(jobs[j].stages)

TypeInv ==
  /\ status \in [Sessions -> {"unborn", "open", "closed", "gone"}]
  /\ owner \in [Sessions -> Users]
  /\ {fp, name, gmFp, gmName} \subseteq BOOLEAN
  /\ sid \in SessionOrNone
  /\ mru \in Seq(Sessions) /\ Sound(mru)
  /\ {list, input} \subseteq SUBSET Sessions
  /\ StoreInv
  /\ JobsInv

LEMMA WhoType ==
  ASSUME TypeInv
  PROVE  Prefix \in StoragePrefixes /\ User \in Users
BY DEF TypeInv, Prefix, User, StoragePrefixes, Users

\* A write to one value of a store.
LEMMA StoreWrites ==
  ASSUME NEW x \in Store
  PROVE  /\ \A a \in SessionOrNone : LET r == [x EXCEPT !.sid = a] IN
              r \in Store /\ r.sid = a /\ r.mru = x.mru /\ r.draft = x.draft
         /\ \A q \in Seq(Sessions) : LET r == [x EXCEPT !.mru = q] IN
              r \in Store /\ r.sid = x.sid /\ r.mru = q /\ r.draft = x.draft
         /\ \A d \in [Sessions -> SUBSET Sessions] : LET r == [x EXCEPT !.draft = d] IN
              r \in Store /\ r.sid = x.sid /\ r.mru = x.mru /\ r.draft = d
BY DEF Store

\* Three writes to the store of one prefix are one write of three values.
LEMMA StoresWrite ==
  ASSUME NEW g \in [StoragePrefixes -> Store], NEW p \in StoragePrefixes, NEW a, NEW q, NEW d
  PROVE  [g EXCEPT ![p].sid = a, ![p].mru = q, ![p].draft = d]
           = [g EXCEPT ![p] = [[[g[p] EXCEPT !.sid = a] EXCEPT !.mru = q] EXCEPT !.draft = d]]
<1> DEFINE r1 == [g[p] EXCEPT !.sid = a]
           g1 == [g EXCEPT ![p] = r1]
           r2 == [r1 EXCEPT !.mru = q]
           g2 == [g1 EXCEPT ![p] = r2]
           r3 == [r2 EXCEPT !.draft = d]
           g3 == [g2 EXCEPT ![p] = r3]
<1>1. g1[p] = r1 /\ g2[p] = r2
  OBVIOUS
<1>2. [g EXCEPT ![p].sid = a, ![p].mru = q, ![p].draft = d] = g3
  BY <1>1
<1>3. g3 = [g EXCEPT ![p] = r3]
  <2> HIDE DEF r1, r2, r3
  <2> QED OBVIOUS
<1> QED BY <1>2, <1>3

\* What Adopt stores, and where.
LEMMA AdoptStores ==
  ASSUME TypeInv, NEW s \in SessionOrNone, Adopt(s)
  PROVE  /\ sid' = s /\ StoreInv' /\ gm'[Prefix].sid = s
         /\ \A p \in StoragePrefixes :
              gm'[p].mru = gm[p].mru /\ gm'[p].draft = gm[p].draft /\ (p # Prefix => gm'[p] = gm[p])
<1> DEFINE r == [gm[Prefix] EXCEPT !["sid"] = s]
<1>1. Prefix \in StoragePrefixes /\ gm[Prefix] \in Store
  BY WhoType DEF TypeInv, StoreInv
<1>2. r \in Store /\ r.sid = s /\ r.mru = gm[Prefix].mru /\ r.draft = gm[Prefix].draft
  BY <1>1 DEF Store
<1>3. sid' = s /\ gm' = [gm EXCEPT ![Prefix] = r]
  BY DEF Adopt, Save
<1> HIDE DEF r
<1> QED BY <1>1, <1>2, <1>3 DEF TypeInv, StoreInv

LEMMA PushMRUStores ==
  ASSUME TypeInv, NEW s \in SessionOrNone, PushMRU(s)
  PROVE  /\ mru' \in Seq(Sessions) /\ Sound(mru') /\ StoreInv'
         /\ \A p \in StoragePrefixes : gm'[p].sid = gm[p].sid /\ gm'[p].draft = gm[p].draft
<1>1. CASE s = None
  BY <1>1 DEF PushMRU, TypeInv, StoreInv
<1>2. CASE s # None
  <2> DEFINE r == [gm[Prefix] EXCEPT !["mru"] = mru']
  <2>1. Prefix \in StoragePrefixes /\ gm[Prefix] \in Store
    BY WhoType DEF TypeInv, StoreInv
  <2>2. mru' = Pushed(s) /\ gm' = [gm EXCEPT ![Prefix] = r]
    BY <1>2 DEF PushMRU, Save
  <2>3. mru' \in Seq(Sessions) /\ Sound(mru')
    BY <1>2, <2>2, PushedType DEF SessionOrNone, TypeInv, Sound
  <2>4. r \in Store /\ r.mru = mru' /\ r.sid = gm[Prefix].sid /\ r.draft = gm[Prefix].draft
    BY <2>1, <2>3 DEF Store
  <2> HIDE DEF r
  <2> QED BY <2>1, <2>2, <2>3, <2>4 DEF TypeInv, StoreInv
<1> QED BY <1>1, <1>2

LEMMA MoveToStores ==
  ASSUME TypeInv, NEW s \in Sessions, MoveTo(s, sid)
  PROVE  /\ sid' = s /\ mru' \in Seq(Sessions) /\ Sound(mru') /\ StoreInv'
         /\ gm'[Prefix].sid = s
         /\ \A p \in StoragePrefixes, t \in Sessions :
              gm'[p].draft[t] = IF p = Prefix /\ t = sid THEN input ELSE gm[p].draft[t]
<1> DEFINE d  == IF sid = None THEN gm[Prefix].draft ELSE [gm[Prefix].draft EXCEPT ![sid] = input]
           r1 == [gm[Prefix] EXCEPT !.sid = s]
           r2 == [r1 EXCEPT !.mru = mru']
           r  == [r2 EXCEPT !.draft = d]
<1>1. gm \in [StoragePrefixes -> Store] /\ Prefix \in StoragePrefixes /\ gm[Prefix] \in Store
  BY WhoType DEF TypeInv, StoreInv
<1>2. mru' \in Seq(Sessions) /\ Sound(mru') /\ sid' = s
  BY PushedType DEF MoveTo, TypeInv, Sound
<1>3. gm' = [gm EXCEPT ![Prefix] = r]
  <2>1. gm' = [gm EXCEPT ![Prefix].sid = s, ![Prefix].mru = mru',
                         ![Prefix].draft = IF sid = None THEN @ ELSE [@ EXCEPT ![sid] = input]]
    BY DEF MoveTo
  <2>2. gm' = [gm EXCEPT ![Prefix].sid = s, ![Prefix].mru = mru', ![Prefix].draft = d]
    BY <1>1, <2>1
  <2>3. [gm EXCEPT ![Prefix].sid = s, ![Prefix].mru = mru', ![Prefix].draft = d] = [gm EXCEPT ![Prefix] = r]
    <3> HIDE DEF d
    <3> QED BY <1>1, StoresWrite
  <2> QED BY <2>2, <2>3
<1>4. /\ d \in [Sessions -> SUBSET Sessions]
      /\ \A t \in Sessions : d[t] = IF t = sid THEN input ELSE gm[Prefix].draft[t]
  BY <1>1, ClientAssumption DEF Store, TypeInv, SessionOrNone
<1> HIDE DEF d
<1>5. r1 \in Store /\ r1.sid = s
  BY <1>1, StoreWrites DEF SessionOrNone
<1> HIDE DEF r1
<1>6. r2 \in Store /\ r2.sid = s /\ r2.mru = mru'
  BY <1>2, <1>5, StoreWrites
<1> HIDE DEF r2
<1>7. r \in Store /\ r.sid = s /\ r.mru = mru' /\ r.draft = d
  BY <1>4, <1>6, StoreWrites
<1> HIDE DEF r
<1>8. gm' \in [StoragePrefixes -> Store] /\ gm'[Prefix] = r /\ \A p \in StoragePrefixes : p # Prefix => gm'[p] = gm[p]
  BY <1>1, <1>3, <1>7
<1>9. StoreInv'
  BY <1>2, <1>7, <1>8 DEF TypeInv, StoreInv
<1>10. ASSUME NEW p \in StoragePrefixes, NEW t \in Sessions
       PROVE  gm'[p].draft[t] = IF p = Prefix /\ t = sid THEN input ELSE gm[p].draft[t]
  BY <1>4, <1>7, <1>8
<1> QED BY <1>2, <1>7, <1>8, <1>9, <1>10

\* What deleteSession stores, whether it leaves the session (then sid is another) or not.
Forgotten(s, now) ==
  \/ gm' = [gm EXCEPT ![Prefix] = [Forget(s) EXCEPT !.sid = now]]
  \/ gm' = [gm EXCEPT ![Prefix] = Forget(s)] /\ now = gm[Prefix].sid

LEMMA ForgetStores ==
  ASSUME TypeInv, NEW s \in SessionOrNone, NEW now \in SessionOrNone, Forgotten(s, now)
  PROVE /\ StoreInv' /\ gm'[Prefix].sid = now
         /\ \A p \in StoragePrefixes :
              /\ p # Prefix => gm'[p].sid = gm[p].sid
              /\ \A t \in Sessions :
                   gm'[p].draft[t] = IF p = Prefix /\ t = s THEN {} ELSE gm[p].draft[t]
<1> DEFINE d  == [gm[Prefix].draft EXCEPT ![s] = {}]
           r1 == [gm[Prefix] EXCEPT !.draft = d]
           r2 == [r1 EXCEPT !.mru = Without(s)]
           r  == [r2 EXCEPT !.sid = now]
<1>1. gm \in [StoragePrefixes -> Store] /\ Prefix \in StoragePrefixes /\ gm[Prefix] \in Store
  BY WhoType DEF TypeInv, StoreInv
<1>2. Without(s) \in Seq(Sessions) /\ Sound(Without(s))
  <2>1. mru \in Seq(Sessions) /\ Len(mru) <= MruCap /\ Unique(mru) /\ Len(mru) \in Nat /\ MruCap \in Nat
    BY ClientAssumption DEF TypeInv, Sound
  <2>2. Without(s) \in Seq(Sessions) /\ Len(Without(s)) <= Len(mru) /\ Unique(Without(s))
    BY <2>1, WithoutType
  <2>3. Len(Without(s)) \in Nat
    BY <2>2
  <2> QED BY <2>1, <2>2, <2>3 DEF Sound
<1>3. Forget(s) = r2
  BY <1>1 DEF Forget, Store
<1>4. d \in [Sessions -> SUBSET Sessions] /\ \A t \in Sessions : d[t] = IF t = s THEN {} ELSE gm[Prefix].draft[t]
  BY <1>1 DEF Store
<1> HIDE DEF d
<1>5. r1 \in Store /\ r1.sid = gm[Prefix].sid /\ r1.draft = d
  BY <1>1, <1>4, StoreWrites
<1> HIDE DEF r1
<1>6. r2 \in Store /\ r2.sid = gm[Prefix].sid /\ r2.mru = Without(s) /\ r2.draft = d
  BY <1>2, <1>5, StoreWrites
<1> HIDE DEF r2
<1>7. r \in Store /\ r.sid = now /\ r.mru = Without(s) /\ r.draft = d
  BY <1>6, StoreWrites
<1> HIDE DEF r
<1>8. PICK x \in {r, r2} : gm' = [gm EXCEPT ![Prefix] = x] /\ x.sid = now
  <2>1. CASE gm' = [gm EXCEPT ![Prefix] = [Forget(s) EXCEPT !.sid = now]]
    BY <1>3, <1>7, <2>1 DEF r
  <2>2. CASE gm' = [gm EXCEPT ![Prefix] = Forget(s)] /\ now = gm[Prefix].sid
    BY <1>3, <1>6, <2>2
  <2> QED BY <2>1, <2>2 DEF Forgotten
<1>9. x \in Store /\ x.mru = Without(s) /\ x.draft = d
  BY <1>6, <1>7
<1>10. gm' \in [StoragePrefixes -> Store] /\ gm'[Prefix] = x /\ \A p \in StoragePrefixes : p # Prefix => gm'[p] = gm[p]
  BY <1>1, <1>8, <1>9
<1>11. StoreInv'
  BY <1>2, <1>9, <1>10 DEF TypeInv, StoreInv
<1>12. ASSUME NEW p \in StoragePrefixes, NEW t \in Sessions
       PROVE  gm'[p].draft[t] = IF p = Prefix /\ t = s THEN {} ELSE gm[p].draft[t]
  BY <1>4, <1>9, <1>10
<1> QED BY <1>8, <1>10, <1>11, <1>12

\* How the handlers are when one of them begins or goes on.
LEMMA BeginType ==
  ASSUME TypeInv, NEW j \in Jobs, NEW q \in Seq(Steps), OfSession(q), Begin(j, q)
  PROVE  /\ JobsInv' /\ jobs[j] = Idle /\ jobs'[j] = [as |-> User, stages |-> q]
         /\ \A i \in Jobs : i # j => jobs'[i] = jobs[i]
<1> DEFINE h == [as |-> User, stages |-> q]
<1>1. h \in Handlers /\ h.stages = q
  BY WhoType DEF Handlers
<1>2. jobs' = [jobs EXCEPT ![j] = h] /\ jobs[j] = Idle
  BY DEF Begin
<1> HIDE DEF h
<1>3. jobs' \in [Jobs -> Handlers] /\ jobs'[j] = h /\ \A i \in Jobs : i # j => jobs'[i] = jobs[i]
  BY <1>1, <1>2 DEF TypeInv, JobsInv
<1>4. JobsInv'
  BY <1>1, <1>3 DEF TypeInv, JobsInv, OfSession
<1> QED BY <1>2, <1>3, <1>4 DEF h

LEMMA ContinueType ==
  ASSUME TypeInv, NEW j \in Jobs, jobs[j].stages # <<>>, NEW q \in Seq(Steps), OfSession(q), Continue(j, q)
  PROVE  /\ JobsInv'
         /\ LET left == q \o Tail(jobs[j].stages) IN
            jobs'[j] = IF left = <<>> THEN Idle ELSE [as |-> User, stages |-> left]
         /\ \A i \in Jobs : i # j => jobs'[i] = jobs[i]
<1> DEFINE old1 == jobs[j].stages
           left == q \o Tail(old1)
           h == IF left = <<>> THEN Idle ELSE [as |-> User, stages |-> left]
<1>1. old1 \in Seq(Steps) /\ old1 # <<>> /\ OfSession(old1)
  BY DEF TypeInv, JobsInv, Handlers
<1>2. jobs' = [jobs EXCEPT ![j] = h]
  BY DEF Continue
<1> HIDE DEF old1
<1>3. /\ Tail(old1) \in Seq(Steps) /\ Len(Tail(old1)) = Len(old1) - 1
      /\ \A k \in 1..Len(Tail(old1)) : k + 1 \in 1..Len(old1) /\ Tail(old1)[k] = old1[k + 1]
  BY <1>1
<1>4. left \in Seq(Steps)
  BY <1>3
<1>5. \A k \in 1..Len(left) : (k \in 1..Len(q) /\ left[k] = q[k])
        \/ (k - Len(q) \in 1..Len(Tail(old1)) /\ left[k] = Tail(old1)[k - Len(q)])
  BY <1>3
<1>6. OfSession(left)
  BY <1>1, <1>3, <1>5 DEF OfSession
<1> HIDE DEF left
<1>7. Idle \in Handlers /\ Idle.stages = <<>> /\ OfSession(<<>>)
  BY DEF Idle, Handlers, Users, OfSession
<1>8. left # <<>> => [as |-> User, stages |-> left] \in Handlers
  BY <1>4, WhoType DEF Handlers
<1>9. h \in Handlers /\ OfSession(h.stages)
  BY <1>6, <1>7, <1>8
<1>10. h = IF left = <<>> THEN Idle ELSE [as |-> User, stages |-> left]
  OBVIOUS
<1> HIDE DEF h
<1>11. jobs' \in [Jobs -> Handlers] /\ jobs'[j] = h /\ \A i \in Jobs : i # j => jobs'[i] = jobs[i]
  BY <1>2, <1>9 DEF TypeInv, JobsInv
<1>12. JobsInv'
  <2> SUFFICES ASSUME NEW i \in Jobs PROVE OfSession(jobs'[i].stages)
    BY <1>11 DEF JobsInv, OfSession
  <2> QED BY <1>9, <1>11 DEF TypeInv, JobsInv
<1> QED BY <1>10, <1>11, <1>12 DEF left, old1

\* What a handler waits for.
LEMMA Awaited ==
  ASSUME TypeInv, NEW j \in Jobs, jobs[j].stages # <<>>
  PROVE  /\ jobs[j].stages[1] \in Steps /\ Target(j) \in SessionOrNone /\ jobs[j].as \in Users
         /\ jobs[j].stages[1].at = "history" => Target(j) \in Sessions
<1>1. jobs[j].stages \in Seq(Steps) /\ OfSession(jobs[j].stages) /\ jobs[j].as \in Users
  BY DEF TypeInv, JobsInv, Handlers
<1>2. 1 \in 1..Len(jobs[j].stages) /\ jobs[j].stages[1] \in Steps
  BY <1>1
<1> QED BY <1>1, <1>2 DEF Target, OfSession, Steps

\* The steps that handlers go on with.
LEMMA NextSteps ==
  /\ <<>> \in Seq(Steps) /\ OfSession(<<>>)
  /\ \A at \in Ats : Stage(at, None) \in Steps
  /\ \A at \in Ats, s \in SessionOrNone : Stage(at, s) \in Steps /\ Stage(at, s).at = at /\ Stage(at, s).session = s
  /\ \A q : FallBack(q) \in {Stage("mru", None), Stage("create", None)}
<1>1. <<>> \in Seq(Steps) /\ OfSession(<<>>)
  BY DEF OfSession
<1> QED BY <1>1 DEF Stage, Steps, SessionOrNone, FallBack

LEMMA OneStep ==
  ASSUME NEW at \in Ats, NEW s \in SessionOrNone, at = "history" => s \in Sessions
  PROVE  <<Stage(at, s)>> \in Seq(Steps) /\ OfSession(<<Stage(at, s)>>)
<1>1. Stage(at, s) \in Steps /\ Stage(at, s).at = at /\ Stage(at, s).session = s
  BY NextSteps
<1> HIDE DEF Stage
<1>2. Len(<<Stage(at, s)>>) = 1 /\ <<Stage(at, s)>>[1] = Stage(at, s)
  OBVIOUS
<1> QED BY <1>1, <1>2 DEF OfSession

LEMMA TwoSteps ==
  ASSUME NEW at \in Ats, NEW s \in SessionOrNone, at = "history" => s \in Sessions
  PROVE  <<Stage(at, s), Stage("list", None)>> \in Seq(Steps) /\ OfSession(<<Stage(at, s), Stage("list", None)>>)
<1> DEFINE a == Stage(at, s)
           b == Stage("list", None)
<1>1. a \in Steps /\ a.at = at /\ a.session = s /\ b \in Steps /\ b.at = "list"
  BY NextSteps DEF Ats, SessionOrNone
<1> HIDE DEF a, b
<1>2. Len(<<a, b>>) = 2 /\ <<a, b>>[1] = a /\ <<a, b>>[2] = b /\ <<a, b>> \in Seq(Steps)
  BY <1>1
<1>3. OfSession(<<a, b>>)
  BY <1>1, <1>2 DEF OfSession
<1> QED BY <1>2, <1>3 DEF a, b

LEMMA BornType ==
  ASSUME TypeInv, NEW s \in Sessions, NEW user \in Users, Born(s, user)
  PROVE  /\ status' \in [Sessions -> {"unborn", "open", "closed", "gone"}]
         /\ owner' \in [Sessions -> Users]
BY DEF TypeInv, Born

LEMMA TypeAnswer ==
  ASSUME TypeInv, NEW j \in Jobs, Answer(j)
  PROVE  TypeInv'
<1> USE DEF SessionOrNone
<1>1. ASSUME NEW at \in Ats, Awaits(j, at), NEW q \in Seq(Steps), OfSession(q), Continue(j, q) PROVE JobsInv'
  BY <1>1, ContinueType DEF Awaits
<1>2. \A at : Awaits(j, at) => Target(j) \in SessionOrNone /\ jobs[j].as \in Users
  BY Awaited DEF Awaits
<1>3. \A user : Visible(user) \subseteq Sessions
  BY DEF Visible
<1>4. {"detect", "whoami", "stored", "mru", "create", "push", "pushShown", "resumed", "mode",
        "history", "refresh", "new", "list", "delete", "rename", "reset"} = Ats
  BY DEF Ats
<1>5. <<>> \in Seq(Steps) /\ OfSession(<<>>)
  BY NextSteps
<1>6. ASSUME NEW at \in Ats, at # "history", NEW t \in SessionOrNone
      PROVE  <<Stage(at, t)>> \in Seq(Steps) /\ OfSession(<<Stage(at, t)>>)
  BY <1>6, OneStep
<1>7. \A q : <<FallBack(q)>> \in Seq(Steps) /\ OfSession(<<FallBack(q)>>)
  BY <1>4, <1>6 DEF FallBack
<1>8. CASE Detected(j)
  <2>1. JobsInv'
    BY <1>1, <1>4, <1>5, <1>6, <1>8 DEF Detected
  <2>2. {fp', name', gmFp', gmName'} \subseteq BOOLEAN
    BY <1>8 DEF Detected, FromStore, self, TypeInv
  <2> QED BY <1>8, <2>1, <2>2 DEF Detected, bridge, view, TypeInv, StoreInv
<1>9. CASE WhoAmI(j)
  <2>1. JobsInv'
    BY <1>1, <1>4, <1>5, <1>9 DEF WhoAmI
  <2>2. {fp', name', gmFp', gmName'} \subseteq BOOLEAN
    BY <1>9 DEF WhoAmI, FromStore, TypeInv
  <2> QED BY <1>9, <2>1, <2>2 DEF WhoAmI, bridge, view, TypeInv, StoreInv
<1>10. CASE Stored(j)
  <2>1. JobsInv'
    <3>1. Target(j) \in SessionOrNone /\ Awaits(j, "stored")
      BY <1>2, <1>10 DEF Stored
    <3>2. Continue(j, <<Stage("push", Target(j))>>) \/ Continue(j, <<FallBack(mru)>>)
      BY <1>10 DEF Stored
    <3> QED BY <1>1, <1>4, <1>6, <1>7, <3>1, <3>2
  <2>2. list' \in SUBSET Sessions /\ sid' \in SessionOrNone
    BY <1>2, <1>3, <1>10 DEF Stored, TypeInv
  <2> QED BY <1>10, <2>1, <2>2 DEF Stored, bridge, self, TypeInv, StoreInv
<1>11. CASE Recent(j)
  <2>1. JobsInv'
    BY <1>1, <1>4, <1>6, <1>11 DEF Recent
  <2>2. list' \in SUBSET Sessions
    BY <1>3, <1>11 DEF Recent, TypeInv
  <2>3. sid' \in SessionOrNone /\ StoreInv'
    <3>1. CASE UNCHANGED <<sid, gm>>
      BY <3>1 DEF TypeInv, StoreInv
    <3>2. CASE mru[1] \in Sessions /\ Adopt(mru[1])
      BY <3>2, AdoptStores
    <3> QED BY <1>3, <1>11, <3>1, <3>2 DEF Recent
  <2> QED BY <1>11, <2>1, <2>2, <2>3 DEF Recent, bridge, self, TypeInv
<1>12. CASE Created(j)
  <2>1. JobsInv'
    BY <1>1, <1>4, <1>5, <1>6, <1>12 DEF Created
  <2>2. sid' \in SessionOrNone /\ StoreInv'
    <3>1. CASE UNCHANGED <<sid, gm>>
      BY <3>1 DEF TypeInv, StoreInv
    <3>2. ASSUME NEW s \in SessionOrNone, Adopt(s) PROVE sid' \in SessionOrNone /\ StoreInv'
      BY <3>2, AdoptStores
    <3> QED BY <1>12, <3>1, <3>2 DEF Created
  <2>3. status' \in [Sessions -> {"unborn", "open", "closed", "gone"}] /\ owner' \in [Sessions -> Users]
    <3>1. CASE UNCHANGED bridge
      BY <3>1 DEF bridge, TypeInv
    <3> QED BY <1>2, <1>12, <3>1, BornType DEF Created
  <2> QED BY <1>12, <2>1, <2>2, <2>3 DEF Created, self, TypeInv
<1>13. CASE Synced(j)
  <2>1. JobsInv'
    BY <1>1, <1>4, <1>5, <1>13 DEF Synced
  <2>2. mru' \in Seq(Sessions) /\ Sound(mru') /\ StoreInv'
    <3>1. CASE UNCHANGED <<mru, gm>>
      BY <3>1 DEF TypeInv, StoreInv
    <3>2. ASSUME NEW s \in SessionOrNone, PushMRU(s) PROVE mru' \in Seq(Sessions) /\ Sound(mru') /\ StoreInv'
      BY <3>2, PushMRUStores
    <3>3. sid \in SessionOrNone
      BY DEF TypeInv
    <3> QED BY <1>2, <1>13, <3>1, <3>2, <3>3 DEF Synced
  <2> QED BY <1>13, <2>1, <2>2 DEF Synced, bridge, self, TypeInv
<1>14. CASE History(j)
  <2>1. JobsInv'
    BY <1>1, <1>4, <1>6, <1>14 DEF History
  <2>2. Target(j) \in Sessions
    BY <1>14, Awaited DEF History, Awaits
  <2>3. input' \in SUBSET Sessions
    <3>1. Prefix \in StoragePrefixes /\ gm[Prefix] \in Store
      BY WhoType DEF TypeInv, StoreInv
    <3> QED BY <1>14, <2>2, <3>1 DEF History, RestoreDraft, Store, TypeInv
  <2> QED BY <1>14, <2>1, <2>3 DEF History, bridge, self, TypeInv, StoreInv
<1>15. CASE CreatedNew(j)
  <2>1. CASE UNCHANGED <<bridge, sid, mru, gm>> /\ Continue(j, <<>>)
    <3>1. JobsInv'
      BY <1>1, <1>4, <1>5, <1>15, <2>1 DEF CreatedNew
    <3> QED BY <1>15, <2>1, <3>1 DEF CreatedNew, bridge, self, TypeInv, StoreInv
  <2>2. ASSUME NEW s \in Sessions, Born(s, jobs[j].as), MoveTo(s, sid),
               Continue(j, <<Stage("history", s), Stage("list", None)>>)
        PROVE  TypeInv'
    <3>1. JobsInv'
      BY <1>1, <1>4, <1>15, <2>2, TwoSteps DEF CreatedNew
    <3>2. jobs[j].as \in Users
      BY <1>2, <1>15 DEF CreatedNew
    <3>3. status' \in [Sessions -> {"unborn", "open", "closed", "gone"}] /\ owner' \in [Sessions -> Users]
      BY <2>2, <3>2, BornType
    <3>4. sid' = s /\ mru' \in Seq(Sessions) /\ Sound(mru') /\ StoreInv'
      BY <2>2, MoveToStores
    <3> QED BY <1>15, <3>1, <3>3, <3>4 DEF CreatedNew, self, TypeInv
  <2> QED BY <1>15, <2>1, <2>2 DEF CreatedNew
<1>16. CASE Listed(j)
  <2>1. JobsInv'
    BY <1>1, <1>4, <1>5, <1>16 DEF Listed
  <2>2. list' \in SUBSET Sessions
    BY <1>3, <1>16 DEF Listed
  <2> QED BY <1>16, <2>1, <2>2 DEF Listed, bridge, self, TypeInv, StoreInv
<1>17. CASE Renamed(j)
  <2>1. JobsInv'
    BY <1>1, <1>4, <1>5, <1>6, <1>17 DEF Renamed
  <2>2. mru' \in Seq(Sessions) /\ Sound(mru') /\ StoreInv'
    <3>1. CASE UNCHANGED <<mru, gm>>
      BY <3>1 DEF TypeInv, StoreInv
    <3>2. CASE PushMRU(sid)
      BY <3>2, PushMRUStores DEF TypeInv
    <3> QED BY <1>17, <3>1, <3>2 DEF Renamed
  <2> QED BY <1>17, <2>1, <2>2 DEF Renamed, bridge, self, TypeInv
<1>18. CASE WasReset(j)
  <2>1. JobsInv'
    BY <1>1, <1>4, <1>5, <1>18 DEF WasReset
  <2>2. sid' \in SessionOrNone /\ StoreInv'
    <3>1. CASE UNCHANGED <<sid, gm>>
      BY <3>1 DEF TypeInv, StoreInv
    <3>2. ASSUME NEW s \in SessionOrNone, Adopt(s) PROVE sid' \in SessionOrNone /\ StoreInv'
      BY <3>2, AdoptStores
    <3> QED BY <1>18, <3>1, <3>2 DEF WasReset
  <2>3. status' \in [Sessions -> {"unborn", "open", "closed", "gone"}] /\ owner' \in [Sessions -> Users]
    BY <1>2, <1>18 DEF WasReset, bridge, TypeInv
  <2> QED BY <1>18, <2>1, <2>2, <2>3 DEF WasReset, self, TypeInv
<1>19. CASE Deleted(j)
  <2> DEFINE s == Target(j)
             next == IF Without(s) = <<>> THEN None ELSE Without(s)[1]
  <2>1. s \in SessionOrNone /\ Awaits(j, "delete")
    BY <1>2, <1>19 DEF Deleted
  <2>2. CASE UNCHANGED <<status, mru, gm, sid>> /\ Continue(j, <<>>)
    <3>1. JobsInv'
      BY <1>1, <1>4, <1>5, <2>1, <2>2
    <3> QED BY <1>19, <2>2, <3>1 DEF Deleted, self, TypeInv, StoreInv
  <2>3. CASE /\ status' = IF owner[s] = jobs[j].as THEN [status EXCEPT ![s] = "gone"] ELSE status
             /\ mru' = Without(s)
             /\ IF sid = s THEN Leave(j, s)
                ELSE /\ gm' = [gm EXCEPT ![Prefix] = Forget(s)]
                     /\ Continue(j, <<Stage("list", None)>>)
                     /\ UNCHANGED sid
    <3>1. mru' \in Seq(Sessions) /\ Sound(mru')
      <4>1. mru \in Seq(Sessions) /\ Len(mru) <= MruCap /\ Unique(mru) /\ Len(mru) \in Nat /\ MruCap \in Nat
        BY ClientAssumption DEF TypeInv, Sound
      <4>2. mru' \in Seq(Sessions) /\ Len(mru') <= Len(mru) /\ Unique(mru')
        BY <2>3, <4>1, WithoutType
      <4>3. Len(mru') \in Nat
        BY <4>2
      <4> QED BY <4>1, <4>2, <4>3 DEF Sound
    <3>2. status' \in [Sessions -> {"unborn", "open", "closed", "gone"}] /\ owner' = owner
      BY <1>19, <2>3 DEF Deleted, TypeInv
    <3>3. CASE sid # s
      <4>1. JobsInv'
        BY <1>1, <1>4, <1>6, <2>1, <2>3, <3>3
      <4>2. StoreInv'
        <5>1. Prefix \in StoragePrefixes /\ gm[Prefix].sid \in SessionOrNone
          BY WhoType DEF TypeInv, StoreInv, Store
        <5> QED BY <2>1, <2>3, <3>3, <5>1, ForgetStores DEF Forgotten
      <4> QED BY <1>19, <2>3, <3>1, <3>2, <3>3, <4>1, <4>2 DEF Deleted, self, TypeInv
    <3>4. CASE sid = s
      <4>1. next \in SessionOrNone /\ (next # None => next \in Sessions)
        BY <2>3, <3>1, <3>4
      <4>2. /\ sid' = next
            /\ gm' = [gm EXCEPT ![Prefix] = [Forget(s) EXCEPT !.sid = next]]
            /\ Continue(j, <<IF next = None THEN FallBack(<<>>) ELSE Stage("history", next), Stage("list", None)>>)
        BY <2>3, <3>4 DEF Leave
      <4> HIDE DEF next
      <4>3. StoreInv'
        BY <2>1, <4>1, <4>2, ForgetStores DEF Forgotten
      <4>4. FallBack(<<>>) = Stage("create", None)
        BY DEF FallBack
      <4>5. JobsInv'
        <5>1. CASE next = None
          BY <1>1, <1>4, <2>1, <4>2, <4>4, <5>1, TwoSteps
        <5>2. CASE next # None
          BY <1>1, <1>4, <2>1, <4>1, <4>2, <5>2, TwoSteps
        <5> QED BY <5>1, <5>2
      <4> QED BY <1>19, <3>1, <3>2, <4>1, <4>2, <4>3, <4>5 DEF Deleted, self, TypeInv
    <3> QED BY <3>3, <3>4
  <2> QED BY <1>19, <2>2, <2>3 DEF Deleted
<1> QED BY <1>8, <1>9, <1>10, <1>11, <1>12, <1>13, <1>14, <1>15, <1>16, <1>17, <1>18, <1>19 DEF Answer

LEMMA TypeClick ==
  ASSUME TypeInv, NEW j \in Jobs, Click(j)
  PROVE  TypeInv'
<1> USE DEF SessionOrNone
<1>1. ASSUME NEW at \in Ats, NEW s \in SessionOrNone, at = "history" => s \in Sessions,
             Begin(j, <<Stage(at, s)>>)
      PROVE  JobsInv'
  <2>1. <<Stage(at, s)>> \in Seq(Steps) /\ OfSession(<<Stage(at, s)>>)
    BY <1>1, OneStep
  <2> QED BY <1>1, <2>1, BeginType
<1>2. {"stored", "mru", "create", "history", "refresh", "new", "delete", "rename", "reset"} \subseteq Ats
  BY DEF Ats
<1>3. CASE OpenPanel(j)
  <2>1. gm[Prefix] \in Store /\ Sound(gm[Prefix].mru)
    BY WhoType DEF TypeInv, StoreInv
  <2>2. gm[Prefix].sid \in SessionOrNone /\ gm[Prefix].mru \in Seq(Sessions)
    BY <2>1 DEF Store
  <2>3. JobsInv'
    <3>1. CASE gm[Prefix].sid # None
      BY <1>1, <1>2, <1>3, <2>2, <3>1 DEF OpenPanel, InitStages
    <3>2. CASE gm[Prefix].sid = None
      BY <1>1, <1>2, <1>3, <3>2 DEF OpenPanel, InitStages, FallBack
    <3> QED BY <3>1, <3>2
  <2> QED BY <1>3, <2>1, <2>2, <2>3 DEF OpenPanel, bridge, self, TypeInv, StoreInv
<1>4. CASE New(j) \/ Refresh(j)
  <2>1. JobsInv'
    BY <1>1, <1>2, <1>4 DEF New, Refresh
  <2> QED BY <1>4, <2>1 DEF New, Refresh, bridge, self, view, TypeInv, StoreInv
<1>5. CASE Rename(j)
  <2>1. JobsInv'
    BY <1>1, <1>2, <1>5 DEF Rename, TypeInv
  <2> QED BY <1>5, <2>1 DEF Rename, bridge, self, view, TypeInv, StoreInv
<1>6. CASE Reset(j)
  <2>1. JobsInv'
    BY <1>1, <1>2, <1>6 DEF Reset, TypeInv
  <2>2. input' \in SUBSET Sessions
    BY <1>6 DEF Reset, TypeInv
  <2> QED BY <1>6, <2>1, <2>2 DEF Reset, bridge, self, TypeInv, StoreInv
<1>7. ASSUME NEW s \in Sessions, Switch(j, s) PROVE TypeInv'
  <2>1. JobsInv'
    BY <1>1, <1>2, <1>7 DEF Switch
  <2>2. sid' = s /\ mru' \in Seq(Sessions) /\ Sound(mru') /\ StoreInv'
    BY <1>7, MoveToStores DEF Switch
  <2> QED BY <1>7, <2>1, <2>2 DEF Switch, bridge, self, TypeInv
<1>8. ASSUME NEW s \in Sessions, Delete(j, s) PROVE TypeInv'
  <2>1. JobsInv'
    BY <1>1, <1>2, <1>8 DEF Delete
  <2> QED BY <1>8, <2>1 DEF Delete, bridge, self, view, TypeInv, StoreInv
<1> QED BY <1>3, <1>4, <1>5, <1>6, <1>7, <1>8 DEF Click

\* The handlers when the page has just been loaded.
Loaded == \E j \in Jobs : jobs =
  [i \in Jobs |-> IF i = j THEN [as |-> "legacy", stages |-> <<Stage("detect", None)>>] ELSE Idle]

LEMMA LoadedType == Loaded => JobsInv
<1> SUFFICES ASSUME Loaded PROVE JobsInv
  OBVIOUS
<1> DEFINE first == [as |-> "legacy", stages |-> <<Stage("detect", None)>>]
<1>1. <<Stage("detect", None)>> \in Seq(Steps) /\ OfSession(<<Stage("detect", None)>>)
  BY OneStep DEF Ats, SessionOrNone
<1>2. first \in Handlers /\ OfSession(first.stages)
  BY <1>1 DEF Handlers, Users
<1>3. Idle \in Handlers /\ Idle.stages = <<>> /\ OfSession(<<>>)
  BY DEF Idle, Handlers, Users, OfSession
<1>4. PICK j \in Jobs : jobs = [i \in Jobs |-> IF i = j THEN first ELSE Idle]
  BY DEF Loaded
<1> HIDE DEF first
<1> QED BY <1>2, <1>3, <1>4 DEF JobsInv

\* A list that another window stores is sound as one of this window is.
LEMMA RecentType == \A q \in RecentLists : q \in Seq(Sessions) /\ Sound(q)
<1> SUFFICES ASSUME NEW n \in 0..MruCap, NEW q \in [1..n -> Sessions],
                    \A i, k \in DOMAIN q : q[i] = q[k] => i = k
             PROVE  q \in Seq(Sessions) /\ Sound(q)
  BY DEF RecentLists
<1>1. n \in Nat /\ n <= MruCap
  BY ClientAssumption
<1>2. q \in Seq(Sessions) /\ Len(q) = n /\ DOMAIN q = 1..n
  BY <1>1
<1> QED BY <1>1, <1>2 DEF Sound, Unique

LEMMA OtherWrites ==
  ASSUME TypeInv, NEW p \in OtherPrefixes, OtherStores(p)
  PROVE  StoreInv'
<1>1. p \in StoragePrefixes /\ gm \in [StoragePrefixes -> Store] /\ gm[p] \in Store
  BY ClientAssumption DEF StoragePrefixes, TypeInv, StoreInv
<1>2. PICK s \in SessionOrNone, recent \in RecentLists, from \in Sessions :
        \E text \in {gm[p].draft[from], {}, {from}} :
          gm' = [gm EXCEPT ![p] = [sid |-> s, mru |-> recent, draft |-> [@.draft EXCEPT ![from] = text]]]
  BY DEF OtherStores, SessionOrNone
<1>3. PICK text \in {gm[p].draft[from], {}, {from}} :
        gm' = [gm EXCEPT ![p] = [sid |-> s, mru |-> recent, draft |-> [@.draft EXCEPT ![from] = text]]]
  BY <1>2
<1> DEFINE d == [gm[p].draft EXCEPT ![from] = text]
           r == [sid |-> s, mru |-> recent, draft |-> d]
<1>4. gm[p].draft \in [Sessions -> SUBSET Sessions]
  BY <1>1 DEF Store
<1>5. text \in SUBSET Sessions
  BY <1>3, <1>4
<1>6. d \in [Sessions -> SUBSET Sessions]
  BY <1>4, <1>5
<1>7. gm' = [gm EXCEPT ![p] = r]
  BY <1>1, <1>3
<1> HIDE DEF d
<1>8. r \in Store /\ r.mru = recent /\ Sound(recent)
  BY <1>6, RecentType DEF Store
<1> HIDE DEF r
<1> QED BY <1>1, <1>7, <1>8 DEF TypeInv, StoreInv

LEMMA TypePage ==
  ASSUME TypeInv,
         Page \/ Elsewhere \/ SessionClosed
  PROVE  TypeInv'
<1> USE DEF SessionOrNone
<1>1. ASSUME UNCHANGED jobs PROVE JobsInv'
  BY <1>1 DEF JobsInv, TypeInv
<1>2. CASE Type \/ Send
  BY <1>1, <1>2 DEF Type, Send, bridge, self, TypeInv, StoreInv
<1>3. CASE SetDisplayName
  BY <1>1, <1>3 DEF SetDisplayName, bridge, view, TypeInv, StoreInv
<1>4. CASE SessionClosed
  BY <1>1, <1>4, AdoptStores DEF SessionClosed, bridge, self, TypeInv
<1>5. CASE Reload
  <2>1. JobsInv'
    <3>1. Loaded'
      BY <1>5 DEF Reload, Loaded
    <3>2. (Loaded => JobsInv)'
      BY LoadedType, PTL
    <3> QED BY <3>1, <3>2
  <2>2. mru' = <<>> /\ Sound(mru') /\ mru' \in Seq(Sessions)
    BY <1>5, ClientAssumption DEF Reload, Sound, Unique
  <2>3. {list', input'} \subseteq SUBSET Sessions /\ sid' \in SessionOrNone /\ {fp', name'} \subseteq BOOLEAN
    BY <1>5 DEF Reload
  <2>4. StoreInv'
    BY <1>5 DEF Reload, TypeInv, StoreInv
  <2>5. /\ status' \in [Sessions -> {"unborn", "open", "closed", "gone"}]
        /\ owner' \in [Sessions -> Users] /\ {gmFp', gmName'} \subseteq BOOLEAN
    BY <1>5 DEF Reload, bridge, TypeInv
  <2> HIDE DEF SessionOrNone
  <2> QED BY <2>1, <2>2, <2>3, <2>4, <2>5 DEF TypeInv
<1>6. ASSUME NEW s \in Sessions, End(s) PROVE TypeInv'
  BY <1>1, <1>6 DEF End, self, view, TypeInv, StoreInv
<1>7. ASSUME NEW s \in Sessions, NEW user \in Users, Other(s, user) PROVE TypeInv'
  BY <1>1, <1>7, BornType DEF Other, self, view, TypeInv, StoreInv
<1>8. CASE OtherNames
  BY <1>1, <1>8 DEF OtherNames, bridge, view, TypeInv, StoreInv
<1>9. ASSUME NEW p \in OtherPrefixes, OtherStores(p) PROVE TypeInv'
  <2>1. StoreInv'
    BY <1>9, OtherWrites
  <2> QED BY <1>1, <1>9, <2>1 DEF OtherStores, bridge, self, view, TypeInv
<1> QED BY <1>2, <1>3, <1>4, <1>5, <1>6, <1>7, <1>8, <1>9 DEF Page, Elsewhere

LEMMA TypeInit == Init => TypeInv
<1> SUFFICES ASSUME Init PROVE TypeInv
  OBVIOUS
<1> DEFINE empty == [p \in StoragePrefixes |-> EmptyStore]
           r == [EmptyStore EXCEPT !.sid = old]
<1>1. EmptyStore \in Store /\ EmptyStore.mru = <<>> /\ EmptyStore.sid = None
  BY DEF EmptyStore, Store, SessionOrNone
<1>2. Sound(<<>>)
  BY ClientAssumption DEF Sound, Unique
<1>3. old \in SessionOrNone /\ gm = Migrate(empty, old)
  BY DEF Init, SessionOrNone
<1>4. r \in Store /\ r.mru = <<>>
  BY <1>1, <1>3, StoreWrites
<1>5. "legacy" \in StoragePrefixes /\ empty["legacy"] = EmptyStore
  BY DEF StoragePrefixes
<1>6. gm = [empty EXCEPT !["legacy"].sid = IF old # None /\ @ = None THEN old ELSE @]
  BY <1>3 DEF Migrate
<1> HIDE DEF EmptyStore
<1>7. gm = [empty EXCEPT !["legacy"] = [EmptyStore EXCEPT !.sid = IF old # None THEN old ELSE @]]
  BY <1>1, <1>5, <1>6
<1>8. gm = [empty EXCEPT !["legacy"] = r]
  BY <1>1, <1>7
<1> HIDE DEF r
<1>9. StoreInv
  BY <1>1, <1>2, <1>4, <1>5, <1>8 DEF StoreInv
<1>10. JobsInv
  BY LoadedType DEF Init, Loaded
<1>11. /\ status \in [Sessions -> {"unborn", "open", "closed", "gone"}]
       /\ owner \in [Sessions -> Users]
  BY DEF Init, Users
<1>12. {list, input} \subseteq SUBSET Sessions /\ sid \in SessionOrNone /\ {fp, name, gmFp, gmName} \subseteq BOOLEAN
  BY DEF Init, SessionOrNone
<1>13. mru \in Seq(Sessions) /\ Sound(mru)
  BY <1>2 DEF Init
<1> QED BY <1>9, <1>10, <1>11, <1>12, <1>13 DEF TypeInv

LEMMA TypeNext == TypeInv /\ [Next]_vars => TypeInv'
<1>1. ASSUME TypeInv, UNCHANGED vars PROVE TypeInv'
  BY <1>1 DEF vars, bridge, self, view, TypeInv, StoreInv, JobsInv
<1> QED BY <1>1, TypeAnswer, TypeClick, TypePage DEF Next

LEMMA TypeInvariance == Spec => []TypeInv
<1> QED BY TypeInit, TypeNext, PTL DEF Spec

LEMMA LostType == Spec => [](lost \in BOOLEAN)
<1>1. Init => lost \in BOOLEAN
  BY DEF Init
<1>2. lost \in BOOLEAN /\ [Next]_vars => (lost \in BOOLEAN)'
  BY DEF Next, SessionClosed, vars
<1> QED BY <1>1, <1>2, PTL DEF Spec

\* Whatever handlers overlap, and whoever the user is and does not wait for: every variable holds
\* what it may; neither an answer nor another window puts what is no session among the recent ones.
THEOREM TypeTheorem == Spec => []TypeOK
<1>1. TypeInv /\ lost \in BOOLEAN => TypeOK
  <2> SUFFICES ASSUME TypeInv, lost \in BOOLEAN PROVE TypeOK
    OBVIOUS
  <2>1. ASSUME NEW p \in StoragePrefixes
        PROVE  /\ gm[p].sid \in Sessions \cup {None}
               /\ gm[p].mru \in Seq(Sessions)
               /\ gm[p].draft \in [Sessions -> SUBSET Sessions]
    BY DEF TypeInv, StoreInv, Store, SessionOrNone
  <2>2. ASSUME NEW j \in Jobs
        PROVE  /\ jobs[j].as \in Users
               /\ jobs[j].stages \in Seq([at : Ats, session : Sessions \cup {None}])
    BY DEF TypeInv, JobsInv, Handlers, Steps, SessionOrNone
  <2> QED BY <2>1, <2>2 DEF TypeInv, TypeOK, SessionOrNone
<1> QED BY <1>1, TypeInvariance, LostType, PTL

\* No session is among the recent ones twice, and they stay within their bound, in memory and in
\* the storage of every prefix, for any bound, any sessions and handlers in any order.
THEOREM MruTheorem == Spec => []MruIsSound
<1>1. TypeInv => MruIsSound
  <2> SUFFICES ASSUME TypeInv, NEW recent \in {mru, gm["legacy"].mru, gm["fp"].mru}
               PROVE  Len(recent) <= MruCap /\ \A i, j \in 1..Len(recent) : recent[i] = recent[j] => i = j
    BY DEF MruIsSound
  <2>1. Sound(recent)
    BY DEF TypeInv, StoreInv, StoragePrefixes
  <2> QED BY <2>1 DEF Sound, Unique
<1> QED BY <1>1, TypeInvariance, PTL
=============================================================================
