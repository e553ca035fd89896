------------------------ MODULE SchemaTracker_proofs ------------------------
(***************************************************************************)
(* Theorems about the schema tracker: types, the lookup by position, and   *)
(* what its history says of the rows and of the offset.                    *)
(***************************************************************************)
EXTENDS SchemaTracker, Lists_proofs, FiniteSetTheorems

Sorted(es) == \A i, j \in DOMAIN es : i < j => es[i].pos <= es[j].pos

(* What the log holds: a row leaves the schema as it is, a statement was   *)
(* legal and made the schema behind it.                                    *)
Records == [type : {"row"}, schema : Schemas]
           \cup [type : {"ddl"}, ddl : Statements, schema : Schemas]
LogInv ==
    /\ log \in Seq(Records)
    /\ \A p \in DOMAIN log :
          LET before == TrueSchema(p - 1)
          IN  IF log[p].type = "row"
              THEN log[p].schema = before /\ before # NoSchema
              ELSE Legal(log[p].ddl, before) /\ log[p].schema = SourceDDL(log[p].ddl, before)
    /\ \A p \in 0..Now : TrueSchema(p) = NoSchema \/ TrueSchema(p).columns # <<>>

(* The entries of one table, in order of position, none later than n.      *)
Entry == [pos : Nat, schema : Schemas]
Good(es, n) == es \in Seq(Entry) /\ Sorted(es) /\ \A i \in DOMAIN es : es[i].pos <= n

FilesInv == Good(history, Now) /\ Good(persisted, Now) /\ Good(tmpFile, Now)

(* What the writer and the reader may be doing, and how far they are.      *)
WriterInv ==
    /\ writer \in {"idle", "opened", "dumped"}
    /\ writer = "dumped" => tmpFile = history
    /\ writer # "idle" => reader \in {"snapshot", "streaming"}
    /\ writer # "idle" /\ reader = "streaming" => next \in 1..Now /\ log[next].type = "ddl"

ReaderInv ==
    /\ reader \in {"off", "position", "snapshot", "streaming", "dead"}
    /\ next \in 0..(Now + 1) /\ snapshotAt \in 0..Now /\ fetchedAt \in snapshotAt..Now
    /\ offset = NoOffset \/ offset \in snapshotAt..Now
    /\ reader = "streaming" => offset # NoOffset /\ next >= 1 /\ next >= snapshotAt
    /\ reader \in {"position", "snapshot"} => offset = NoOffset
    /\ reader = "position" => fetchedAt = snapshotAt
    /\ reader = "off" => next = 0

EventInv ==
    /\ event.type \in {"none", "row", "schema"}
    /\ event.type = "row" =>
          event.pos \in 1..Now /\ event.named \in BOOLEAN
          /\ reader \notin {"off", "position", "snapshot"}

Inv == LogInv /\ Now <= MaxLog /\ FilesInv /\ WriterInv /\ ReaderInv /\ EventInv
       /\ crashes \in 0..MaxCrashes

(* What of it a position of the log says: the schema behind it, whether a  *)
(* table was created since at, and whether s is that schema.  (The log is  *)
(* an argument, to be able to speak of the one behind a step.)             *)
SchemaOf(lg, p) == IF p = 0 THEN InitialSchema ELSE lg[p].schema
IsDDL(lg, q) == lg[q].type = "ddl"
CreatedSince(lg, at, p) == \E q \in (at + 1)..p : IsDDL(lg, q) /\ lg[q].ddl.kind = "create"
Right(lg, at, s, p) ==
    CreatedSince(lg, at, p) \/ SchemaOf(lg, p) = NoSchema \/ SameLayout(s, SchemaOf(lg, p))

EntriesRight(lg, at, es) ==
    \A i \in DOMAIN es : es[i].pos >= at => Right(lg, at, es[i].schema, es[i].pos)

HasEntry(es, q)  == \E i \in DOMAIN es : es[i].pos = q
NoneLater(es, n) == \A i \in DOMAIN es : es[i].pos <= n

(* es has an entry for the snapshot, if it found the table, and for every  *)
(* statement from there to r; and no other behind r.                       *)
Complete(lg, at, es, r) ==
    /\ SchemaOf(lg, at) # NoSchema => HasEntry(es, at)
    /\ \A q \in (at + 1)..r : IsDDL(lg, q) => HasEntry(es, q)
    /\ NoneLater(es, r)

Reaches(lg, at, off, es, p) ==
    \E r \in Nat : p <= r /\ r <= Len(lg) /\ at <= r /\ off <= r /\ Complete(lg, at, es, r)

EventRight(lg, at, ev) ==
    ev.type = "row" /\ ~CreatedSince(lg, at, ev.pos) =>
        ev.named /\ SameLayout(ev, SchemaOf(lg, ev.pos))

(* No statement was executed between two positions (see Quiet).            *)
QuietIn(lg, at, f) == \A q \in (at + 1)..f : ~IsDDL(lg, q)

(* Before the first offset nothing but the snapshot is in the history.     *)
FirstInv ==
    offset = NoOffset => NoneLater(history, snapshotAt) /\ NoneLater(persisted, snapshotAt)

(* The history is right wherever it has entries from the snapshot on; it   *)
(* is never behind the reader, and the file is never behind the offset.    *)
RightInv ==
    /\ EntriesRight(log, snapshotAt, history) /\ EntriesRight(log, snapshotAt, persisted)
    /\ reader = "snapshot" =>
          /\ Complete(log, snapshotAt, history, snapshotAt)
          /\ writer = "idle" => Complete(log, snapshotAt, persisted, snapshotAt)
    /\ offset # NoOffset =>
          /\ Reaches(log, snapshotAt, offset, persisted, next - 1)
          /\ reader # "dead" =>
                Reaches(log, snapshotAt, offset, history,
                        IF writer = "idle" THEN next - 1 ELSE next)
    /\ EventRight(log, snapshotAt, event)

CoverInv == FirstInv /\ (QuietIn(log, snapshotAt, fetchedAt) => RightInv)

-----------------------------------------------------------------------------
(* Entries are inserted in order of position, and found by binary search.  *)
LEMMA PutIs ==
    ASSUME NEW es \in Seq(Entry), Sorted(es), NEW p \in Nat, NEW schema \in Schemas
    PROVE  /\ Put(es, p, schema) \in Seq(Entry)
           /\ Sorted(Put(es, p, schema))
           /\ Len(Put(es, p, schema)) = Len(es) + 1
           /\ \E k \in 1..Len(es) + 1 :
                 /\ Put(es, p, schema)[k] = [pos |-> p, schema |-> schema]
                 /\ \A i \in 1..k - 1 : Put(es, p, schema)[i] = es[i] /\ es[i].pos <= p
                 /\ \A i \in k..Len(es) : Put(es, p, schema)[i + 1] = es[i] /\ es[i].pos > p
<1>. DEFINE later == {i \in DOMAIN es : es[i].pos > p}
            k == IF later = {} THEN Len(es) + 1 ELSE Min(later)
            e == [pos |-> p, schema |-> schema]
            new == InsertAt(es, k, e)
<1>1. /\ Len(es) \in Nat /\ DOMAIN es = 1..Len(es)
      /\ \A i \in 1..Len(es) : es[i] \in Entry /\ es[i].pos \in Nat
  <2>1. \A e1 \in Entry : e1.pos \in Nat
    BY DEF Entry
  <2>. QED BY <2>1
<1>2. k \in 1..Len(es) + 1 /\ \A i \in 1..Len(es) : IF i < k THEN es[i].pos <= p ELSE es[i].pos > p
  <2>1. CASE later = {}
    BY <2>1, <1>1
  <2>2. CASE later # {}
    <3>1. later \subseteq Nat
      BY <1>1
    <3>2. k \in later /\ \A i \in later : k <= i
      BY <2>2, <3>1, MinIs
    <3>3. ASSUME NEW i \in 1..Len(es) PROVE IF i < k THEN es[i].pos <= p ELSE es[i].pos > p
      <4>1. k \in 1..Len(es) /\ es[k].pos > p
        BY <3>2, <1>1
      <4>2. CASE i < k
        <5>1. i \notin later
          <6>1. i \in Int /\ k \in Int
            BY <4>1, <1>1
          <6>2. i < k => ~(k <= i)
            BY <6>1
          <6>. QED BY <4>2, <6>2, <3>2
        <5>2. es[i].pos \in Nat /\ i \in DOMAIN es
          BY <1>1
        <5>. QED BY <5>1, <5>2, <4>2
      <4>3. CASE ~(i < k)
        <5>1. es[k].pos <= es[i].pos
          <6>1. k < i \/ k = i
            BY <4>3, <4>1, <1>1
          <6>2. es[k].pos \in Nat /\ k \in DOMAIN es /\ i \in DOMAIN es
            BY <4>1, <1>1
          <6>. QED BY <6>1, <6>2, <1>1 DEF Sorted
        <5>2. es[k].pos \in Nat /\ es[i].pos \in Nat
          BY <4>1, <1>1
        <5>3. es[i].pos > p
          BY <5>1, <5>2, <4>1
        <5>. QED BY <5>3, <4>3
      <4>. QED BY <4>2, <4>3
    <3>. QED BY <3>2, <3>3, <1>1
  <2>. QED BY <2>1, <2>2
<1>. HIDE DEF k
<1>3. e \in Entry
  BY DEF Entry
<1>4. /\ new \in Seq(Entry) /\ Len(new) = Len(es) + 1
      /\ \A i \in 1..Len(es) + 1 :
            new[i] = IF i < k THEN es[i] ELSE IF i = k THEN e ELSE es[i - 1]
  <2>1. \A j \in 1..Len(es) + 1, x \in Entry :
            /\ InsertAt(es, j, x) \in Seq(Entry)
            /\ Len(InsertAt(es, j, x)) = Len(es) + 1
            /\ \A i \in 1..Len(es) + 1 :
                  InsertAt(es, j, x)[i] = IF i < j THEN es[i] ELSE IF i = j THEN x ELSE es[i - 1]
    <3>. HIDE DEF new, later, e
    <3>. QED BY InsertAtIs
  <2>2. k \in 1..Len(es) + 1
    BY <1>2
  <2>. HIDE DEF e
  <2>. QED BY <2>1, <2>2, <1>3, Zenon
<1>5. Put(es, p, schema) = new
  BY DEF Put, k
<1>. HIDE DEF new
<1>6. ASSUME NEW i \in 1..Len(es) + 1, NEW j \in 1..Len(es) + 1, i < j
      PROVE  new[i].pos <= new[j].pos
  <2>1. new[i].pos \in Nat /\ new[j].pos \in Nat
    <3>1. new[i] \in Entry /\ new[j] \in Entry
      BY <1>4
    <3>. QED BY <3>1 DEF Entry
  <2>2. CASE j < k
    <3>1. i \in 1..Len(es) /\ j \in 1..Len(es) /\ i < k
      BY <2>2, <1>1, <1>2, <1>6
    <3>2. es[i].pos <= es[j].pos
      BY <3>1, <1>1, <1>6 DEF Sorted
    <3>3. new[i] = es[i] /\ new[j] = es[j]
      BY <3>1, <2>2, <1>4
    <3>. QED BY <3>2, <3>3
  <2>3. CASE j = k
    BY <2>3, <1>1, <1>2, <1>4, <1>6
  <2>4. CASE j > k /\ i < k
    <3>1. j - 1 \in 1..Len(es) /\ i \in 1..Len(es) /\ (i < j - 1 \/ i = j - 1)
      BY <2>4, <1>2
    <3>2. es[i].pos <= p /\ es[j - 1].pos > p
      BY <2>4, <3>1, <1>2
    <3>3. new[i] = es[i] /\ new[j] = es[j - 1]
      BY <2>4, <1>4, <1>2
    <3>. QED BY <3>2, <3>3, <2>1
  <2>5. CASE j > k /\ i = k
    <3>1. j - 1 \in 1..Len(es) /\ ~(j - 1 < k)
      BY <2>5, <1>2
    <3>2. new[i] = e /\ new[j] = es[j - 1] /\ es[j - 1].pos > p
      BY <2>5, <3>1, <1>4, <1>2
    <3>. QED BY <3>2, <2>1
  <2>6. CASE j > k /\ i > k
    <3>1. j - 1 \in 1..Len(es) /\ i - 1 \in 1..Len(es) /\ i - 1 < j - 1
      BY <2>6, <1>2, <1>6
    <3>2. new[i] = es[i - 1] /\ new[j] = es[j - 1]
      BY <2>6, <1>4, <1>2
    <3>. QED BY <3>1, <3>2, <1>1 DEF Sorted
  <2>. QED BY <2>2, <2>3, <2>4, <2>5, <2>6, <1>2
<1>7. Sorted(new)
  <2>1. DOMAIN new = 1..Len(es) + 1
    BY <1>4
  <2>. QED BY <2>1, <1>6 DEF Sorted
<1>8. /\ new[k] = e
      /\ \A i \in 1..k - 1 : new[i] = es[i] /\ es[i].pos <= p
      /\ \A i \in k..Len(es) : new[i + 1] = es[i] /\ es[i].pos > p
  <2>1. new[k] = e
    BY <1>2, <1>4, <1>1
  <2>2. ASSUME NEW i \in 1..k - 1 PROVE new[i] = es[i] /\ es[i].pos <= p
    <3>1. i \in 1..Len(es) /\ i \in 1..Len(es) + 1 /\ i < k
      BY <1>1, <1>2
    <3>. QED BY <3>1, <1>2, <1>4
  <2>3. ASSUME NEW i \in k..Len(es) PROVE new[i + 1] = es[i] /\ es[i].pos > p
    <3>1. /\ i \in 1..Len(es) /\ i + 1 \in 1..Len(es) + 1 /\ ~(i < k) /\ ~(i + 1 < k)
          /\ i + 1 # k /\ (i + 1) - 1 = i
      BY <1>1, <1>2
    <3>2. new[i + 1] = es[(i + 1) - 1]
      BY <3>1, <1>4
    <3>. QED BY <3>1, <3>2, <1>2
  <2>. QED BY <2>1, <2>2, <2>3
<1>. QED BY <1>2, <1>4, <1>5, <1>7, <1>8

(* The answer the binary search is on its way to: the last entry of the    *)
(* window at or before p.                                                  *)
UpTo(es, p, lo, hi) == {i \in lo..hi : es[i].pos <= p}
Answer(es, p, lo, hi, ans) == IF UpTo(es, p, lo, hi) = {} THEN ans ELSE Max(UpTo(es, p, lo, hi))

Windows(n) == (1..n + 1) \X (0..n) \X (1..n)
Half(es, p, at, f) ==
    LET mid == (at[1] + at[2]) \div 2
    IN IF at[1] > at[2] THEN at[3]
       ELSE IF es[mid].pos <= p THEN f[<<mid + 1, at[2], mid>>]
                                ELSE f[<<at[1], mid - 1, at[3]>>]

(* Half of the window, or the other half, holds the answer.                *)
LEMMA AnswerInHalf ==
    ASSUME NEW es \in Seq(Entry), Sorted(es), NEW p \in Nat,
           NEW lo \in 1..Len(es) + 1, NEW hi \in 0..Len(es), NEW ans \in 1..Len(es), lo <= hi
    PROVE  LET mid == (lo + hi) \div 2
           IN  /\ mid \in lo..hi
               /\ es[mid].pos <= p => Answer(es, p, lo, hi, ans) = Answer(es, p, mid + 1, hi, mid)
               /\ ~(es[mid].pos <= p) =>
                     Answer(es, p, lo, hi, ans) = Answer(es, p, lo, mid - 1, ans)
<1>. DEFINE n == Len(es)
            mid == (lo + hi) \div 2
            U == UpTo(es, p, lo, hi)
<1>1. n \in Nat /\ DOMAIN es = 1..n /\ \A i \in 1..n : es[i].pos \in Nat
  <2>1. \A e \in Entry : e.pos \in Nat
    BY DEF Entry
  <2>. QED BY <2>1
<1>2. lo \in Nat /\ hi \in Nat /\ lo >= 1 /\ hi <= n /\ lo <= hi
  BY <1>1
<1>3. mid \in lo..hi
  BY <1>2
<1>. HIDE DEF mid, n
<1>4. \A i, j \in 1..n : i <= j => es[i].pos <= es[j].pos
  <2>1. ASSUME NEW i \in 1..n, NEW j \in 1..n, i <= j PROVE es[i].pos <= es[j].pos
    <3>1. i < j \/ i = j
      BY <2>1, <1>1
    <3>2. CASE i < j
      BY <3>2, <1>1 DEF Sorted
    <3>3. CASE i = j
      BY <3>3, <1>1
    <3>. QED BY <3>1, <3>2, <3>3
  <2>. QED BY <2>1
<1>5. mid \in 1..n /\ mid \in Int
  BY <1>1, <1>2, <1>3
<1>6. ASSUME es[mid].pos <= p
      PROVE  Answer(es, p, lo, hi, ans) = Answer(es, p, mid + 1, hi, mid)
  <2>. DEFINE V == UpTo(es, p, mid + 1, hi)
  <2>1. mid \in U /\ U # {} /\ U \subseteq 0..hi /\ V \subseteq 0..hi
    BY <1>2, <1>3, <1>6 DEF UpTo
  <2>2. Max(U) \in U /\ \A m \in U : m <= Max(U)
    BY <2>1, <1>2, MaxIs
  <2>3. V \subseteq U /\ \A m \in U : m \in V \/ m <= mid
    BY <1>2, <1>3 DEF UpTo
  <2>4. CASE V = {}
    <3>1. Max(U) <= mid /\ mid <= Max(U) /\ Max(U) \in Int
      BY <2>1, <2>2, <2>3, <2>4
    <3>2. Max(U) = mid
      BY <3>1, <1>5
    <3>. QED BY <3>2, <2>1, <2>4 DEF Answer
  <2>5. CASE V # {}
    <3>1. Max(V) \in V /\ \A m \in V : m <= Max(V)
      BY <2>1, <2>5, <1>2, MaxIs
    <3>2. Max(V) > mid /\ Max(V) <= Max(U) /\ Max(V) \in Int /\ Max(U) \in Int
      BY <3>1, <2>1, <2>2, <2>3, <1>5 DEF UpTo
    <3>3. Max(U) \in V
      BY <3>2, <2>2, <2>3, <1>5
    <3>4. Max(U) = Max(V)
      BY <3>1, <3>2, <3>3
    <3>. QED BY <3>4, <2>1, <2>5 DEF Answer
  <2>. QED BY <2>4, <2>5
<1>7. ASSUME ~(es[mid].pos <= p)
      PROVE  Answer(es, p, lo, hi, ans) = Answer(es, p, lo, mid - 1, ans)
  <2>1. ASSUME NEW i \in lo..hi, es[i].pos <= p PROVE i \in lo..mid - 1
    <3>1. i \in 1..n /\ i \in Int
      BY <1>1, <1>2
    <3>2. ~(mid <= i)
      BY <3>1, <2>1, <1>1, <1>4, <1>5, <1>7
    <3>. QED BY <3>1, <3>2, <1>5
  <2>2. lo..mid - 1 \subseteq lo..hi
    BY <1>2, <1>3
  <2>3. UpTo(es, p, lo, hi) = UpTo(es, p, lo, mid - 1)
    BY <2>1, <2>2 DEF UpTo
  <2>. QED BY <2>3 DEF Answer
<1>. QED BY <1>3, <1>6, <1>7 DEF mid

LEMMA SearchIs ==
    ASSUME NEW es \in Seq(Entry), Sorted(es), es # <<>>, NEW p \in Nat,
           NEW f, f = [at \in Windows(Len(es)) |-> Half(es, p, at, f)]
    PROVE  \A at \in Windows(Len(es)) : f[at] = Answer(es, p, at[1], at[2], at[3])
<1>. DEFINE n == Len(es)
            Wrong(at) == f[at] # Answer(es, p, at[1], at[2], at[3])
            Width(at) == at[2] - at[1] + n + 1
            S == {Width(at) : at \in {w \in Windows(n) : Wrong(w)}}
<1>1. n \in Nat
  OBVIOUS
<1>2. ASSUME NEW at \in Windows(n)
      PROVE  at[1] \in 1..n + 1 /\ at[2] \in 0..n /\ at[3] \in 1..n /\ Width(at) \in Nat
  BY <1>1 DEF Windows
<1>3. SUFFICES ASSUME \E at \in Windows(n) : Wrong(at) PROVE FALSE
  OBVIOUS
<1>4. S \subseteq Nat /\ S # {}
  <2>1. S \subseteq Nat
    BY <1>2
  <2>. QED BY <2>1, <1>3
<1>5. PICK w \in S : \A v \in S : w <= v
  BY <1>4, LeastNumber
<1>6. PICK at \in Windows(n) : Wrong(at) /\ w = Width(at)
  BY <1>5
<1>. DEFINE lo == at[1]
            hi == at[2]
            ans == at[3]
            mid == (lo + hi) \div 2
<1>7. lo \in 1..n + 1 /\ hi \in 0..n /\ ans \in 1..n
  BY <1>2
<1>8. f[at] = Half(es, p, at, f)
  OBVIOUS
<1>9. ASSUME NEW v \in Windows(n), v[2] - v[1] < hi - lo
      PROVE  f[v] = Answer(es, p, v[1], v[2], v[3])
  <2>1. Width(v) < Width(at) /\ Width(v) \in Nat /\ Width(at) \in Nat
    <3>1. Width(v) \in Nat /\ Width(at) \in Nat
      BY <1>2
    <3>2. v[1] \in Int /\ v[2] \in Int /\ at[1] \in Int /\ at[2] \in Int
      BY <1>2
    <3>3. Width(v) < Width(at)
      BY <3>2, <1>1, <1>9
    <3>. QED BY <3>1, <3>3
  <2>2. ~(Width(at) <= Width(v))
    BY <2>1
  <2>3. Width(v) \in S => FALSE
    BY <2>2, <1>5, <1>6
  <2>. QED BY <2>3
<1>10. CASE lo > hi
  <2>1. UpTo(es, p, lo, hi) = {}
    BY <1>10, <1>7 DEF UpTo
  <2>. QED BY <2>1, <1>6, <1>8, <1>10 DEF Answer, Half
<1>11. CASE ~(lo > hi)
  <2>1. /\ mid \in lo..hi
        /\ es[mid].pos <= p => Answer(es, p, lo, hi, ans) = Answer(es, p, mid + 1, hi, mid)
        /\ ~(es[mid].pos <= p) =>
              Answer(es, p, lo, hi, ans) = Answer(es, p, lo, mid - 1, ans)
    <3>1. lo <= hi
      BY <1>7, <1>11
    <3>. HIDE DEF lo, hi, ans
    <3>. QED BY <3>1, <1>7, AnswerInHalf
  <2>. HIDE DEF mid
  <2>2. mid \in 1..n /\ mid + 1 \in 1..n + 1 /\ mid - 1 \in 0..n
    BY <2>1, <1>1, <1>7
  <2>3. CASE es[mid].pos <= p
    <3>. DEFINE v == <<mid + 1, hi, mid>>
    <3>1. v \in Windows(n) /\ v[1] = mid + 1 /\ v[2] = hi /\ v[3] = mid
      BY <2>2, <1>7 DEF Windows
    <3>2. v[2] - v[1] < hi - lo
      BY <3>1, <2>1, <1>7
    <3>. HIDE DEF v
    <3>3. f[v] = Answer(es, p, mid + 1, hi, mid)
      BY <3>1, <3>2, <1>9
    <3>4. f[at] = f[v]
      BY <2>3, <1>8, <1>11 DEF Half, mid, v
    <3>. QED BY <3>3, <3>4, <2>1, <2>3, <1>6
  <2>4. CASE ~(es[mid].pos <= p)
    <3>. DEFINE v == <<lo, mid - 1, ans>>
    <3>1. v \in Windows(n) /\ v[1] = lo /\ v[2] = mid - 1 /\ v[3] = ans
      BY <2>2, <1>7 DEF Windows
    <3>2. v[2] - v[1] < hi - lo
      BY <3>1, <2>1, <1>7
    <3>. HIDE DEF v
    <3>3. f[v] = Answer(es, p, lo, mid - 1, ans)
      BY <3>1, <3>2, <1>9
    <3>4. f[at] = f[v]
      BY <2>4, <1>8, <1>11 DEF Half, mid, v
    <3>. QED BY <3>3, <3>4, <2>1, <2>4, <1>6
  <2>. QED BY <2>3, <2>4
<1>. QED BY <1>10, <1>11

LEMMA SchemaAtIs ==
    ASSUME NEW es \in Seq(Entry), Sorted(es), es # <<>>, NEW p \in Nat
    PROVE  LET upTo == UpTo(es, p, 1, Len(es))
           IN  SchemaAt(es, p) = IF upTo = {} THEN es[1].schema ELSE es[Max(upTo)].schema
<1>. DEFINE n == Len(es)
            g == [at \in Windows(n) |-> Answer(es, p, at[1], at[2], at[3])]
            f == CHOOSE h : h = [at \in Windows(n) |-> Half(es, p, at, h)]
            first == <<1, n, 1>>
<1>1. n \in Nat /\ n >= 1
  OBVIOUS
<1>2. ASSUME NEW at \in Windows(n) PROVE g[at] = Half(es, p, at, g)
  <2>. DEFINE lo == at[1]
              hi == at[2]
              ans == at[3]
              mid == (lo + hi) \div 2
  <2>1. lo \in 1..n + 1 /\ hi \in 0..n /\ ans \in 1..n
    BY DEF Windows
  <2>2. g[at] = Answer(es, p, lo, hi, ans)
    OBVIOUS
  <2>3. CASE lo > hi
    <3>1. UpTo(es, p, lo, hi) = {}
      BY <2>3, <2>1 DEF UpTo
    <3>. QED BY <3>1, <2>2, <2>3 DEF Answer, Half
  <2>4. CASE ~(lo > hi)
    <3>1. /\ mid \in lo..hi
          /\ es[mid].pos <= p => Answer(es, p, lo, hi, ans) = Answer(es, p, mid + 1, hi, mid)
          /\ ~(es[mid].pos <= p) =>
                Answer(es, p, lo, hi, ans) = Answer(es, p, lo, mid - 1, ans)
      <4>1. lo <= hi /\ lo \in 1..Len(es) + 1 /\ hi \in 0..Len(es) /\ ans \in 1..Len(es)
        BY <2>1, <2>4, <1>1
      <4>. HIDE DEF lo, hi, ans
      <4>. QED BY <4>1, AnswerInHalf
    <3>. HIDE DEF mid
    <3>2. mid \in 1..n /\ mid + 1 \in 1..n + 1 /\ mid - 1 \in 0..n
      BY <3>1, <1>1, <2>1
    <3>3. CASE es[mid].pos <= p
      <4>. DEFINE v == <<mid + 1, hi, mid>>
      <4>1. v \in Windows(n) /\ v[1] = mid + 1 /\ v[2] = hi /\ v[3] = mid
        BY <3>2, <2>1 DEF Windows
      <4>2. g[v] = Answer(es, p, mid + 1, hi, mid)
        BY <4>1
      <4>. HIDE DEF g
      <4>3. Half(es, p, at, g) = g[v]
        BY <3>3, <2>4 DEF Half, mid
      <4>. QED BY <4>2, <4>3, <3>1, <3>3, <2>2
    <3>4. CASE ~(es[mid].pos <= p)
      <4>. DEFINE v == <<lo, mid - 1, ans>>
      <4>1. v \in Windows(n) /\ v[1] = lo /\ v[2] = mid - 1 /\ v[3] = ans
        BY <3>2, <2>1 DEF Windows
      <4>2. g[v] = Answer(es, p, lo, mid - 1, ans)
        BY <4>1
      <4>. HIDE DEF g
      <4>3. Half(es, p, at, g) = g[v]
        BY <3>4, <2>4 DEF Half, mid
      <4>. QED BY <4>2, <4>3, <3>1, <3>4, <2>2
    <3>. QED BY <3>3, <3>4
  <2>. QED BY <2>3, <2>4
<1>3. g = [at \in Windows(n) |-> Half(es, p, at, g)]
  BY <1>2
<1>. HIDE DEF g
<1>4. f = [at \in Windows(n) |-> Half(es, p, at, f)]
  BY <1>3
<1>5. SchemaAt(es, p) = es[f[first]].schema
  BY DEF SchemaAt, Half, Windows
<1>. HIDE DEF f
<1>6. first \in Windows(n) /\ first[1] = 1 /\ first[2] = n /\ first[3] = 1
  BY <1>1 DEF Windows
<1>. HIDE DEF first
<1>7. f[first] = Answer(es, p, 1, n, 1)
  BY <1>4, <1>6, SearchIs
<1>. QED BY <1>5, <1>7 DEF Answer

(* What was saved in order is loaded as it was.                            *)
LEMMA LoadedIs ==
    ASSUME NEW es \in Seq(Entry), Sorted(es)
    PROVE  Loaded(es) = es
<1>. DEFINE n == Len(es)
            Goes(i, j) == es[i].pos < es[j].pos \/ (es[i].pos = es[j].pos /\ i <= j)
            Rank(i) == Cardinality({j \in DOMAIN es : Goes(j, i)})
<1>1. n \in Nat /\ DOMAIN es = 1..n /\ \A i \in 1..n : es[i].pos \in Nat
  <2>1. \A e \in Entry : e.pos \in Nat
    BY DEF Entry
  <2>. QED BY <2>1
<1>2. ASSUME NEW i \in 1..n PROVE Rank(i) = i
  <2>1. ASSUME NEW j \in 1..n PROVE Goes(j, i) <=> j <= i
    <3>1. j < i \/ j = i \/ i < j
      BY <1>1
    <3>2. CASE j < i
      <4>1. es[j].pos <= es[i].pos
        BY <3>2, <1>1 DEF Sorted
      <4>. QED BY <4>1, <3>2, <1>1
    <3>3. CASE j = i
      BY <3>3, <1>1
    <3>4. CASE i < j
      <4>1. es[i].pos <= es[j].pos /\ ~(j <= i)
        BY <3>4, <1>1 DEF Sorted
      <4>. QED BY <4>1, <1>1
    <3>. QED BY <3>1, <3>2, <3>3, <3>4
  <2>2. {j \in DOMAIN es : Goes(j, i)} = 1..i
    BY <2>1, <1>1
  <2>3. Cardinality(1..i) = i
    <3>1. 1 \in Int /\ i \in Int /\ ~(1 > i) /\ i - 1 + 1 = i
      BY <1>1
    <3>2. Cardinality(1..i) = IF 1 > i THEN 0 ELSE i - 1 + 1
      BY <3>1, FS_Interval
    <3>. QED BY <3>1, <3>2
  <2>. QED BY <2>2, <2>3
<1>3. Loaded(es) = [r \in DOMAIN es |-> es[CHOOSE i \in DOMAIN es : Rank(i) = r]]
  BY DEF Loaded
<1>. HIDE DEF Rank
<1>4. ASSUME NEW r \in DOMAIN es PROVE (CHOOSE i \in DOMAIN es : Rank(i) = r) = r
  BY <1>1, <1>2
<1>. QED BY <1>3, <1>4

-----------------------------------------------------------------------------
(* What the statements make of a schema is a schema: first for the columns *)
(* and one clause, then for the loops over the clauses.                    *)
LEMMA SchemaIs ==
    ASSUME NEW s \in Schemas
    PROVE  /\ s.columns \in Seq(Columns) /\ s.pks \in SUBSET STRING /\ s.version \in Nat
           /\ s = [columns |-> s.columns, pks |-> s.pks, version |-> s.version]
BY DEF Schemas

LEMMA ClauseIs ==
    ASSUME NEW c \in Clauses
    PROVE  /\ c.op \in STRING /\ c.name \in STRING /\ c.new \in STRING
           /\ c.type \in STRING /\ c.place \in STRING /\ c.rest \in STRING
BY DEF Clauses

LEMMA NoSchemaTyped == NoSchema \in Schemas /\ Placeholder \in Schemas
<1>1. <<>> \in Seq(Columns)
  OBVIOUS
<1>. QED BY <1>1 DEF NoSchema, Placeholder, Schemas

LEMMA BumpTyped == \A s \in Schemas : Bump(s) \in Schemas
BY DEF Bump, Schemas

LEMMA RewriteTyped ==
    ASSUME NEW columns \in Seq(Columns), NEW old, NEW new \in STRING, NEW type \in STRING
    PROVE  Rewrite(columns, old, new, type) \in Seq(Columns)
<1>1. [name |-> new, type |-> type] \in Columns
  BY DEF Columns
<1>. QED BY <1>1 DEF Rewrite

LEMMA IndexOfIs ==
    ASSUME NEW columns \in Seq(Columns), NEW name
    PROVE  IndexOf(columns, name) \in 0..Len(columns)
<1>. DEFINE found == {i \in DOMAIN columns : columns[i].name = name}
<1>1. found \subseteq 1..Len(columns) /\ Len(columns) \in Nat
  OBVIOUS
<1>2. CASE found = {}
  BY <1>1, <1>2 DEF IndexOf
<1>3. CASE found # {}
  <2>1. Min(found) \in found
    <3>1. found \subseteq Nat
      BY <1>1
    <3>. QED BY <1>3, <3>1, MinIs
  <2>. QED BY <1>1, <1>3, <2>1 DEF IndexOf
<1>. QED BY <1>2, <1>3

LEMMA InsertTyped ==
    ASSUME NEW columns \in Seq(Columns), NEW k \in 1..Len(columns) + 1,
           NEW name \in STRING, NEW type \in STRING
    PROVE  InsertAt(columns, k, [name |-> name, type |-> type]) \in Seq(Columns)
<1>1. [name |-> name, type |-> type] \in Columns
  BY DEF Columns
<1>. QED BY <1>1, InsertAtIs

LEMMA DropTyped ==
    ASSUME NEW s \in Schemas, NEW c \in Clauses
    PROVE  DropColumn(s, c) \in Schemas
<1>1. WithoutColumn(s.columns, c.name) \in Seq(Columns)
  BY SchemaIs, WithoutTyped DEF WithoutColumn
<1>. QED BY <1>1 DEF DropColumn, Schemas

LEMMA ModifyTyped ==
    ASSUME NEW s \in Schemas, NEW c \in Clauses
    PROVE  ModifyColumn(s, c) \in Schemas
<1>1. Rewrite(s.columns, c.name, c.name, c.type) \in Seq(Columns)
  BY SchemaIs, ClauseIs, RewriteTyped
<1>. QED BY <1>1 DEF ModifyColumn, Schemas

LEMMA ChangeTyped ==
    ASSUME NEW s \in Schemas, NEW c \in Clauses
    PROVE  ChangeColumn(s, c) \in Schemas
<1>1. Rewrite(s.columns, c.name, c.new, c.type) \in Seq(Columns)
  BY SchemaIs, ClauseIs, RewriteTyped
<1>2. s.pks \in SUBSET STRING /\ c.new \in STRING
  BY SchemaIs, ClauseIs
<1>. QED BY <1>1, <1>2 DEF ChangeColumn, Schemas

LEMMA AddTyped ==
    ASSUME NEW s \in Schemas, NEW clauses \in Seq(Clauses), NEW i \in DOMAIN clauses
    PROVE  AddColumn(s, clauses, i) \in Schemas
<1>. DEFINE k == PlaceOf(clauses, i, s.columns)
<1>1. s.columns \in Seq(Columns) /\ Len(s.columns) \in Nat
  BY SchemaIs
<1>2. k \in 1..Len(s.columns) + 1
  <2>1. \A name : IndexOf(s.columns, name) \in 0..Len(s.columns)
    BY <1>1, IndexOfIs
  <2>. QED BY <1>1, <2>1 DEF PlaceOf
<1>3. clauses[i] \in Clauses
  OBVIOUS
<1>. HIDE DEF k
<1>4. InsertAt(s.columns, k, [name |-> clauses[i].name, type |-> clauses[i].type]) \in Seq(Columns)
  BY <1>1, <1>2, <1>3, ClauseIs, InsertTyped
<1>. QED BY <1>4 DEF AddColumn, Schemas, k

LEMMA PlacedTyped ==
    ASSUME NEW columns \in Seq(Columns), NEW c \in Clauses
    PROVE  Placed(columns, c) \in Seq(Columns)
<1>. DEFINE k == CASE c.place = "last" -> Len(columns) + 1
                   [] c.place = "first" -> 1
                   [] OTHER -> IndexOf(columns, c.place) + 1
<1>1. k \in 1..Len(columns) + 1
  <2>1. IndexOf(columns, c.place) \in 0..Len(columns) /\ Len(columns) \in Nat
    BY IndexOfIs
  <2>. QED BY <2>1
<1>. HIDE DEF k
<1>2. InsertAt(columns, k, [name |-> c.new, type |-> c.type]) \in Seq(Columns)
  BY <1>1, ClauseIs, InsertTyped
<1>. QED BY <1>2 DEF Placed, k

LEMMA OnlyOne == 1..1 \in SUBSET (1..1) /\ 1..1 # {} /\ Max(1..1) = 1 /\ (1..1) \ {1} = {}
<1>1. 1..1 \subseteq 0..1 /\ 1..1 # {} /\ (1..1) \ {1} = {}
  OBVIOUS
<1>2. Max(1..1) \in 1..1
  BY <1>1, MaxIs
<1>. QED BY <1>1, <1>2

LEMMA DropsFold ==
    ASSUME NEW schema \in Schemas, NEW clauses \in Seq(Clauses)
    PROVE  \E f : /\ f[{}] = schema /\ FoldLeft(DropColumn, schema, clauses) = f[1..Len(clauses)]
                  /\ \A s \in SUBSET (1..Len(clauses)) :
                        s # {} => f[s] = DropColumn(f[s \ {Max(s)}], clauses[Max(s)])
<1>. DEFINE n == Len(clauses)
            step == [p \in Schemas \X Clauses |-> DropColumn(p[1], p[2])]
            Equation(g) == [s \in SUBSET (1..n) |->
                               IF s = {} THEN schema
                               ELSE DropColumn(g[s \ {Max(s)}], clauses[Max(s)])]
            f == CHOOSE g : g = Equation(g)
<1>1. n \in Nat /\ DOMAIN clauses = 1..n /\ \A i \in 1..n : clauses[i] \in Clauses
  OBVIOUS
<1>2. step \in [Schemas \X Clauses -> Schemas]
  BY DropTyped
<1>3. PICK g \in [SUBSET (1..n) -> Schemas] : Folds(g, step, schema, clauses, n)
  <2>. HIDE DEF step
  <2>. QED BY <1>1, <1>2, FoldExists
<1>4. \A s \in SUBSET (1..n) : s # {} => Max(s) \in 1..n /\ s \ {Max(s)} \in SUBSET (1..n)
  BY <1>1, LastOf
<1>5. g = Equation(g)
  <2>1. ASSUME NEW s \in SUBSET (1..n), s # {}
        PROVE  g[s] = DropColumn(g[s \ {Max(s)}], clauses[Max(s)])
    BY <1>1, <1>3, <1>4, <2>1 DEF Folds
  <2>2. g[{}] = schema
    BY <1>3 DEF Folds
  <2>. QED BY <2>1, <2>2
<1>6. f = Equation(f)
  <2>. HIDE DEF Equation
  <2>. QED BY <1>5
<1>7. FoldLeft(DropColumn, schema, clauses) = f[1..n]
  BY <1>1 DEF FoldLeft, MapThenFoldSet
<1>. HIDE DEF f
<1>8. f[{}] = schema /\ \A s \in SUBSET (1..n) : s # {} => f[s] = DropColumn(f[s \ {Max(s)}], clauses[Max(s)])
  BY <1>6
<1>. QED BY <1>7, <1>8

LEMMA DropsTyped ==
    ASSUME NEW schema \in Schemas, NEW clauses \in Seq(Clauses)
    PROVE  FoldLeft(DropColumn, schema, clauses) \in Schemas
<1>1. PICK f : /\ f[{}] = schema /\ FoldLeft(DropColumn, schema, clauses) = f[1..Len(clauses)]
               /\ \A s \in SUBSET (1..Len(clauses)) :
                     s # {} => f[s] = DropColumn(f[s \ {Max(s)}], clauses[Max(s)])
  BY DropsFold
<1>2. Len(clauses) \in Nat /\ \A i \in 1..Len(clauses) : clauses[i] \in Clauses
  OBVIOUS
<1>3. \A s \in SUBSET (1..Len(clauses)) : s # {} /\ f[s \ {Max(s)}] \in Schemas => f[s] \in Schemas
  BY <1>1, <1>2, LastOf, DropTyped
<1>4. f[{}] \in Schemas
  BY <1>1
<1>5. f[1..Len(clauses)] \in Schemas
  BY <1>2, <1>3, <1>4, FoldStays
<1>. QED BY <1>1, <1>5

LEMMA DropsOnce ==
    ASSUME NEW schema \in Schemas, NEW clauses \in Seq(Clauses), Len(clauses) = 1
    PROVE  FoldLeft(DropColumn, schema, clauses) = DropColumn(schema, clauses[1])
<1>1. PICK f : /\ f[{}] = schema /\ FoldLeft(DropColumn, schema, clauses) = f[1..Len(clauses)]
               /\ \A s \in SUBSET (1..Len(clauses)) :
                     s # {} => f[s] = DropColumn(f[s \ {Max(s)}], clauses[Max(s)])
  BY DropsFold
<1>2. f[1..1] = DropColumn(f[(1..1) \ {Max(1..1)}], clauses[Max(1..1)])
  BY <1>1, OnlyOne
<1>. QED BY <1>1, <1>2, OnlyOne

LEMMA ModifiesFold ==
    ASSUME NEW schema \in Schemas, NEW clauses \in Seq(Clauses)
    PROVE  \E f : /\ f[{}] = schema /\ FoldLeft(ModifyColumn, schema, clauses) = f[1..Len(clauses)]
                  /\ \A s \in SUBSET (1..Len(clauses)) :
                        s # {} => f[s] = ModifyColumn(f[s \ {Max(s)}], clauses[Max(s)])
<1>. DEFINE n == Len(clauses)
            step == [p \in Schemas \X Clauses |-> ModifyColumn(p[1], p[2])]
            Equation(g) == [s \in SUBSET (1..n) |->
                               IF s = {} THEN schema
                               ELSE ModifyColumn(g[s \ {Max(s)}], clauses[Max(s)])]
            f == CHOOSE g : g = Equation(g)
<1>1. n \in Nat /\ DOMAIN clauses = 1..n /\ \A i \in 1..n : clauses[i] \in Clauses
  OBVIOUS
<1>2. step \in [Schemas \X Clauses -> Schemas]
  BY ModifyTyped
<1>3. PICK g \in [SUBSET (1..n) -> Schemas] : Folds(g, step, schema, clauses, n)
  <2>. HIDE DEF step
  <2>. QED BY <1>1, <1>2, FoldExists
<1>4. \A s \in SUBSET (1..n) : s # {} => Max(s) \in 1..n /\ s \ {Max(s)} \in SUBSET (1..n)
  BY <1>1, LastOf
<1>5. g = Equation(g)
  <2>1. ASSUME NEW s \in SUBSET (1..n), s # {}
        PROVE  g[s] = ModifyColumn(g[s \ {Max(s)}], clauses[Max(s)])
    BY <1>1, <1>3, <1>4, <2>1 DEF Folds
  <2>2. g[{}] = schema
    BY <1>3 DEF Folds
  <2>. QED BY <2>1, <2>2
<1>6. f = Equation(f)
  <2>. HIDE DEF Equation
  <2>. QED BY <1>5
<1>7. FoldLeft(ModifyColumn, schema, clauses) = f[1..n]
  BY <1>1 DEF FoldLeft, MapThenFoldSet
<1>. HIDE DEF f
<1>8. f[{}] = schema /\ \A s \in SUBSET (1..n) : s # {} => f[s] = ModifyColumn(f[s \ {Max(s)}], clauses[Max(s)])
  BY <1>6
<1>. QED BY <1>7, <1>8

LEMMA ModifiesTyped ==
    ASSUME NEW schema \in Schemas, NEW clauses \in Seq(Clauses)
    PROVE  FoldLeft(ModifyColumn, schema, clauses) \in Schemas
<1>1. PICK f : /\ f[{}] = schema /\ FoldLeft(ModifyColumn, schema, clauses) = f[1..Len(clauses)]
               /\ \A s \in SUBSET (1..Len(clauses)) :
                     s # {} => f[s] = ModifyColumn(f[s \ {Max(s)}], clauses[Max(s)])
  BY ModifiesFold
<1>2. Len(clauses) \in Nat /\ \A i \in 1..Len(clauses) : clauses[i] \in Clauses
  OBVIOUS
<1>3. \A s \in SUBSET (1..Len(clauses)) : s # {} /\ f[s \ {Max(s)}] \in Schemas => f[s] \in Schemas
  BY <1>1, <1>2, LastOf, ModifyTyped
<1>4. f[{}] \in Schemas
  BY <1>1
<1>5. f[1..Len(clauses)] \in Schemas
  BY <1>2, <1>3, <1>4, FoldStays
<1>. QED BY <1>1, <1>5

LEMMA ModifiesOnce ==
    ASSUME NEW schema \in Schemas, NEW clauses \in Seq(Clauses), Len(clauses) = 1
    PROVE  FoldLeft(ModifyColumn, schema, clauses) = ModifyColumn(schema, clauses[1])
<1>1. PICK f : /\ f[{}] = schema /\ FoldLeft(ModifyColumn, schema, clauses) = f[1..Len(clauses)]
               /\ \A s \in SUBSET (1..Len(clauses)) :
                     s # {} => f[s] = ModifyColumn(f[s \ {Max(s)}], clauses[Max(s)])
  BY ModifiesFold
<1>2. f[1..1] = ModifyColumn(f[(1..1) \ {Max(1..1)}], clauses[Max(1..1)])
  BY <1>1, OnlyOne
<1>. QED BY <1>1, <1>2, OnlyOne

LEMMA ChangesFold ==
    ASSUME NEW schema \in Schemas, NEW clauses \in Seq(Clauses)
    PROVE  \E f : /\ f[{}] = schema /\ FoldLeft(ChangeColumn, schema, clauses) = f[1..Len(clauses)]
                  /\ \A s \in SUBSET (1..Len(clauses)) :
                        s # {} => f[s] = ChangeColumn(f[s \ {Max(s)}], clauses[Max(s)])
<1>. DEFINE n == Len(clauses)
            step == [p \in Schemas \X Clauses |-> ChangeColumn(p[1], p[2])]
            Equation(g) == [s \in SUBSET (1..n) |->
                               IF s = {} THEN schema
                               ELSE ChangeColumn(g[s \ {Max(s)}], clauses[Max(s)])]
            f == CHOOSE g : g = Equation(g)
<1>1. n \in Nat /\ DOMAIN clauses = 1..n /\ \A i \in 1..n : clauses[i] \in Clauses
  OBVIOUS
<1>2. step \in [Schemas \X Clauses -> Schemas]
  BY ChangeTyped
<1>3. PICK g \in [SUBSET (1..n) -> Schemas] : Folds(g, step, schema, clauses, n)
  <2>. HIDE DEF step
  <2>. QED BY <1>1, <1>2, FoldExists
<1>4. \A s \in SUBSET (1..n) : s # {} => Max(s) \in 1..n /\ s \ {Max(s)} \in SUBSET (1..n)
  BY <1>1, LastOf
<1>5. g = Equation(g)
  <2>1. ASSUME NEW s \in SUBSET (1..n), s # {}
        PROVE  g[s] = ChangeColumn(g[s \ {Max(s)}], clauses[Max(s)])
    BY <1>1, <1>3, <1>4, <2>1 DEF Folds
  <2>2. g[{}] = schema
    BY <1>3 DEF Folds
  <2>. QED BY <2>1, <2>2
<1>6. f = Equation(f)
  <2>. HIDE DEF Equation
  <2>. QED BY <1>5
<1>7. FoldLeft(ChangeColumn, schema, clauses) = f[1..n]
  BY <1>1 DEF FoldLeft, MapThenFoldSet
<1>. HIDE DEF f
<1>8. f[{}] = schema /\ \A s \in SUBSET (1..n) : s # {} => f[s] = ChangeColumn(f[s \ {Max(s)}], clauses[Max(s)])
  BY <1>6
<1>. QED BY <1>7, <1>8

LEMMA ChangesTyped ==
    ASSUME NEW schema \in Schemas, NEW clauses \in Seq(Clauses)
    PROVE  FoldLeft(ChangeColumn, schema, clauses) \in Schemas
<1>1. PICK f : /\ f[{}] = schema /\ FoldLeft(ChangeColumn, schema, clauses) = f[1..Len(clauses)]
               /\ \A s \in SUBSET (1..Len(clauses)) :
                     s # {} => f[s] = ChangeColumn(f[s \ {Max(s)}], clauses[Max(s)])
  BY ChangesFold
<1>2. Len(clauses) \in Nat /\ \A i \in 1..Len(clauses) : clauses[i] \in Clauses
  OBVIOUS
<1>3. \A s \in SUBSET (1..Len(clauses)) : s # {} /\ f[s \ {Max(s)}] \in Schemas => f[s] \in Schemas
  BY <1>1, <1>2, LastOf, ChangeTyped
<1>4. f[{}] \in Schemas
  BY <1>1
<1>5. f[1..Len(clauses)] \in Schemas
  BY <1>2, <1>3, <1>4, FoldStays
<1>. QED BY <1>1, <1>5

LEMMA ChangesOnce ==
    ASSUME NEW schema \in Schemas, NEW clauses \in Seq(Clauses), Len(clauses) = 1
    PROVE  FoldLeft(ChangeColumn, schema, clauses) = ChangeColumn(schema, clauses[1])
<1>1. PICK f : /\ f[{}] = schema /\ FoldLeft(ChangeColumn, schema, clauses) = f[1..Len(clauses)]
               /\ \A s \in SUBSET (1..Len(clauses)) :
                     s # {} => f[s] = ChangeColumn(f[s \ {Max(s)}], clauses[Max(s)])
  BY ChangesFold
<1>2. f[1..1] = ChangeColumn(f[(1..1) \ {Max(1..1)}], clauses[Max(1..1)])
  BY <1>1, OnlyOne
<1>. QED BY <1>1, <1>2, OnlyOne

LEMMA PlacesFold ==
    ASSUME NEW base \in Seq(Columns), NEW clauses \in Seq(Clauses)
    PROVE  \E f : /\ f[{}] = base /\ FoldLeft(Placed, base, clauses) = f[1..Len(clauses)]
                  /\ \A s \in SUBSET (1..Len(clauses)) :
                        s # {} => f[s] = Placed(f[s \ {Max(s)}], clauses[Max(s)])
<1>. DEFINE n == Len(clauses)
            step == [p \in Seq(Columns) \X Clauses |-> Placed(p[1], p[2])]
            Equation(g) == [s \in SUBSET (1..n) |->
                               IF s = {} THEN base
                               ELSE Placed(g[s \ {Max(s)}], clauses[Max(s)])]
            f == CHOOSE g : g = Equation(g)
<1>1. n \in Nat /\ DOMAIN clauses = 1..n /\ \A i \in 1..n : clauses[i] \in Clauses
  OBVIOUS
<1>2. step \in [Seq(Columns) \X Clauses -> Seq(Columns)]
  BY PlacedTyped
<1>3. PICK g \in [SUBSET (1..n) -> Seq(Columns)] : Folds(g, step, base, clauses, n)
  <2>. HIDE DEF step
  <2>. QED BY <1>1, <1>2, FoldExists
<1>4. \A s \in SUBSET (1..n) : s # {} => Max(s) \in 1..n /\ s \ {Max(s)} \in SUBSET (1..n)
  BY <1>1, LastOf
<1>5. g = Equation(g)
  <2>1. ASSUME NEW s \in SUBSET (1..n), s # {}
        PROVE  g[s] = Placed(g[s \ {Max(s)}], clauses[Max(s)])
    BY <1>1, <1>3, <1>4, <2>1 DEF Folds
  <2>2. g[{}] = base
    BY <1>3 DEF Folds
  <2>. QED BY <2>1, <2>2
<1>6. f = Equation(f)
  <2>. HIDE DEF Equation
  <2>. QED BY <1>5
<1>7. FoldLeft(Placed, base, clauses) = f[1..n]
  BY <1>1 DEF FoldLeft, MapThenFoldSet
<1>. HIDE DEF f
<1>8. f[{}] = base /\ \A s \in SUBSET (1..n) : s # {} => f[s] = Placed(f[s \ {Max(s)}], clauses[Max(s)])
  BY <1>6
<1>. QED BY <1>7, <1>8

LEMMA PlacesTyped ==
    ASSUME NEW base \in Seq(Columns), NEW clauses \in Seq(Clauses)
    PROVE  FoldLeft(Placed, base, clauses) \in Seq(Columns)
<1>1. PICK f : /\ f[{}] = base /\ FoldLeft(Placed, base, clauses) = f[1..Len(clauses)]
               /\ \A s \in SUBSET (1..Len(clauses)) :
                     s # {} => f[s] = Placed(f[s \ {Max(s)}], clauses[Max(s)])
  BY PlacesFold
<1>2. Len(clauses) \in Nat /\ \A i \in 1..Len(clauses) : clauses[i] \in Clauses
  OBVIOUS
<1>3. \A s \in SUBSET (1..Len(clauses)) : s # {} /\ f[s \ {Max(s)}] \in Seq(Columns) => f[s] \in Seq(Columns)
  BY <1>1, <1>2, LastOf, PlacedTyped
<1>4. f[{}] \in Seq(Columns)
  BY <1>1
<1>5. f[1..Len(clauses)] \in Seq(Columns)
  BY <1>2, <1>3, <1>4, FoldStays
<1>. QED BY <1>1, <1>5

LEMMA PlacesOnce ==
    ASSUME NEW base \in Seq(Columns), NEW clauses \in Seq(Clauses), Len(clauses) = 1
    PROVE  FoldLeft(Placed, base, clauses) = Placed(base, clauses[1])
<1>1. PICK f : /\ f[{}] = base /\ FoldLeft(Placed, base, clauses) = f[1..Len(clauses)]
               /\ \A s \in SUBSET (1..Len(clauses)) :
                     s # {} => f[s] = Placed(f[s \ {Max(s)}], clauses[Max(s)])
  BY PlacesFold
<1>2. f[1..1] = Placed(f[(1..1) \ {Max(1..1)}], clauses[Max(1..1)])
  BY <1>1, OnlyOne
<1>. QED BY <1>1, <1>2, OnlyOne

LEMMA AddsFold ==
    ASSUME NEW schema \in Schemas, NEW clauses \in Seq(Clauses)
    PROVE  \E f : /\ f[{}] = schema
                  /\ FoldLeftDomain(LAMBDA s, i : AddColumn(s, clauses, i), schema, clauses)
                        = f[1..Len(clauses)]
                  /\ \A s \in SUBSET (1..Len(clauses)) :
                        s # {} => f[s] = AddColumn(f[s \ {Max(s)}], clauses, Max(s))
<1>. DEFINE n == Len(clauses)
            ids == [i \in DOMAIN clauses |-> i]
            step == [p \in Schemas \X (1..n) |-> AddColumn(p[1], clauses, p[2])]
            Equation(g) == [s \in SUBSET (1..n) |->
                               IF s = {} THEN schema
                               ELSE AddColumn(g[s \ {Max(s)}], clauses, ids[Max(s)])]
            f == CHOOSE g : g = Equation(g)
<1>1. n \in Nat /\ DOMAIN clauses = 1..n /\ \A i \in 1..n : clauses[i] \in Clauses
  OBVIOUS
<1>2. step \in [Schemas \X (1..n) -> Schemas]
  BY <1>1, AddTyped
<1>3. PICK g \in [SUBSET (1..n) -> Schemas] : Folds(g, step, schema, ids, n)
  <2>. HIDE DEF step
  <2>. QED BY <1>1, <1>2, FoldExists
<1>4. \A s \in SUBSET (1..n) : s # {} => Max(s) \in 1..n /\ s \ {Max(s)} \in SUBSET (1..n)
  BY <1>1, LastOf
<1>5. g = Equation(g)
  <2>1. ASSUME NEW s \in SUBSET (1..n), s # {}
        PROVE  g[s] = AddColumn(g[s \ {Max(s)}], clauses, ids[Max(s)])
    BY <1>1, <1>3, <1>4, <2>1 DEF Folds
  <2>2. g[{}] = schema
    BY <1>3 DEF Folds
  <2>. QED BY <2>1, <2>2
<1>6. f = Equation(f)
  <2>. HIDE DEF Equation
  <2>. QED BY <1>5
<1>7. FoldLeftDomain(LAMBDA s, i : AddColumn(s, clauses, i), schema, clauses) = f[1..n]
  BY <1>1 DEF FoldLeft, MapThenFoldSet, FoldLeftDomain
<1>. HIDE DEF f
<1>8. f[{}] = schema
  BY <1>6
<1>9. ASSUME NEW s \in SUBSET (1..n), s # {}
      PROVE  f[s] = AddColumn(f[s \ {Max(s)}], clauses, Max(s))
  <2>1. ids[Max(s)] = Max(s)
    BY <1>1, <1>4, <1>9
  <2>. QED BY <1>6, <1>9, <2>1
<1>. QED BY <1>7, <1>8, <1>9

LEMMA AddsTyped ==
    ASSUME NEW schema \in Schemas, NEW clauses \in Seq(Clauses)
    PROVE  FoldLeftDomain(LAMBDA s, i : AddColumn(s, clauses, i), schema, clauses) \in Schemas
<1>1. PICK f : /\ f[{}] = schema
               /\ FoldLeftDomain(LAMBDA s, i : AddColumn(s, clauses, i), schema, clauses)
                     = f[1..Len(clauses)]
               /\ \A s \in SUBSET (1..Len(clauses)) :
                     s # {} => f[s] = AddColumn(f[s \ {Max(s)}], clauses, Max(s))
  BY AddsFold
<1>2. Len(clauses) \in Nat /\ DOMAIN clauses = 1..Len(clauses)
  OBVIOUS
<1>3. ASSUME NEW s \in SUBSET (1..Len(clauses)), s # {}, f[s \ {Max(s)}] \in Schemas
      PROVE  f[s] \in Schemas
  <2>1. Max(s) \in DOMAIN clauses
    BY <1>2, <1>3, LastOf
  <2>2. f[s] = AddColumn(f[s \ {Max(s)}], clauses, Max(s))
    BY <1>1, <1>3
  <2>. QED BY <1>3, <2>1, <2>2, AddTyped
<1>4. f[1..Len(clauses)] \in Schemas
  BY <1>1, <1>2, <1>3, FoldStays
<1>. QED BY <1>1, <1>4

LEMMA AddsOnce ==
    ASSUME NEW schema \in Schemas, NEW clauses \in Seq(Clauses), Len(clauses) = 1
    PROVE  FoldLeftDomain(LAMBDA s, i : AddColumn(s, clauses, i), schema, clauses)
             = AddColumn(schema, clauses, 1)
<1>1. PICK f : /\ f[{}] = schema
               /\ FoldLeftDomain(LAMBDA s, i : AddColumn(s, clauses, i), schema, clauses)
                     = f[1..Len(clauses)]
               /\ \A s \in SUBSET (1..Len(clauses)) :
                     s # {} => f[s] = AddColumn(f[s \ {Max(s)}], clauses, Max(s))
  BY AddsFold
<1>2. f[1..1] = AddColumn(f[(1..1) \ {Max(1..1)}], clauses, Max(1..1))
  BY <1>1, OnlyOne
<1>. QED BY <1>1, <1>2, OnlyOne

LEMMA AlterTyped ==
    ASSUME NEW schema \in Schemas, NEW clauses \in Seq(Clauses)
    PROVE  Alter(schema, clauses) \in Schemas
<1>. DEFINE dropped  == FoldLeft(DropColumn, schema, clauses)
            modified == FoldLeft(ModifyColumn, dropped, clauses)
            changed  == FoldLeft(ChangeColumn, modified, clauses)
<1>1. dropped \in Schemas
  BY DropsTyped
<1>. HIDE DEF dropped
<1>2. modified \in Schemas
  BY <1>1, ModifiesTyped
<1>. HIDE DEF modified
<1>3. changed \in Schemas
  BY <1>2, ChangesTyped
<1>. HIDE DEF changed
<1>4. FoldLeftDomain(LAMBDA s, i : AddColumn(s, clauses, i), changed, clauses) \in Schemas
  BY <1>3, AddsTyped
<1>. QED BY <1>4 DEF Alter, changed, modified, dropped

LEMMA ApplyTyped ==
    ASSUME NEW ddl \in Statements, NEW schema \in Schemas
    PROVE  ApplyDDL(ddl, schema) \in Schemas
<1>1. ddl.kind = "alter" => Alter(schema, ddl.clauses) \in Schemas
  BY StatementsAssumption, AlterTyped
<1>. QED BY <1>1, NoSchemaTyped, BumpTyped DEF ApplyDDL

LEMMA SourceAlterTyped ==
    ASSUME NEW schema \in Schemas, NEW clauses \in Seq(Clauses)
    PROVE  SourceAlter(schema, clauses) \in Schemas
<1>. DEFINE ByName(ops, name) == {i \in DOMAIN clauses : clauses[i].op \in ops
                                                        /\ clauses[i].name = name}
            Gone(name) == ByName({"drop"}, name) # {}
            Touching(name) == ByName({"modify", "change", "rename"}, name)
            First(name) == clauses[Min(Touching(name))]
            NewName(name) == IF Touching(name) = {} THEN name ELSE First(name).new
            NewType(col) == IF Touching(col.name) = {} \/ First(col.name).op = "rename"
                            THEN col.type ELSE First(col.name).type
            Leaves(col) == \/ Gone(col.name)
                           \/ \E i \in Touching(col.name) : clauses[i].place # "last"
            kept == Without(schema.columns, {col \in Range(schema.columns) : Leaves(col)})
            base == [i \in DOMAIN kept |-> [name |-> NewName(kept[i].name), type |-> NewType(kept[i])]]
            keys == {i \in DOMAIN clauses : clauses[i].rest = "key"}
            pks == {NewName(name) : name \in {n \in schema.pks : ~Gone(n)}}
                   \cup {clauses[i].new : i \in keys}
<1>1. ASSUME NEW name \in STRING
      PROVE  /\ NewName(name) \in STRING
             /\ Touching(name) # {} => First(name).type \in STRING
  <2>1. CASE Touching(name) = {}
    BY <2>1
  <2>2. CASE Touching(name) # {}
    <3>1. Touching(name) \subseteq Nat
      OBVIOUS
    <3>2. Min(Touching(name)) \in Touching(name)
      BY <3>1, <2>2, MinIs
    <3>3. First(name) \in Clauses
      BY <3>2
    <3>4. First(name).new \in STRING /\ First(name).type \in STRING
      BY <3>3, ClauseIs
    <3>. QED BY <2>2, <3>4
  <2>. QED BY <2>1, <2>2
<1>2. SourceAlter(schema, clauses) = [columns |-> FoldLeft(Placed, base, clauses), pks |-> pks,
                                      version |-> schema.version + 1]
  BY DEF SourceAlter
<1>. HIDE DEF First, NewName, Leaves, Gone
<1>3. kept \in Seq(Columns)
  BY SchemaIs, WithoutTyped
<1>. HIDE DEF kept
<1>4. base \in Seq(Columns)
  <2>1. ASSUME NEW i \in DOMAIN kept
        PROVE  [name |-> NewName(kept[i].name), type |-> NewType(kept[i])] \in Columns
    <3>1. kept[i] \in Columns
      BY <1>3
    <3>2. kept[i].name \in STRING /\ kept[i].type \in STRING
      BY <3>1 DEF Columns
    <3>3. NewName(kept[i].name) \in STRING /\ NewType(kept[i]) \in STRING
      BY <3>2, <1>1
    <3>. QED BY <3>3 DEF Columns
  <2>. QED BY <2>1, <1>3
<1>5. pks \in SUBSET STRING
  <2>1. {NewName(name) : name \in {n \in schema.pks : ~Gone(n)}} \subseteq STRING
    BY SchemaIs, <1>1
  <2>2. \A i \in DOMAIN clauses : clauses[i].new \in STRING
    <3>1. \A i \in DOMAIN clauses : clauses[i] \in Clauses
      OBVIOUS
    <3>. QED BY <3>1, ClauseIs
  <2>. QED BY <2>1, <2>2
<1>. HIDE DEF base, pks
<1>6. FoldLeft(Placed, base, clauses) \in Seq(Columns)
  BY <1>4, PlacesTyped
<1>7. schema.version + 1 \in Nat
  BY SchemaIs
<1>. QED BY <1>2, <1>5, <1>6, <1>7 DEF Schemas

LEMMA SourceTyped ==
    ASSUME NEW ddl \in Statements, NEW schema \in Schemas
    PROVE  SourceDDL(ddl, schema) \in Schemas
<1>1. /\ ddl.kind = "alter" => SourceAlter(schema, ddl.clauses) \in Schemas
      /\ ddl.kind = "create" => ddl.schema \in Schemas
  BY StatementsAssumption, SourceAlterTyped
<1>2. CASE ddl.kind \in {"drop", "rename"}
  BY <1>2, NoSchemaTyped DEF SourceDDL
<1>3. CASE ddl.kind = "create"
  BY <1>1, <1>3 DEF SourceDDL
<1>4. CASE ddl.kind = "alter"
  BY <1>1, <1>4 DEF SourceDDL
<1>5. CASE ddl.kind = "other"
  BY <1>5, BumpTyped DEF SourceDDL
<1>. QED BY <1>2, <1>3, <1>4, <1>5, StatementsAssumption

-----------------------------------------------------------------------------
(* A statement of one clause: what the tracker and the server make of it.  *)
LEMMA AlterOnce ==
    ASSUME NEW s \in Schemas, NEW clauses \in Seq(Clauses), Len(clauses) = 1
    PROVE  /\ clauses[1] \in Clauses
           /\ Alter(s, clauses)
                 = AddColumn(ChangeColumn(ModifyColumn(DropColumn(s, clauses[1]), clauses[1]),
                                          clauses[1]), clauses, 1)
<1>. DEFINE c == clauses[1]
            dropped  == FoldLeft(DropColumn, s, clauses)
            modified == FoldLeft(ModifyColumn, dropped, clauses)
            changed  == FoldLeft(ChangeColumn, modified, clauses)
<1>1. c \in Clauses
  OBVIOUS
<1>2. dropped = DropColumn(s, c) /\ dropped \in Schemas
  BY DropsOnce, DropsTyped
<1>. HIDE DEF dropped
<1>3. modified = ModifyColumn(dropped, c) /\ modified \in Schemas
  BY <1>2, ModifiesOnce, ModifiesTyped
<1>. HIDE DEF modified
<1>4. changed = ChangeColumn(modified, c) /\ changed \in Schemas
  BY <1>3, ChangesOnce, ChangesTyped
<1>. HIDE DEF changed
<1>5. FoldLeftDomain(LAMBDA u, i : AddColumn(u, clauses, i), changed, clauses)
        = AddColumn(changed, clauses, 1)
  BY <1>4, AddsOnce
<1>6. Alter(s, clauses) = FoldLeftDomain(LAMBDA u, i : AddColumn(u, clauses, i), changed, clauses)
  BY DEF Alter, changed, modified, dropped
<1>. QED BY <1>1, <1>2, <1>3, <1>4, <1>5, <1>6

LEMMA AlterDrops ==
    ASSUME NEW s \in Schemas, NEW clauses \in Seq(Clauses), Len(clauses) = 1,
           clauses[1].op = "drop"
    PROVE  /\ Alter(s, clauses).columns = WithoutColumn(s.columns, clauses[1].name)
           /\ Alter(s, clauses).pks = s.pks \ {clauses[1].name}
<1>1. Alter(s, clauses) = DropColumn(s, clauses[1])
  BY AlterOnce DEF AddColumn, ChangeColumn, ModifyColumn
<1>2. s = [columns |-> s.columns, pks |-> s.pks, version |-> s.version]
  BY SchemaIs
<1>. QED BY <1>1, <1>2 DEF DropColumn

LEMMA AlterModifies ==
    ASSUME NEW s \in Schemas, NEW clauses \in Seq(Clauses), Len(clauses) = 1,
           clauses[1].op = "modify"
    PROVE  /\ Alter(s, clauses).columns
                 = Rewrite(s.columns, clauses[1].name, clauses[1].name, clauses[1].type)
           /\ Alter(s, clauses).pks = s.pks
<1>1. Alter(s, clauses) = ModifyColumn(s, clauses[1])
  BY AlterOnce DEF AddColumn, ChangeColumn, DropColumn
<1>2. s = [columns |-> s.columns, pks |-> s.pks, version |-> s.version]
  BY SchemaIs
<1>. QED BY <1>1, <1>2 DEF ModifyColumn

LEMMA AlterChanges ==
    ASSUME NEW s \in Schemas, NEW clauses \in Seq(Clauses), Len(clauses) = 1,
           clauses[1].op = "change"
    PROVE  /\ Alter(s, clauses).columns
                 = Rewrite(s.columns, clauses[1].name, clauses[1].new, clauses[1].type)
           /\ Alter(s, clauses).pks
                 = IF clauses[1].name \in s.pks
                   THEN (s.pks \ {clauses[1].name}) \cup {clauses[1].new} ELSE s.pks
<1>1. Alter(s, clauses) = ChangeColumn(s, clauses[1])
  BY AlterOnce DEF AddColumn, ModifyColumn, DropColumn
<1>2. s = [columns |-> s.columns, pks |-> s.pks, version |-> s.version]
  BY SchemaIs
<1>. QED BY <1>1, <1>2 DEF ChangeColumn

LEMMA AlterAdds ==
    ASSUME NEW s \in Schemas, NEW clauses \in Seq(Clauses), Len(clauses) = 1,
           clauses[1].op = "add",
           clauses[1].name \notin NamesOf(s.columns)
    PROVE  /\ Alter(s, clauses).columns
                 = InsertAt(s.columns, PlaceOf(clauses, 1, s.columns),
                            [name |-> clauses[1].name, type |-> clauses[1].type])
           /\ Alter(s, clauses).pks = s.pks
<1>1. Alter(s, clauses) = AddColumn(s, clauses, 1)
  BY AlterOnce DEF ChangeColumn, ModifyColumn, DropColumn
<1>2. s = [columns |-> s.columns, pks |-> s.pks, version |-> s.version]
  BY SchemaIs
<1>. QED BY <1>1, <1>2 DEF AddColumn

LEMMA AlterAddsNoMore ==
    ASSUME NEW s \in Schemas, NEW clauses \in Seq(Clauses), Len(clauses) = 1,
           clauses[1].op = "add", clauses[1].name \in NamesOf(s.columns)
    PROVE  Alter(s, clauses) = s
BY AlterOnce DEF AddColumn, ChangeColumn, ModifyColumn, DropColumn

LEMMA ColumnsAre ==
    ASSUME NEW columns \in Seq(Columns)
    PROVE  /\ columns = [i \in DOMAIN columns |-> columns[i]]
           /\ \A i \in DOMAIN columns :
                 columns[i] = [name |-> columns[i].name, type |-> columns[i].type]
<1>1. \A c \in Columns : c = [name |-> c.name, type |-> c.type]
  BY DEF Columns
<1>2. columns \in [1..Len(columns) -> Columns]
  BY LenProperties
<1>. QED BY <1>1, <1>2

LEMMA SourceOnce ==
    ASSUME NEW t \in Schemas, NEW clauses \in Seq(Clauses), Len(clauses) = 1,
           clauses[1].rest # "key"
    PROVE  LET c == clauses[1]
               after == SourceAlter(t, clauses)
           IN  /\ c.op = "drop" => /\ after.columns = WithoutColumn(t.columns, c.name)
                                   /\ after.pks = t.pks \ {c.name}
               /\ c.op \in {"modify", "change"} /\ c.place = "last" =>
                     /\ after.columns = Rewrite(t.columns, c.name, c.new, c.type)
                     /\ after.pks = {IF name = c.name THEN c.new ELSE name : name \in t.pks}
               /\ c.op = "add" => after.columns = Placed(t.columns, c) /\ after.pks = t.pks
<1>. DEFINE c == clauses[1]
            ByName(ops, name) == {i \in DOMAIN clauses : clauses[i].op \in ops
                                                        /\ clauses[i].name = name}
            Gone(name) == ByName({"drop"}, name) # {}
            Touching(name) == ByName({"modify", "change", "rename"}, name)
            First(name) == clauses[Min(Touching(name))]
            NewName(name) == IF Touching(name) = {} THEN name ELSE First(name).new
            NewType(col) == IF Touching(col.name) = {} \/ First(col.name).op = "rename"
                            THEN col.type ELSE First(col.name).type
            Leaves(col) == \/ Gone(col.name)
                           \/ \E i \in Touching(col.name) : clauses[i].place # "last"
            kept == Without(t.columns, {col \in Range(t.columns) : Leaves(col)})
            base == [i \in DOMAIN kept |-> [name |-> NewName(kept[i].name), type |-> NewType(kept[i])]]
            keys == {i \in DOMAIN clauses : clauses[i].rest = "key"}
            pks == {NewName(name) : name \in {n \in t.pks : ~Gone(n)}}
<1>1. DOMAIN clauses = {1} /\ c \in Clauses
  OBVIOUS
<1>2. SourceAlter(t, clauses) = [columns |-> FoldLeft(Placed, base, clauses), pks |-> pks,
                                 version |-> t.version + 1]
  <2>1. {clauses[i].new : i \in keys} = {}
    BY <1>1
  <2>2. SourceAlter(t, clauses) = [columns |-> FoldLeft(Placed, base, clauses),
                                   pks |-> pks \cup {clauses[i].new : i \in keys},
                                   version |-> t.version + 1]
    BY DEF SourceAlter
  <2>3. pks \cup {clauses[i].new : i \in keys} = pks
    BY <2>1
  <2>. HIDE DEF base, pks, keys
  <2>. QED BY <2>2, <2>3
<1>3. \A name : Gone(name) <=> (c.op = "drop" /\ c.name = name)
  BY <1>1
<1>4. \A name : /\ Touching(name) \subseteq {1}
                /\ Touching(name) # {} <=> (c.op \in {"modify", "change", "rename"} /\ c.name = name)
  BY <1>1
<1>. HIDE DEF Gone, Touching
<1>5. \A name : Touching(name) # {} => First(name) = c
  <2>. SUFFICES ASSUME NEW name, Touching(name) # {} PROVE First(name) = c
    OBVIOUS
  <2>1. Touching(name) \subseteq Nat
    BY <1>4
  <2>2. Min(Touching(name)) \in Touching(name)
    BY <2>1, MinIs
  <2>. QED BY <2>2, <1>4
<1>. HIDE DEF First
<1>6. t.columns \in Seq(Columns) /\ t.pks \in SUBSET STRING
  BY SchemaIs
<1>7. kept \in Seq(Columns)
  BY <1>6, WithoutTyped
<1>8. /\ t.columns = [i \in DOMAIN t.columns |-> t.columns[i]]
      /\ \A i \in DOMAIN t.columns :
            t.columns[i] = [name |-> t.columns[i].name, type |-> t.columns[i].type]
  BY <1>6, ColumnsAre
<1>9. CASE c.op = "drop"
  <2>1. \A name : Touching(name) = {} /\ (Gone(name) <=> name = c.name)
    BY <1>3, <1>4, <1>9
  <2>2. {col \in Range(t.columns) : Leaves(col)} = {col \in Range(t.columns) : col.name = c.name}
    BY <2>1
  <2>3. kept = WithoutColumn(t.columns, c.name)
    BY <2>2 DEF WithoutColumn
  <2>4. pks = t.pks \ {c.name}
    BY <2>1
  <2>. HIDE DEF kept
  <2>5. base = kept
    <3>1. /\ kept = [i \in DOMAIN kept |-> kept[i]]
          /\ \A i \in DOMAIN kept : kept[i] = [name |-> kept[i].name, type |-> kept[i].type]
      BY <1>7, ColumnsAre
    <3>2. base = [i \in DOMAIN kept |-> kept[i]]
      BY <2>1, <3>1
    <3>. HIDE DEF base
    <3>. QED BY <3>1, <3>2
  <2>. HIDE DEF base, pks
  <2>6. FoldLeft(Placed, base, clauses) = base
    BY <1>7, <1>9, <2>5, PlacesOnce DEF Placed
  <2>. QED BY <1>2, <1>9, <2>3, <2>4, <2>5, <2>6
<1>10. CASE c.op \in {"modify", "change"} /\ c.place = "last"
  <2>1. \A name : /\ ~Gone(name)
                  /\ Touching(name) # {} <=> name = c.name
    BY <1>3, <1>4, <1>10
  <2>2. {col \in Range(t.columns) : Leaves(col)} = {}
    BY <2>1, <1>4, <1>10
  <2>3. kept = t.columns
    BY <2>2, <1>6, WithoutNone
  <2>4. \A name : NewName(name) = IF name = c.name THEN c.new ELSE name
    BY <1>5, <2>1
  <2>5. \A col : NewType(col) = IF col.name = c.name THEN c.type ELSE col.type
    BY <1>5, <1>10, <2>1
  <2>6. pks = {IF name = c.name THEN c.new ELSE name : name \in t.pks}
    BY <2>1, <2>4
  <2>. HIDE DEF kept, NewName, NewType
  <2>7. base = Rewrite(t.columns, c.name, c.new, c.type)
    <3>1. ASSUME NEW i \in DOMAIN t.columns
          PROVE  [name |-> NewName(t.columns[i].name), type |-> NewType(t.columns[i])]
                   = IF t.columns[i].name = c.name THEN [name |-> c.new, type |-> c.type]
                     ELSE t.columns[i]
      BY <1>8, <2>4, <2>5
    <3>. QED BY <2>3, <3>1 DEF Rewrite
  <2>. HIDE DEF base, pks
  <2>8. base \in Seq(Columns)
    BY <1>1, <1>6, <2>7, ClauseIs, RewriteTyped
  <2>9. FoldLeft(Placed, base, clauses) = base
    BY <1>10, <2>8, PlacesOnce DEF Placed
  <2>. QED BY <1>2, <1>10, <2>6, <2>7, <2>9
<1>11. CASE c.op = "add"
  <2>1. \A name : ~Gone(name) /\ Touching(name) = {}
    BY <1>3, <1>4, <1>11
  <2>2. {col \in Range(t.columns) : Leaves(col)} = {}
    BY <2>1
  <2>3. kept = t.columns
    BY <2>2, <1>6, WithoutNone
  <2>4. pks = t.pks
    BY <2>1
  <2>. HIDE DEF kept
  <2>5. base = t.columns
    <3>1. base = [i \in DOMAIN t.columns |-> t.columns[i]]
      BY <1>8, <2>1, <2>3
    <3>. HIDE DEF base
    <3>. QED BY <1>8, <3>1
  <2>. HIDE DEF base, pks
  <2>6. FoldLeft(Placed, base, clauses) = Placed(base, c)
    BY <1>6, <2>5, PlacesOnce
  <2>. QED BY <1>2, <1>11, <2>4, <2>5, <2>6
<1>. QED BY <1>9, <1>10, <1>11

LEMMA NamesDiffer ==
    ASSUME NEW columns \in Seq(Columns), Cardinality(NamesOf(columns)) = Len(columns)
    PROVE  \A i, j \in DOMAIN columns : columns[i].name = columns[j].name => i = j
<1>. DEFINE n == Len(columns)
            f == [i \in 1..n |-> columns[i].name]
<1>1. n \in Nat /\ DOMAIN columns = 1..n
  OBVIOUS
<1>2. f \in Surjection(1..n, NamesOf(columns))
  BY <1>1 DEF NamesOf, Surjection
<1>3. IsFiniteSet(1..n) /\ Cardinality(1..n) = n
  <2>1. 1 \in Int /\ n \in Int /\ (1 > n => n = 0) /\ n - 1 + 1 = n
    BY <1>1
  <2>2. IsFiniteSet(1..n) /\ Cardinality(1..n) = IF 1 > n THEN 0 ELSE n - 1 + 1
    BY <2>1, FS_Interval
  <2>. QED BY <2>1, <2>2
<1>. HIDE DEF f
<1>4. f \in Injection(1..n, NamesOf(columns))
  BY <1>2, <1>3, FS_Surjection
<1>5. \A i, j \in 1..n : f[i] = f[j] => i = j
  BY <1>4 DEF Injection, IsInjective
<1>. QED BY <1>1, <1>5 DEF f

LEMMA DropUnderstood ==
    ASSUME NEW columns \in Seq(Columns), NEW name
    PROVE  WithoutColumn(WithoutColumn(columns, name), name) = WithoutColumn(columns, name)
<1>. DEFINE S == {col \in Range(columns) : col.name = name}
            left == Without(columns, S)
            U == {col \in Range(left) : col.name = name}
<1>1. columns \in Seq(Range(columns))
  <2>1. columns \in [1..Len(columns) -> Columns] /\ Len(columns) \in Nat
    BY LenProperties
  <2>2. columns \in [1..Len(columns) -> Range(columns)]
    BY <2>1 DEF Range
  <2>. QED BY <2>1, <2>2
<1>2. left \in Seq(Range(columns) \ S)
  BY <1>1, WithoutTyped
<1>. HIDE DEF left
<1>3. \A i \in 1..Len(left) : left[i] \notin U
  BY <1>2
<1>4. Without(left, U) = left
  BY <1>2, <1>3, WithoutNone
<1>. QED BY <1>4 DEF WithoutColumn, left

LEMMA RewriteAgain ==
    ASSUME NEW columns \in Seq(Columns), NEW old, NEW new, NEW type
    PROVE  Rewrite(Rewrite(columns, old, new, type), old, new, type)
             = Rewrite(columns, old, new, type)
<1>. DEFINE r == Rewrite(columns, old, new, type)
            e == [name |-> new, type |-> type]
<1>1. /\ DOMAIN r = DOMAIN columns
      /\ \A i \in DOMAIN columns : r[i] = IF columns[i].name = old THEN e ELSE columns[i]
  BY DEF Rewrite
<1>2. r = [i \in DOMAIN columns |-> r[i]]
  BY DEF Rewrite
<1>. HIDE DEF r
<1>3. \A i \in DOMAIN columns : r[i] = IF r[i].name = old THEN e ELSE r[i]
  <2>. SUFFICES ASSUME NEW i \in DOMAIN columns, r[i].name = old PROVE r[i] = e
    OBVIOUS
  <2>. QED BY <1>1
<1>4. Rewrite(r, old, new, type) = [i \in DOMAIN columns |-> r[i]]
  BY <1>1, <1>3 DEF Rewrite
<1>. QED BY <1>2, <1>4 DEF r

LEMMA PlaceOnce ==
    ASSUME NEW columns \in Seq(Columns), NEW clauses \in Seq(Clauses), Len(clauses) = 1,
           clauses[1].op = "add", clauses[1].new = clauses[1].name,
           clauses[1].name # "first", clauses[1].place = "first" => clauses[1].rest = "short",
           clauses[1].place \in {"last", "first"} \cup NamesOf(columns)
    PROVE  LET c == clauses[1]
               k == PlaceOf(clauses, 1, columns)
           IN  /\ k \in 1..Len(columns) + 1
               /\ Placed(columns, c) = InsertAt(columns, k, [name |-> c.name, type |-> c.type])
<1>. DEFINE c == clauses[1]
            place == CASE c.place = "last" -> Len(columns) + 1
                       [] c.place = "first" -> 1
                       [] OTHER -> IndexOf(columns, c.place) + 1
            near == {j \in 1..(1 + FirstWindow) :
                        /\ j \in DOMAIN clauses /\ clauses[j].place = "first"
                        /\ \A m \in 1..j : clauses[m].rest # "long"}
            afters == {j \in 1..Len(clauses) : clauses[j].place \notin {"last", "first"}}
            anchor == IF afters = {} THEN 0 ELSE IndexOf(columns, clauses[Min(afters)].place)
            k == PlaceOf(clauses, 1, columns)
<1>1. DOMAIN clauses = {1} /\ Len(columns) \in Nat /\ DOMAIN columns = 1..Len(columns)
  OBVIOUS
<1>2. near # {} <=> c.place = "first"
  <2>1. 1 \in 1..(1 + FirstWindow)
    BY DEF FirstWindow
  <2>2. ASSUME c.place = "first" PROVE 1 \in near
    <3>1. \A m \in 1..1 : m = 1
      OBVIOUS
    <3>2. c.rest # "long"
      BY <2>2
    <3>. QED BY <1>1, <2>1, <2>2, <3>1, <3>2
  <2>3. ASSUME NEW j \in near PROVE c.place = "first"
    BY <1>1, <2>3
  <2>. QED BY <2>2, <2>3
<1>3. \A j : j \in afters <=> j = 1 /\ c.place \notin {"last", "first"}
  OBVIOUS
<1>4. k = IF near # {} THEN 1 ELSE IF anchor > 0 THEN anchor + 1 ELSE Len(columns) + 1
  BY DEF PlaceOf
<1>. HIDE DEF near, afters
<1>5. CASE c.place = "first"
  BY <1>1, <1>2, <1>4, <1>5 DEF Placed
<1>6. CASE c.place = "last"
  <2>1. anchor = 0
    BY <1>3, <1>6
  <2>. HIDE DEF anchor
  <2>2. k = Len(columns) + 1
    BY <1>2, <1>4, <1>6, <2>1
  <2>. QED BY <1>1, <1>6, <2>2 DEF Placed
<1>7. CASE c.place \notin {"last", "first"}
  <2>1. Min(afters) = 1
    <3>1. afters \subseteq Nat /\ afters # {}
      BY <1>3, <1>7
    <3>2. Min(afters) \in afters
      BY <3>1, MinIs
    <3>. QED BY <1>3, <3>2
  <2>2. anchor = IndexOf(columns, c.place)
    BY <1>3, <1>7, <2>1
  <2>3. IndexOf(columns, c.place) \in 1..Len(columns)
    <3>. DEFINE found == {i \in DOMAIN columns : columns[i].name = c.place}
    <3>1. found # {} /\ found \subseteq Nat
      BY <1>1, <1>7 DEF NamesOf
    <3>2. Min(found) \in found
      BY <3>1, MinIs
    <3>3. IndexOf(columns, c.place) = Min(found)
      BY <3>1 DEF IndexOf
    <3>. QED BY <1>1, <3>2, <3>3
  <2>. HIDE DEF anchor
  <2>4. k = IndexOf(columns, c.place) + 1
    BY <1>2, <1>4, <1>7, <2>2, <2>3
  <2>. HIDE DEF k
  <2>5. Placed(columns, c) = InsertAt(columns, IndexOf(columns, c.place) + 1,
                                      [name |-> c.name, type |-> c.type])
    BY <1>7 DEF Placed
  <2>6. k \in 1..Len(columns) + 1
    BY <1>1, <2>3, <2>4
  <2>. QED BY <2>4, <2>5, <2>6 DEF k
<1>. QED BY <1>5, <1>6, <1>7

LEMMA AddNew ==
    ASSUME NEW columns \in Seq(Columns), NEW k \in 1..Len(columns) + 1, NEW e \in Columns,
           Cardinality(NamesOf(InsertAt(columns, k, e))) = Len(InsertAt(columns, k, e))
    PROVE  e.name \notin NamesOf(columns) /\ e.name \in NamesOf(InsertAt(columns, k, e))
<1>. DEFINE after == InsertAt(columns, k, e)
            name == e.name
<1>1. /\ after \in Seq(Columns) /\ Len(after) = Len(columns) + 1
      /\ \A i \in 1..Len(columns) + 1 :
            after[i] = IF i < k THEN columns[i] ELSE IF i = k THEN e ELSE columns[i - 1]
  <2>1. \A i \in 1..Len(columns) + 1 :
            after[i] = IF i < k THEN columns[i] ELSE IF i = k THEN e ELSE columns[i - 1]
    BY InsertAtIs
  <2>2. after \in Seq(Columns) /\ Len(after) = Len(columns) + 1
    BY InsertAtIs
  <2>. QED BY <2>1, <2>2
<1>2. Cardinality(NamesOf(after)) = Len(after)
  OBVIOUS
<1>. HIDE DEF after
<1>3. Len(columns) \in Nat /\ DOMAIN columns = 1..Len(columns) /\ DOMAIN after = 1..Len(columns) + 1
  BY <1>1
<1>4. k \in DOMAIN after /\ after[k] = e
  BY <1>1, <1>3
<1>5. \A i \in DOMAIN after : after[i].name = name => i = k
  <2>1. \A i, j \in DOMAIN after : after[i].name = after[j].name => i = j
    BY <1>1, <1>2, NamesDiffer
  <2>. QED BY <1>4, <2>1
<1>6. ASSUME NEW j \in DOMAIN columns, columns[j].name = name PROVE FALSE
  <2>1. CASE j < k
    <3>1. j \in DOMAIN after /\ after[j] = columns[j] /\ j # k
      BY <1>1, <1>3, <2>1
    <3>. QED BY <1>5, <1>6, <3>1
  <2>2. CASE ~(j < k)
    <3>1. j + 1 \in DOMAIN after /\ ~(j + 1 < k) /\ j + 1 # k /\ j + 1 - 1 = j
      BY <1>3, <2>2
    <3>2. after[j + 1] = columns[j]
      BY <1>1, <1>3, <3>1
    <3>. QED BY <1>5, <1>6, <3>1, <3>2
  <2>. QED BY <2>1, <2>2
<1>. QED BY <1>4, <1>6 DEF NamesOf, after

LEMMA OnceUnderstood ==
    ASSUME NEW t \in Schemas, NEW v \in Nat, NEW ddl \in Statements,
           ddl.kind = "alter", t # NoSchema, Legal(ddl, t), Single(ddl)
    PROVE  LET after == SourceAlter(t, ddl.clauses)
               Becomes(u) == Alter([u EXCEPT !.version = v], ddl.clauses)
           IN  SameLayout(Becomes(t), after) /\ SameLayout(Becomes(after), after)
<1>. DEFINE clauses == ddl.clauses
            c == clauses[1]
            after == SourceAlter(t, clauses)
            s == [t EXCEPT !.version = v]
            again == [after EXCEPT !.version = v]
            name == c.name
<1>1. clauses \in Seq(Clauses) /\ Len(clauses) = 1
  BY StatementsAssumption DEF Single
<1>2. c \in Clauses /\ DOMAIN clauses = {1}
  BY <1>1
<1>3. after \in Schemas
  BY <1>1, SourceAlterTyped
<1>4. /\ s \in Schemas /\ s.columns = t.columns /\ s.pks = t.pks
      /\ again \in Schemas /\ again.columns = after.columns /\ again.pks = after.pks
  <2>. HIDE DEF after
  <2>. QED BY <1>3 DEF Schemas
<1>5. t.columns \in Seq(Columns)
  BY SchemaIs
<1>6. /\ c.name \in STRING /\ c.new \in STRING /\ c.type \in STRING
  BY <1>2, ClauseIs
<1>7. \/ c.op = "drop"
      \/ c.op = "modify" /\ c.new = c.name /\ c.place = "last"
      \/ c.op = "change" /\ c.place = "last"
      \/ c.op = "add" /\ c.new = c.name
  BY DEF Single
<1>. c.rest # "key"
  BY DEF Single
<1>. HIDE DEF s, again
<1>8. SUFFICES SameLayout(Alter(s, clauses), after) /\ SameLayout(Alter(again, clauses), after)
  BY DEF s, again
<1>9. CASE c.op = "drop"
  <2>1. after.columns = WithoutColumn(t.columns, name) /\ after.pks = t.pks \ {name}
    BY <1>1, <1>9, SourceOnce
  <2>2. /\ Alter(s, clauses).columns = WithoutColumn(t.columns, name)
        /\ Alter(s, clauses).pks = t.pks \ {name}
    BY <1>1, <1>4, <1>9, AlterDrops
  <2>3. /\ Alter(again, clauses).columns = WithoutColumn(after.columns, name)
        /\ Alter(again, clauses).pks = after.pks \ {name}
    BY <1>1, <1>4, <1>9, AlterDrops
  <2>4. WithoutColumn(after.columns, name) = after.columns
    BY <1>5, <2>1, DropUnderstood
  <2>. HIDE DEF after
  <2>. QED BY <2>1, <2>2, <2>3, <2>4 DEF SameLayout
<1>10. CASE c.op = "modify" /\ c.new = c.name /\ c.place = "last"
  <2>1. /\ after.columns = Rewrite(t.columns, name, c.new, c.type)
        /\ after.pks = {IF n = name THEN c.new ELSE n : n \in t.pks}
    BY <1>1, <1>10, SourceOnce
  <2>2. after.pks = t.pks
    BY <1>10, <2>1
  <2>3. /\ Alter(s, clauses).columns = Rewrite(t.columns, name, name, c.type)
        /\ Alter(s, clauses).pks = t.pks
    BY <1>1, <1>4, <1>10, AlterModifies
  <2>4. /\ Alter(again, clauses).columns = Rewrite(after.columns, name, name, c.type)
        /\ Alter(again, clauses).pks = after.pks
    BY <1>1, <1>4, <1>10, AlterModifies
  <2>5. Rewrite(after.columns, name, name, c.type) = after.columns
    BY <1>5, <1>10, <2>1, RewriteAgain
  <2>. HIDE DEF after
  <2>. QED BY <1>10, <2>1, <2>2, <2>3, <2>4, <2>5 DEF SameLayout
<1>11. CASE c.op = "change" /\ c.place = "last"
  <2>1. /\ after.columns = Rewrite(t.columns, name, c.new, c.type)
        /\ after.pks = {IF n = name THEN c.new ELSE n : n \in t.pks}
    BY <1>1, <1>11, SourceOnce
  <2>2. after.pks = IF name \in t.pks THEN (t.pks \ {name}) \cup {c.new} ELSE t.pks
    BY <2>1
  <2>3. /\ Alter(s, clauses).columns = Rewrite(t.columns, name, c.new, c.type)
        /\ Alter(s, clauses).pks = IF name \in t.pks
                                  THEN (t.pks \ {name}) \cup {c.new} ELSE t.pks
    BY <1>1, <1>4, <1>11, AlterChanges
  <2>4. /\ Alter(again, clauses).columns = Rewrite(after.columns, name, c.new, c.type)
        /\ Alter(again, clauses).pks = IF name \in after.pks
                                      THEN (after.pks \ {name}) \cup {c.new} ELSE after.pks
    BY <1>1, <1>4, <1>11, AlterChanges
  <2>5. Rewrite(after.columns, name, c.new, c.type) = after.columns
    BY <1>5, <2>1, RewriteAgain
  <2>. HIDE DEF after
  <2>6. name \in after.pks => c.new = name
    BY <2>2
  <2>7. Alter(again, clauses).pks = after.pks
    BY <2>4, <2>6
  <2>. QED BY <2>1, <2>2, <2>3, <2>4, <2>5, <2>7 DEF SameLayout
<1>12. CASE c.op = "add" /\ c.new = c.name
  <2>. DEFINE k == PlaceOf(clauses, 1, t.columns)
              more == InsertAt(t.columns, k, [name |-> name, type |-> c.type])
  <2>1. after.columns = Placed(t.columns, c) /\ after.pks = t.pks
    BY <1>1, <1>12, SourceOnce
  <2>2. c.place \in {"last", "first"} \cup NamesOf(t.columns)
    BY <1>2 DEF Legal
  <2>3. k \in 1..Len(t.columns) + 1 /\ Placed(t.columns, c) = more
    <3>1. c.name # "first" /\ (c.place = "first" => c.rest = "short")
      BY <1>12 DEF Single
    <3>. QED BY <1>1, <1>5, <1>12, <2>2, <3>1, PlaceOnce
  <2>4. Cardinality(NamesOf(after.columns)) = Len(after.columns)
    BY DEF Legal
  <2>. HIDE DEF k, after
  <2>5. name \notin NamesOf(t.columns) /\ name \in NamesOf(more)
    <3>. DEFINE e == [name |-> name, type |-> c.type]
    <3>1. e \in Columns /\ e.name = name
      BY <1>6 DEF Columns
    <3>2. more = InsertAt(t.columns, k, e)
      OBVIOUS
    <3>3. Cardinality(NamesOf(more)) = Len(more)
      BY <2>1, <2>3, <2>4
    <3>. HIDE DEF e, more, name
    <3>. QED BY <1>5, <2>3, <3>1, <3>2, <3>3, AddNew
  <2>. HIDE DEF more
  <2>6. Alter(s, clauses).columns = more /\ Alter(s, clauses).pks = t.pks
    BY <1>1, <1>4, <1>12, <2>5, AlterAdds DEF k, more
  <2>7. Alter(again, clauses) = again
    BY <1>1, <1>4, <1>12, <2>1, <2>3, <2>5, AlterAddsNoMore
  <2>. QED BY <1>4, <2>1, <2>3, <2>6, <2>7 DEF SameLayout
<1>. QED BY <1>7, <1>9, <1>10, <1>11, <1>12

-----------------------------------------------------------------------------
(* Lists of entries that are in order stay so.                             *)
LEMMA EmptyGood == \A n : Good(<<>>, n)
BY DEF Good, Sorted

LEMMA GoodLonger ==
    ASSUME NEW es, NEW n \in Nat, NEW m \in Nat, n <= m, Good(es, n)
    PROVE  Good(es, m)
<1>1. \A i \in DOMAIN es : es[i].pos \in Nat
  <2>1. \A e \in Entry : e.pos \in Nat
    BY DEF Entry
  <2>. QED BY <2>1 DEF Good
<1>. QED BY <1>1 DEF Good

LEMMA GoodPut ==
    ASSUME NEW es, NEW n \in Nat, NEW p \in 0..n, NEW schema \in Schemas, Good(es, n)
    PROVE  Good(Put(es, p, schema), n)
<1>1. es \in Seq(Entry) /\ Sorted(es) /\ p \in Nat /\ \A i \in 1..Len(es) : es[i].pos <= n
  BY DEF Good
<1>. DEFINE new == Put(es, p, schema)
<1>2. new \in Seq(Entry) /\ Sorted(new) /\ Len(new) = Len(es) + 1
  BY <1>1, PutIs
<1>3. ASSUME NEW i \in DOMAIN new PROVE new[i].pos <= n
  <2>1. PICK k \in 1..Len(es) + 1 :
            /\ new[k] = [pos |-> p, schema |-> schema]
            /\ \A j \in 1..k - 1 : new[j] = es[j] /\ es[j].pos <= p
            /\ \A j \in k..Len(es) : new[j + 1] = es[j] /\ es[j].pos > p
    BY <1>1, PutIs
  <2>. HIDE DEF new
  <2>2. i \in 1..Len(es) + 1
    BY <1>2
  <2>3. CASE i < k
    <3>1. i \in 1..Len(es) /\ i \in 1..k - 1
      BY <2>2, <2>3, <1>1
    <3>. QED BY <2>1, <3>1, <1>1
  <2>4. CASE i = k
    BY <2>1, <2>2, <2>4
  <2>5. CASE i > k
    <3>1. i - 1 \in 1..Len(es) /\ i - 1 \in k..Len(es) /\ (i - 1) + 1 = i
      BY <2>2, <2>5, <1>1
    <3>2. new[(i - 1) + 1] = es[i - 1]
      BY <2>1, <3>1
    <3>. QED BY <3>1, <3>2, <1>1
  <2>. QED BY <2>2, <2>3, <2>4, <2>5
<1>. QED BY <1>2, <1>3 DEF Good

LEMMA GoodEntries ==
    ASSUME NEW es, NEW n \in Nat, n <= MaxLog, Good(es, n)
    PROVE  es \in Seq(Entries)
<1>1. es \in Seq(Entry) /\ \A i \in 1..Len(es) : es[i].pos <= n
  BY DEF Good
<1>2. ASSUME NEW i \in 1..Len(es) PROVE es[i] \in Entries
  <2>1. es[i] \in Entry
    BY <1>1
  <2>2. es[i].pos \in Nat /\ es[i].schema \in Schemas /\ es[i].pos <= n
        /\ es[i] = [pos |-> es[i].pos, schema |-> es[i].schema]
    BY <1>1, <2>1 DEF Entry
  <2>3. es[i].pos \in 0..MaxLog
    BY <2>2, BoundsAssumption
  <2>. QED BY <2>2, <2>3 DEF Entries
<1>3. Len(es) \in Nat /\ es \in [1..Len(es) -> Entries]
  <2>1. es = [i \in 1..Len(es) |-> es[i]] /\ Len(es) \in Nat
    BY <1>1
  <2>. QED BY <1>2, <2>1
<1>. QED BY <1>3

LEMMA SchemaAtTyped ==
    ASSUME NEW es, NEW n, NEW p \in Nat, Good(es, n)
    PROVE  SchemaAt(es, p) \in Schemas
<1>1. es \in Seq(Entry) /\ Sorted(es)
  BY DEF Good
<1>2. \A i \in 1..Len(es) : es[i].schema \in Schemas
  <2>1. \A e \in Entry : e.schema \in Schemas
    BY DEF Entry
  <2>. QED BY <1>1, <2>1
<1>3. CASE es = <<>>
  BY <1>3, NoSchemaTyped DEF SchemaAt
<1>4. CASE es # <<>>
  <2>. DEFINE upTo == UpTo(es, p, 1, Len(es))
  <2>1. SchemaAt(es, p) = IF upTo = {} THEN es[1].schema ELSE es[Max(upTo)].schema
    BY <1>1, <1>4, SchemaAtIs
  <2>2. Len(es) \in Nat /\ Len(es) >= 1
    BY <1>1, <1>4
  <2>3. CASE upTo = {}
    BY <2>1, <2>2, <2>3, <1>2
  <2>4. CASE upTo # {}
    <3>1. upTo \subseteq 0..Len(es) /\ upTo \subseteq 1..Len(es)
      BY <2>2 DEF UpTo
    <3>2. Max(upTo) \in upTo
      BY <2>2, <2>4, <3>1, MaxIs
    <3>3. Max(upTo) \in 1..Len(es)
      BY <3>1, <3>2
    <3>. QED BY <2>1, <2>4, <3>3, <1>2
  <2>. QED BY <2>3, <2>4
<1>. QED BY <1>3, <1>4

-----------------------------------------------------------------------------
(* The log and the schemas behind its records.                             *)
LEMMA RecordIs ==
    ASSUME NEW r \in Records
    PROVE  /\ r.schema \in Schemas /\ r.type \in {"row", "ddl"}
           /\ r.type = "ddl" => r.ddl \in Statements
BY DEF Records

LEMMA LogTyped ==
    ASSUME LogInv
    PROVE  /\ Now \in Nat /\ DOMAIN log = 1..Now
           /\ \A p \in 1..Now : log[p] \in Records
           /\ \A p \in 0..Now : TrueSchema(p) \in Schemas
<1>1. Now \in Nat /\ DOMAIN log = 1..Now /\ \A p \in 1..Now : log[p] \in Records
  BY DEF LogInv, Now
<1>2. ASSUME NEW p \in 0..Now PROVE TrueSchema(p) \in Schemas
  <2>1. CASE p = 0
    BY <2>1, StatementsAssumption DEF TrueSchema
  <2>2. CASE p # 0
    <3>1. log[p] \in Records
      BY <1>1, <2>2
    <3>. QED BY <2>2, <3>1, RecordIs DEF TrueSchema
  <2>. QED BY <2>1, <2>2
<1>. QED BY <1>1, <1>2

LEMMA LogGrows ==
    ASSUME log \in Seq(Records), NEW r \in Records, log' = Append(log, r)
    PROVE  /\ log' \in Seq(Records) /\ Now' = Now + 1
           /\ \A p \in 1..Now : log'[p] = log[p]
           /\ log'[Now + 1] = r
           /\ \A p \in 0..Now : TrueSchema(p)' = TrueSchema(p)
           /\ TrueSchema(Now)' = r.schema
<1>1. Now \in Nat
  BY DEF Now
<1>2. /\ log' \in Seq(Records) /\ Now' = Now + 1
      /\ \A p \in 1..Now : log'[p] = log[p]
      /\ log'[Now + 1] = r
  BY DEF Now
<1>3. ASSUME NEW p \in 0..Now PROVE TrueSchema(p)' = TrueSchema(p)
  <2>1. CASE p = 0
    BY <2>1 DEF TrueSchema
  <2>2. CASE p # 0
    <3>1. p \in 1..Now
      BY <1>1, <2>2
    <3>. QED BY <3>1, <2>2, <1>2 DEF TrueSchema
  <2>. QED BY <2>1, <2>2
<1>4. TrueSchema(Now)' = r.schema
  BY <1>1, <1>2 DEF TrueSchema
<1>. QED BY <1>2, <1>3, <1>4

(* A table that exists has columns.                                        *)
LEMMA SourceHasColumns ==
    ASSUME NEW ddl \in Statements, NEW s \in Schemas, Legal(ddl, s),
           s = NoSchema \/ s.columns # <<>>
    PROVE  SourceDDL(ddl, s) = NoSchema \/ SourceDDL(ddl, s).columns # <<>>
<1>1. CASE ddl.kind \in {"drop", "rename"}
  BY <1>1 DEF SourceDDL
<1>2. CASE ddl.kind = "create"
  BY <1>2, StatementsAssumption DEF SourceDDL
<1>3. CASE ddl.kind = "alter"
  BY <1>3 DEF SourceDDL, Legal
<1>4. CASE ddl.kind = "other"
  <2>1. s # NoSchema
    BY <1>4 DEF Legal
  <2>2. Bump(s).columns = s.columns
    BY DEF Bump, Schemas
  <2>. QED BY <1>4, <2>1, <2>2 DEF SourceDDL
<1>. QED BY <1>1, <1>2, <1>3, <1>4, StatementsAssumption

LEMMA SourceStep ==
    ASSUME LogInv, Now <= MaxLog, SourceWrites
    PROVE  /\ LogInv' /\ Now' = Now + 1 /\ Now' <= MaxLog
           /\ \A p \in 1..Now : log'[p] = log[p]
           /\ \A p \in 0..Now : TrueSchema(p)' = TrueSchema(p)
<1>. DEFINE before == TrueSchema(Now)
<1>1. /\ Now \in Nat /\ DOMAIN log = 1..Now /\ before \in Schemas
      /\ log \in Seq(Records)
      /\ before = NoSchema \/ before.columns # <<>>
  <2>1. Now \in 0..Now
    BY LogTyped
  <2>. QED BY <2>1, LogTyped DEF LogInv
<1>2. \E r \in Records :
         /\ log' = Append(log, r)
         /\ r.schema = NoSchema \/ r.schema.columns # <<>>
         /\ IF r.type = "row" THEN r.schema = before /\ before # NoSchema
                              ELSE Legal(r.ddl, before) /\ r.schema = SourceDDL(r.ddl, before)
  <2>1. CASE /\ before # NoSchema
             /\ log' = Append(log, [type |-> "row", schema |-> before])
    <3>. DEFINE r == [type |-> "row", schema |-> before]
    <3>1. r \in Records
      BY <1>1 DEF Records
    <3>. QED BY <3>1, <2>1, <1>1
  <2>2. ASSUME NEW ddl \in Statements, Legal(ddl, before),
               log' = Append(log, [type |-> "ddl", ddl |-> ddl,
                                   schema |-> SourceDDL(ddl, before)])
        PROVE  \E r \in Records :
                  /\ log' = Append(log, r)
                  /\ r.schema = NoSchema \/ r.schema.columns # <<>>
                  /\ r.type = "ddl"
                  /\ Legal(r.ddl, before) /\ r.schema = SourceDDL(r.ddl, before)
    <3>. DEFINE after == SourceDDL(ddl, before)
                r == [type |-> "ddl", ddl |-> ddl, schema |-> after]
    <3>1. after \in Schemas /\ (after = NoSchema \/ after.columns # <<>>)
      BY <1>1, <2>2, SourceTyped, SourceHasColumns
    <3>. HIDE DEF after
    <3>2. r \in Records
      BY <3>1 DEF Records
    <3>. QED BY <3>1, <3>2, <2>2 DEF after
  <2>. QED BY <2>1, <2>2 DEF SourceWrites
<1>3. PICK r \in Records :
         /\ log' = Append(log, r)
         /\ r.schema = NoSchema \/ r.schema.columns # <<>>
         /\ IF r.type = "row" THEN r.schema = before /\ before # NoSchema
                              ELSE Legal(r.ddl, before) /\ r.schema = SourceDDL(r.ddl, before)
  BY <1>2
<1>4. /\ log' \in Seq(Records) /\ Now' = Now + 1
      /\ \A p \in 1..Now : log'[p] = log[p]
      /\ log'[Now + 1] = r
      /\ \A p \in 0..Now : TrueSchema(p)' = TrueSchema(p)
      /\ TrueSchema(Now)' = r.schema
  BY <1>1, <1>3, LogGrows
<1>5. Now' <= MaxLog
  BY <1>1, <1>4, BoundsAssumption DEF SourceWrites
<1>6. ASSUME NEW p \in DOMAIN log'
      PROVE  LET was == TrueSchema(p - 1)'
             IN  IF log'[p].type = "row"
                 THEN log'[p].schema = was /\ was # NoSchema
                 ELSE Legal(log'[p].ddl, was) /\ log'[p].schema = SourceDDL(log'[p].ddl, was)
  <2>1. p \in 1..Now + 1 /\ p - 1 \in 0..Now
    BY <1>1, <1>4 DEF Now
  <2>2. TrueSchema(p - 1)' = TrueSchema(p - 1)
    BY <1>4, <2>1
  <2>3. CASE p \in 1..Now
    BY <1>1, <1>4, <2>2, <2>3 DEF LogInv
  <2>4. CASE p = Now + 1
    <3>1. p - 1 = Now
      BY <1>1, <2>4
    <3>. QED BY <1>3, <1>4, <2>2, <2>4, <3>1
  <2>. QED BY <2>1, <2>3, <2>4, <1>1
<1>7. ASSUME NEW p \in 0..Now'
      PROVE  TrueSchema(p)' = NoSchema \/ TrueSchema(p)'.columns # <<>>
  <2>1. CASE p \in 0..Now
    BY <1>4, <2>1 DEF LogInv
  <2>2. CASE p = Now + 1
    <3>1. TrueSchema(p)' = r.schema
      <4>1. p # 0
        BY <1>1, <2>2
      <4>. QED BY <4>1, <1>4, <2>2 DEF TrueSchema
    <3>. QED BY <3>1, <1>3
  <2>. QED BY <1>1, <1>4, <2>1, <2>2
<1>8. LogInv'
  BY <1>4, <1>6, <1>7 DEF LogInv
<1>. QED BY <1>4, <1>5, <1>8

LEMMA LogStays ==
    ASSUME LogInv, log' = log
    PROVE  LogInv' /\ Now' = Now /\ \A p : TrueSchema(p)' = TrueSchema(p)
<1>1. Now' = Now /\ \A p : TrueSchema(p)' = TrueSchema(p)
  BY DEF Now, TrueSchema
<1>2. LogInv'
  BY <1>1 DEF LogInv
<1>. QED BY <1>1, <1>2

-----------------------------------------------------------------------------
(* The invariant that types and order follow from.                         *)
LEMMA InvInit == Init => Inv
<1>. SUFFICES ASSUME Init PROVE Inv
  OBVIOUS
<1>1. Now = 0 /\ DOMAIN log = {} /\ log \in Seq(Records)
  BY DEF Init, Now
<1>2. LogInv
  <2>1. \A p \in 0..Now : p = 0
    BY <1>1
  <2>2. TrueSchema(0) = InitialSchema
    BY DEF TrueSchema
  <2>3. \A p \in 0..Now : TrueSchema(p) = NoSchema \/ TrueSchema(p).columns # <<>>
    BY <2>1, <2>2, StatementsAssumption
  <2>. QED BY <1>1, <2>3 DEF LogInv
<1>3. FilesInv
  BY EmptyGood DEF Init, FilesInv
<1>4. WriterInv /\ ReaderInv
  BY <1>1 DEF Init, WriterInv, ReaderInv
<1>5. EventInv
  BY DEF Init, EventInv, NoEvent
<1>6. Now <= MaxLog /\ crashes \in 0..MaxCrashes
  BY <1>1, BoundsAssumption DEF Init
<1>. QED BY <1>2, <1>3, <1>4, <1>5, <1>6 DEF Inv

LEMMA SnapshotSchemaTyped ==
    ASSUME LogInv, NEW p \in 0..Now
    PROVE  SnapshotSchema(p) \in Schemas
<1>1. TrueSchema(p) \in Schemas
  BY LogTyped
<1>. QED BY <1>1 DEF SnapshotSchema, Schemas

(* A statement is at a position of the log and has a schema to go with.    *)
LEMMA DDLTyped ==
    ASSUME Inv, Reading("ddl")
    PROVE  /\ next \in 1..Now /\ next \in 0..Now
           /\ log[next].ddl \in Statements
           /\ ApplyDDL(log[next].ddl, SchemaAt(history, next)) \in Schemas
<1>1. Now \in Nat /\ DOMAIN log = 1..Now /\ \A p \in 1..Now : log[p] \in Records
  BY LogTyped DEF Inv
<1>2. next \in 1..Now
  BY <1>1 DEF Inv, ReaderInv, Reading
<1>3. log[next].ddl \in Statements
  BY <1>1, <1>2, RecordIs DEF Reading
<1>4. SchemaAt(history, next) \in Schemas
  BY <1>2, SchemaAtTyped DEF Inv, FilesInv
<1>. QED BY <1>1, <1>2, <1>3, <1>4, ApplyTyped

LEMMA InvStep == Inv /\ [Next]_vars => Inv'
<1>. SUFFICES ASSUME Inv, [Next]_vars PROVE Inv'
  OBVIOUS
<1>. USE DEF Inv
<1>0. /\ Now \in Nat /\ MaxLog \in Nat /\ MaxCrashes \in Nat
      /\ next \in Nat /\ snapshotAt \in Nat /\ fetchedAt \in Nat /\ crashes \in Nat
  BY LogTyped, BoundsAssumption DEF ReaderInv
<1>1. ASSUME log' = log PROVE LogInv' /\ Now' = Now /\ Now' <= MaxLog
  BY <1>1, LogStays
<1>2. ASSUME log' = log, UNCHANGED <<history, files>> PROVE FilesInv'
  BY <1>1, <1>2 DEF FilesInv, files
<1>3. CASE SourceWrites
  <2>. USE <1>3 DEF SourceWrites, files, reading, taken
  <2>1. LogInv' /\ Now' = Now + 1 /\ Now' <= MaxLog /\ \A p \in 1..Now : log'[p] = log[p]
    BY SourceStep
  <2>2. \A es : Good(es, Now) => Good(es, Now')
    BY <2>1, <1>0, GoodLonger
  <2>3. FilesInv'
    BY <2>2 DEF FilesInv
  <2>4. WriterInv'
    BY <2>1, <1>0 DEF WriterInv
  <2>5. ReaderInv'
    BY <2>1, <1>0 DEF ReaderInv, NoOffset
  <2>6. EventInv'
    BY <2>1, <1>0 DEF EventInv
  <2>. QED BY <2>1, <2>3, <2>4, <2>5, <2>6
<1>4. CASE StartSnapshot
  <2>. USE <1>4 DEF StartSnapshot
  <2>1. LogInv' /\ Now' = Now /\ Now' <= MaxLog
    BY <1>1
  <2>2. FilesInv'
    BY <1>2
  <2>3. WriterInv'
    BY DEF WriterInv, files
  <2>4. ReaderInv'
    BY <2>1, <1>0 DEF ReaderInv
  <2>5. EventInv'
    BY <2>1 DEF EventInv
  <2>. QED BY <2>1, <2>2, <2>3, <2>4, <2>5
<1>16. CASE FetchSchema
  <2>. USE <1>16 DEF FetchSchema, files
  <2>1. LogInv' /\ Now' = Now /\ Now' <= MaxLog
    BY <1>1
  <2>2. FilesInv'
    <3>1. snapshotAt \in 0..Now /\ Now \in 0..Now /\ SnapshotSchema(Now) \in Schemas
      BY <1>0, SnapshotSchemaTyped DEF ReaderInv
    <3>2. Good(Put(history, snapshotAt, SnapshotSchema(Now)), Now)
      BY <1>0, <3>1, GoodPut DEF FilesInv
    <3>. QED BY <2>1, <3>2, EmptyGood DEF FilesInv, OpenTmp
  <2>3. WriterInv'
    BY DEF WriterInv, OpenTmp
  <2>4. ReaderInv'
    BY <2>1, <1>0 DEF ReaderInv
  <2>5. EventInv'
    BY <2>1 DEF EventInv
  <2>. QED BY <2>1, <2>2, <2>3, <2>4, <2>5
<1>5. ASSUME NEW p \in snapshotAt..Now, StreamFrom(p), writer = "idle", offset' \in snapshotAt..Now
      PROVE  Inv'
  <2>. USE <1>5 DEF StreamFrom, taken
  <2>1. LogInv' /\ Now' = Now /\ Now' <= MaxLog
    BY <1>1
  <2>2. FilesInv'
    BY <1>2
  <2>3. WriterInv'
    BY DEF WriterInv
  <2>4. ReaderInv'
    <3>1. next' \in {p, p + 1} /\ next' # 0
      BY <1>0, BoundsAssumption
    <3>. QED BY <2>1, <3>1, <1>0 DEF ReaderInv, NoOffset
  <2>5. EventInv'
    BY <2>1 DEF EventInv
  <2>. QED BY <2>1, <2>2, <2>3, <2>4, <2>5
<1>6. CASE SnapshotComplete
  BY <1>5, <1>6, <1>0 DEF SnapshotComplete, ReaderInv
<1>7. CASE StartFromOffset
  <2>1. writer = "idle" /\ offset \in snapshotAt..Now
    BY <1>7 DEF StartFromOffset, WriterInv, ReaderInv
  <2>. QED BY <2>1, <1>5, <1>7 DEF StartFromOffset
<1>8. CASE OnRow
  <2>. USE <1>8 DEF OnRow, Reading, taken
  <2>1. LogInv' /\ Now' = Now /\ Now' <= MaxLog
    BY <1>1
  <2>2. FilesInv'
    BY <1>2
  <2>3. WriterInv'
    BY DEF WriterInv
  <2>4. ReaderInv'
    BY <2>1, <1>0 DEF ReaderInv
  <2>5. EventInv'
    BY <2>1, <1>0 DEF EventInv, Decoded, ReaderInv
  <2>. QED BY <2>1, <2>2, <2>3, <2>4, <2>5
<1>9. CASE OnDDL
  <2>. USE <1>9 DEF OnDDL, taken
  <2>1. LogInv' /\ Now' = Now /\ Now' <= MaxLog
    BY <1>1
  <2>2. FilesInv'
    <3>1. next \in 0..Now /\ ApplyDDL(log[next].ddl, SchemaAt(history, next)) \in Schemas
      BY DDLTyped
    <3>2. Good(Put(history, next, ApplyDDL(log[next].ddl, SchemaAt(history, next))), Now)
      BY <1>0, <3>1, GoodPut DEF FilesInv
    <3>. QED BY <2>1, <3>2, EmptyGood DEF FilesInv, OpenTmp
  <2>3. WriterInv'
    BY <2>1, DDLTyped DEF WriterInv, OpenTmp, reading, Reading
  <2>4. ReaderInv'
    BY <2>1 DEF ReaderInv, reading
  <2>5. EventInv'
    BY <2>1 DEF EventInv, reading
  <2>. QED BY <2>1, <2>2, <2>3, <2>4, <2>5
<1>10. CASE DumpTmp
  <2>. USE <1>10 DEF DumpTmp, reading, taken
  <2>1. LogInv' /\ Now' = Now /\ Now' <= MaxLog
    BY <1>1
  <2>2. FilesInv'
    BY <2>1 DEF FilesInv
  <2>3. WriterInv'
    BY <2>1 DEF WriterInv
  <2>4. ReaderInv'
    BY <2>1 DEF ReaderInv
  <2>5. EventInv'
    BY <2>1 DEF EventInv
  <2>. QED BY <2>1, <2>2, <2>3, <2>4, <2>5
<1>11. CASE Replace
  <2>. USE <1>11 DEF Replace, taken
  <2>1. LogInv' /\ Now' = Now /\ Now' <= MaxLog
    BY <1>1
  <2>2. FilesInv'
    BY <2>1, EmptyGood DEF FilesInv
  <2>3. WriterInv'
    BY DEF WriterInv
  <2>4. ReaderInv'
    BY <2>1, <1>0 DEF ReaderInv, WriterInv
  <2>5. EventInv'
    BY <2>1 DEF EventInv, SchemaEvent
  <2>. QED BY <2>1, <2>2, <2>3, <2>4, <2>5
<1>12. CASE StoreFails
  <2>. USE <1>12 DEF StoreFails, taken
  <2>1. LogInv' /\ Now' = Now /\ Now' <= MaxLog
    BY <1>1
  <2>2. FilesInv'
    BY <1>2
  <2>3. WriterInv'
    BY DEF WriterInv
  <2>4. ReaderInv'
    BY <2>1 DEF ReaderInv
  <2>5. EventInv'
    BY <2>1 DEF EventInv
  <2>. QED BY <2>1, <2>2, <2>3, <2>4, <2>5
<1>13. CASE Acknowledge
  <2>. USE <1>13 DEF Acknowledge, reading, taken
  <2>1. LogInv' /\ Now' = Now /\ Now' <= MaxLog
    BY <1>1
  <2>2. FilesInv'
    BY <1>2
  <2>3. WriterInv'
    BY <2>1 DEF WriterInv, files
  <2>4. ReaderInv'
    BY <2>1, <1>0 DEF ReaderInv, NoOffset
  <2>5. EventInv'
    BY <2>1 DEF EventInv
  <2>. QED BY <2>1, <2>2, <2>3, <2>4, <2>5
<1>14. CASE Restart
  <2>. USE <1>14 DEF Restart, files, taken
  <2>1. LogInv' /\ Now' = Now /\ Now' <= MaxLog
    BY <1>1
  <2>2. FilesInv'
    <3>1. Loaded(persisted) = persisted
      BY LoadedIs DEF FilesInv, Good
    <3>. QED BY <2>1, <3>1 DEF FilesInv
  <2>3. WriterInv'
    BY DEF WriterInv
  <2>4. ReaderInv'
    BY <2>1, <1>0 DEF ReaderInv
  <2>5. EventInv'
    BY DEF EventInv, NoEvent
  <2>6. crashes' \in 0..MaxCrashes
    BY <1>0
  <2>. QED BY <2>1, <2>2, <2>3, <2>4, <2>5, <2>6
<1>15. CASE UNCHANGED vars
  <2>. USE <1>15 DEF vars, files, reading, taken
  <2>1. LogInv' /\ Now' = Now /\ Now' <= MaxLog
    BY <1>1
  <2>2. FilesInv' /\ WriterInv' /\ ReaderInv' /\ EventInv'
    BY <2>1 DEF FilesInv, WriterInv, ReaderInv, EventInv
  <2>. QED BY <2>1, <2>2
<1>. QED BY <1>3, <1>4, <1>16, <1>6, <1>7, <1>8, <1>9, <1>10, <1>11, <1>12, <1>13, <1>14, <1>15 DEF Next

LEMMA InvAlways == Spec => []Inv
BY InvInit, InvStep, PTL DEF Spec

(* Whatever the log, the reader, the writer of the file and the crashes do, *)
(* every variable keeps its type.                                          *)
THEOREM TypeCorrect == Spec => []TypeOK
<1>1. Inv => TypeOK
  <2>. SUFFICES ASSUME Inv PROVE TypeOK
    OBVIOUS
  <2>1. Now \in Nat /\ Now <= MaxLog /\ MaxLog \in Nat
    BY LogTyped, BoundsAssumption DEF Inv
  <2>2. history \in Seq(Entries) /\ persisted \in Seq(Entries) /\ tmpFile \in Seq(Entries)
    BY <2>1, GoodEntries DEF Inv, FilesInv
  <2>3. /\ next \in 0..(MaxLog + 1) /\ snapshotAt \in 0..MaxLog
        /\ fetchedAt \in snapshotAt..MaxLog /\ offset \in NoOffset..MaxLog
    BY <2>1 DEF Inv, ReaderInv, NoOffset
  <2>. QED BY <2>1, <2>2, <2>3 DEF Inv, WriterInv, ReaderInv, EventInv, TypeOK
<1>. QED BY <1>1, InvAlways, PTL

(* schema_at returns the newest entry at or before the position, in every  *)
(* history that put, _load and restarts can leave behind.                  *)
THEOREM LookupsFindLatest == Spec => []LookupIsLatest
<1>1. Inv => LookupIsLatest
  <2>. SUFFICES ASSUME Inv, NEW p \in 0..Now,
                       {i \in DOMAIN history : history[i].pos <= p} # {}
                PROVE  SchemaAt(history, p)
                         = history[Max({i \in DOMAIN history : history[i].pos <= p})].schema
    BY DEF LookupIsLatest
  <2>1. history \in Seq(Entry) /\ Sorted(history) /\ p \in Nat
    BY DEF Inv, FilesInv, Good
  <2>2. {i \in DOMAIN history : history[i].pos <= p} = UpTo(history, p, 1, Len(history))
    BY <2>1 DEF UpTo
  <2>3. history # <<>>
    BY <2>1
  <2>. QED BY <2>1, <2>2, <2>3, SchemaAtIs
<1>. QED BY <1>1, InvAlways, PTL

-----------------------------------------------------------------------------
(* What a complete history says of a position, if its entries are right.   *)
LEMMA SchemaOfIs ==
    /\ \A p : TrueSchema(p) = SchemaOf(log, p)
    /\ \A p : Recreated(p) <=> CreatedSince(log, snapshotAt, p)
    /\ Quiet <=> QuietIn(log, snapshotAt, fetchedAt)
BY DEF TrueSchema, SchemaOf, Recreated, CreatedSince, Quiet, QuietIn, IsDDL

(* Between two statements the schema is the same.                          *)
LEMMA SchemaSteady ==
    ASSUME LogInv, NEW q \in 0..Now, NEW p \in q..Now,
           \A i \in (q + 1)..p : ~IsDDL(log, i)
    PROVE  SchemaOf(log, p) = SchemaOf(log, q)
<1>. DEFINE Changed == {i \in Nat : q <= i /\ i <= p /\ SchemaOf(log, i) # SchemaOf(log, q)}
<1>1. Now \in Nat /\ q \in Nat /\ p \in Nat /\ q <= p /\ p <= Now
  BY LogTyped
<1>2. SUFFICES ASSUME Changed # {} PROVE FALSE
  <2>1. p \in Changed \/ SchemaOf(log, p) = SchemaOf(log, q)
    BY <1>1
  <2>. QED BY <2>1
<1>3. PICK i \in Changed : \A j \in Changed : i <= j
  <2>1. Changed \subseteq Nat
    OBVIOUS
  <2>. QED BY <1>2, <2>1, LeastNumber
<1>4. i \in Nat /\ q < i /\ i <= p /\ SchemaOf(log, i) # SchemaOf(log, q)
  BY <1>1
<1>5. i - 1 \in Nat /\ q <= i - 1 /\ i - 1 <= p /\ i - 1 < i
  BY <1>1, <1>4
<1>6. SchemaOf(log, i - 1) = SchemaOf(log, q)
  <2>1. ~(i <= i - 1)
    BY <1>4
  <2>2. i - 1 \notin Changed
    BY <1>3, <2>1
  <2>. QED BY <1>5, <2>2
<1>7. log[i].schema = TrueSchema(i - 1)
  <2>1. i \in 1..Now /\ i \in (q + 1)..p
    BY <1>1, <1>4
  <2>2. log[i].type = "row"
    <3>1. log[i] \in Records
      BY <2>1, LogTyped
    <3>. QED BY <2>1, <3>1, RecordIs DEF IsDDL
  <2>3. i \in DOMAIN log
    BY <2>1, LogTyped
  <2>. QED BY <2>2, <2>3 DEF LogInv
<1>8. SchemaOf(log, i) = log[i].schema
  BY <1>1, <1>4 DEF SchemaOf
<1>. QED BY <1>4, <1>6, <1>7, <1>8, SchemaOfIs

LEMMA CreatedLonger ==
    ASSUME NEW lg, NEW at \in Nat, NEW q \in Nat, NEW p \in Nat, q <= p,
           CreatedSince(lg, at, q)
    PROVE  CreatedSince(lg, at, p)
BY DEF CreatedSince

LEMMA LatestRight ==
    ASSUME LogInv, snapshotAt \in 0..Now,
           NEW es, Good(es, Now), EntriesRight(log, snapshotAt, es),
           NEW r \in 0..Now, Complete(log, snapshotAt, es, r),
           NEW p \in snapshotAt..r
    PROVE  Right(log, snapshotAt, SchemaAt(es, p), p)
<1>. DEFINE upTo == UpTo(es, p, 1, Len(es))
            at == snapshotAt
<1>1. /\ es \in Seq(Entry) /\ Sorted(es) /\ Len(es) \in Nat /\ DOMAIN es = 1..Len(es)
      /\ \A i \in 1..Len(es) : es[i].pos \in Nat
  <2>1. \A e \in Entry : e.pos \in Nat
    BY DEF Entry
  <2>. QED BY <2>1 DEF Good
<1>2. Now \in Nat /\ at \in Nat /\ p \in Nat /\ r \in Nat /\ at <= p /\ p <= r /\ r <= Now
  BY LogTyped
<1>3. ASSUME NEW q \in 0..Now, at <= q, q <= p, \A i \in 1..Len(es) : es[i].pos <= p => es[i].pos <= q
      PROVE  SchemaOf(log, p) = SchemaOf(log, q)
  <2>1. ASSUME NEW i \in (q + 1)..p PROVE ~IsDDL(log, i)
    <3>1. i \in (at + 1)..r /\ i <= p /\ ~(i <= q)
      BY <1>2, <1>3
    <3>2. ~HasEntry(es, i)
      BY <1>1, <1>3, <3>1 DEF HasEntry
    <3>. QED BY <3>1, <3>2 DEF Complete
  <2>2. p \in q..Now
    BY <1>2, <1>3
  <2>. QED BY <2>1, <2>2, SchemaSteady
<1>4. ASSUME \A i \in 1..Len(es) : es[i].pos <= p => es[i].pos < at
      PROVE  SchemaOf(log, p) = NoSchema
  <2>1. ~HasEntry(es, at)
    BY <1>1, <1>2, <1>4 DEF HasEntry
  <2>2. SchemaOf(log, at) = NoSchema
    BY <2>1 DEF Complete
  <2>3. SchemaOf(log, p) = SchemaOf(log, at)
    BY <1>1, <1>2, <1>3, <1>4
  <2>. QED BY <2>2, <2>3
<1>5. CASE upTo = {}
  <2>1. \A i \in 1..Len(es) : es[i].pos <= p => es[i].pos < at
    BY <1>5 DEF UpTo
  <2>. QED BY <1>4, <2>1 DEF Right
<1>6. CASE upTo # {}
  <2>. DEFINE m == Max(upTo)
              q == es[m].pos
  <2>1. upTo \subseteq 0..Len(es)
    BY <1>1 DEF UpTo
  <2>2. m \in upTo /\ \A i \in upTo : i <= m
    BY <2>1, <1>1, <1>6, MaxIs
  <2>. HIDE DEF m
  <2>3. m \in 1..Len(es) /\ q <= p /\ q \in Nat
    BY <1>1, <2>2 DEF UpTo
  <2>4. ASSUME NEW i \in 1..Len(es), es[i].pos <= p PROVE es[i].pos <= q
    <3>1. i \in upTo
      BY <2>4 DEF UpTo
    <3>2. i < m \/ i = m
      BY <3>1, <2>2, <2>3
    <3>3. CASE i < m
      BY <3>3, <1>1, <2>3 DEF Sorted
    <3>4. CASE i = m
      BY <3>4, <2>3
    <3>. QED BY <3>2, <3>3, <3>4
  <2>5. SchemaAt(es, p) = es[m].schema
    <3>1. es # <<>>
      BY <2>3, <1>1
    <3>. QED BY <1>1, <1>2, <1>6, <3>1, SchemaAtIs DEF m
  <2>6. CASE q < at
    <3>1. \A i \in 1..Len(es) : es[i].pos <= p => es[i].pos < at
      BY <1>1, <1>2, <2>3, <2>4, <2>6
    <3>. QED BY <1>4, <3>1 DEF Right
  <2>7. CASE at <= q
    <3>1. SchemaOf(log, p) = SchemaOf(log, q)
      BY <1>2, <1>3, <2>3, <2>4, <2>7
    <3>2. Right(log, at, es[m].schema, q)
      BY <1>1, <1>2, <2>3, <2>7 DEF EntriesRight
    <3>3. CreatedSince(log, at, q) => CreatedSince(log, at, p)
      BY <1>2, <2>3, CreatedLonger
    <3>. QED BY <2>5, <3>1, <3>2, <3>3 DEF Right
  <2>. QED BY <2>3, <2>6, <2>7, <1>2
<1>. QED BY <1>5, <1>6

(* Behind the last entry the lookup does not change.                       *)
LEMMA LookupSteady ==
    ASSUME NEW es, NEW n, Good(es, n), NEW q \in Nat, NEW p \in Nat, q <= p, NoneLater(es, q)
    PROVE  SchemaAt(es, p) = SchemaAt(es, q)
<1>1. es \in Seq(Entry) /\ Sorted(es) /\ DOMAIN es = 1..Len(es)
      /\ \A i \in 1..Len(es) : es[i].pos \in Nat
  <2>1. \A e \in Entry : e.pos \in Nat
    BY DEF Entry
  <2>. QED BY <2>1 DEF Good
<1>2. CASE es = <<>>
  BY <1>2 DEF SchemaAt
<1>3. CASE es # <<>>
  <2>1. UpTo(es, p, 1, Len(es)) = UpTo(es, q, 1, Len(es))
    BY <1>1 DEF UpTo, NoneLater
  <2>2. /\ SchemaAt(es, p) = IF UpTo(es, p, 1, Len(es)) = {} THEN es[1].schema
                             ELSE es[Max(UpTo(es, p, 1, Len(es)))].schema
        /\ SchemaAt(es, q) = IF UpTo(es, q, 1, Len(es)) = {} THEN es[1].schema
                             ELSE es[Max(UpTo(es, q, 1, Len(es)))].schema
    BY <1>1, <1>3, SchemaAtIs
  <2>. QED BY <2>1, <2>2
<1>. QED BY <1>2, <1>3

LEMMA AlterRight ==
    ASSUME Understood(Statements, Schemas, Nat),
           NEW ddl \in Statements, ddl.kind = "alter",
           NEW t \in Schemas, t # NoSchema, Legal(ddl, t),
           NEW s \in Schemas,
           SameLayout(s, t) \/ SameLayout(s, SourceAlter(t, ddl.clauses))
    PROVE  SameLayout(Alter(s, ddl.clauses), SourceAlter(t, ddl.clauses))
<1>. DEFINE after == SourceAlter(t, ddl.clauses)
<1>1. after \in Schemas
  BY StatementsAssumption, SourceAlterTyped
<1>. HIDE DEF after
<1>2. ASSUME NEW u \in Schemas, SameLayout(s, u) PROVE s = [u EXCEPT !.version = s.version]
  <2>1. /\ s = [columns |-> s.columns, pks |-> s.pks, version |-> s.version]
        /\ u = [columns |-> u.columns, pks |-> u.pks, version |-> u.version]
    BY SchemaIs
  <2>2. [u EXCEPT !.version = s.version]
          = [columns |-> u.columns, pks |-> u.pks, version |-> s.version]
    BY <2>1
  <2>. QED BY <1>2, <2>1, <2>2 DEF SameLayout
<1>3. s.version \in Nat
  BY SchemaIs
<1>4. /\ SameLayout(Alter([t EXCEPT !.version = s.version], ddl.clauses), after)
      /\ SameLayout(Alter([after EXCEPT !.version = s.version], ddl.clauses), after)
  BY <1>3 DEF Understood, after
<1>5. CASE SameLayout(s, t)
  BY <1>2, <1>4, <1>5 DEF after
<1>6. CASE SameLayout(s, after)
  BY <1>1, <1>2, <1>4, <1>6 DEF after
<1>. QED BY <1>5, <1>6 DEF after

LEMMA BumpRight ==
    ASSUME NEW s \in Schemas, NEW t \in Schemas, SameLayout(s, t)
    PROVE  SameLayout(Bump(s), t) /\ SameLayout(Bump(s), Bump(t)) /\ SameLayout(s, Bump(t))
BY DEF Bump, SameLayout, Schemas

(* How far a history reaches grows with the rows and statements read.      *)
LEMMA PositionIs ==
    ASSUME NEW es, NEW n, Good(es, n)
    PROVE  es \in Seq(Entry) /\ Sorted(es) /\ \A i \in DOMAIN es : es[i].pos \in Nat
<1>1. \A e \in Entry : e.pos \in Nat
  BY DEF Entry
<1>. QED BY <1>1 DEF Good

LEMMA ReachesLess ==
    ASSUME NEW lg, NEW at, NEW es, NEW off \in Int, NEW off2 \in Int, NEW p \in Int, NEW p2 \in Int,
           p2 <= p, off2 <= off \/ off2 <= p, Reaches(lg, at, off, es, p)
    PROVE  Reaches(lg, at, off2, es, p2)
BY DEF Reaches

LEMMA ReachesSnapshot ==
    ASSUME NEW lg, Len(lg) \in Nat, NEW at \in 0..Len(lg), NEW es, NEW p \in Int, p <= at,
           Complete(lg, at, es, at)
    PROVE  Reaches(lg, at, at, es, p)
BY DEF Reaches

LEMMA ReachesOffset ==
    ASSUME NEW lg, Len(lg) \in Nat, NEW at \in Nat, NEW off \in Int, NEW es,
           NEW q \in Int, NEW p \in Int, p <= off, Reaches(lg, at, off, es, q)
    PROVE  Reaches(lg, at, off, es, p)
BY DEF Reaches

LEMMA ReachesRow ==
    ASSUME NEW lg, NEW at \in Nat, NEW off \in Int, NEW es, Len(lg) \in Nat, NEW n \in 1..Len(lg),
           Good(es, Len(lg)), at <= n, ~IsDDL(lg, n), Reaches(lg, at, off, es, n - 1)
    PROVE  Reaches(lg, at, off, es, n)
<1>1. PICK r \in Nat : n - 1 <= r /\ r <= Len(lg) /\ at <= r /\ off <= r /\ Complete(lg, at, es, r)
  BY DEF Reaches
<1>2. CASE n <= r
  BY <1>1, <1>2 DEF Reaches
<1>3. CASE ~(n <= r)
  <2>1. r = n - 1 /\ n \in Nat
    BY <1>1, <1>3
  <2>2. \A q \in (at + 1)..n : q = n \/ q \in (at + 1)..r
    BY <2>1
  <2>3. NoneLater(es, n)
    BY <1>1, <2>1, PositionIs DEF NoneLater, Complete
  <2>4. Complete(lg, at, es, n)
    BY <1>1, <2>2, <2>3 DEF Complete
  <2>. QED BY <1>1, <2>1, <2>4 DEF Reaches
<1>. QED BY <1>2, <1>3

LEMMA PutCovers ==
    ASSUME NEW es, NEW n, Good(es, n), NEW p \in Nat, NEW schema \in Schemas
    PROVE  /\ HasEntry(Put(es, p, schema), p)
           /\ \A q : HasEntry(es, q) => HasEntry(Put(es, p, schema), q)
           /\ \A m \in Nat : p <= m /\ NoneLater(es, m) => NoneLater(Put(es, p, schema), m)
           /\ \A lg, at : Right(lg, at, schema, p) /\ EntriesRight(lg, at, es)
                          => EntriesRight(lg, at, Put(es, p, schema))
<1>. DEFINE new == Put(es, p, schema)
            e == [pos |-> p, schema |-> schema]
<1>1. es \in Seq(Entry) /\ Sorted(es) /\ Len(es) \in Nat /\ DOMAIN es = 1..Len(es)
  BY PositionIs
<1>2. DOMAIN new = 1..Len(es) + 1
  <2>1. new \in Seq(Entry) /\ Len(new) = Len(es) + 1
    BY <1>1, PutIs
  <2>. HIDE DEF new
  <2>. QED BY <2>1
<1>3. PICK k \in 1..Len(es) + 1 :
         /\ new[k] = e
         /\ \A i \in 1..k - 1 : new[i] = es[i] /\ es[i].pos <= p
         /\ \A i \in k..Len(es) : new[i + 1] = es[i] /\ es[i].pos > p
  BY <1>1, PutIs
<1>. HIDE DEF new
<1>4. ASSUME NEW j \in DOMAIN new PROVE new[j] = e \/ \E i \in DOMAIN es : new[j] = es[i]
  <2>1. CASE j < k
    <3>1. j \in 1..k - 1 /\ j \in DOMAIN es
      BY <1>1, <1>2, <2>1
    <3>. QED BY <1>3, <3>1
  <2>2. CASE j = k
    BY <1>3, <2>2
  <2>3. CASE j > k
    <3>1. j - 1 \in k..Len(es) /\ j - 1 \in DOMAIN es /\ (j - 1) + 1 = j
      BY <1>1, <1>2, <2>3
    <3>2. new[(j - 1) + 1] = es[j - 1]
      BY <1>3, <3>1
    <3>. QED BY <3>1, <3>2
  <2>. QED BY <1>1, <1>2, <2>1, <2>2, <2>3
<1>5. ASSUME NEW i \in DOMAIN es PROVE \E j \in DOMAIN new : new[j] = es[i]
  <2>1. CASE i < k
    <3>1. i \in 1..k - 1 /\ i \in DOMAIN new
      BY <1>1, <1>2, <2>1
    <3>. QED BY <1>3, <3>1
  <2>2. CASE ~(i < k)
    <3>1. i \in k..Len(es) /\ i + 1 \in DOMAIN new
      BY <1>1, <1>2, <2>2
    <3>. QED BY <1>3, <3>1
  <2>. QED BY <2>1, <2>2
<1>6. k \in DOMAIN new /\ e.pos = p /\ e.schema = schema
  BY <1>2
<1>. HIDE DEF e
<1>7. HasEntry(new, p) /\ \A q : HasEntry(es, q) => HasEntry(new, q)
  BY <1>3, <1>5, <1>6 DEF HasEntry
<1>8. \A m \in Nat : p <= m /\ NoneLater(es, m) => NoneLater(new, m)
  BY <1>4, <1>6 DEF NoneLater
<1>9. \A lg, at : Right(lg, at, schema, p) /\ EntriesRight(lg, at, es) => EntriesRight(lg, at, new)
  BY <1>4, <1>6 DEF EntriesRight
<1>. QED BY <1>7, <1>8, <1>9 DEF new

LEMMA ReachesPut ==
    ASSUME NEW lg, NEW at \in Nat, NEW off \in Int, NEW es, Len(lg) \in Nat, NEW n \in 1..Len(lg),
           NEW schema \in Schemas,
           Good(es, Len(lg)), at <= n, Reaches(lg, at, off, es, n - 1)
    PROVE  Reaches(lg, at, off, Put(es, n, schema), n)
<1>. DEFINE new == Put(es, n, schema)
<1>1. PICK r \in Nat : n - 1 <= r /\ r <= Len(lg) /\ at <= r /\ off <= r /\ Complete(lg, at, es, r)
  BY DEF Reaches
<1>2. /\ HasEntry(new, n) /\ \A q : HasEntry(es, q) => HasEntry(new, q)
      /\ \A m \in Nat : n <= m /\ NoneLater(es, m) => NoneLater(new, m)
  <2>1. n \in Nat
    OBVIOUS
  <2>. QED BY <2>1, PutCovers
<1>. HIDE DEF new
<1>3. CASE n <= r
  <2>1. Complete(lg, at, new, r)
    BY <1>1, <1>2, <1>3 DEF Complete
  <2>. QED BY <1>1, <1>3, <2>1 DEF Reaches, new
<1>4. CASE ~(n <= r)
  <2>1. r = n - 1 /\ n \in Nat
    BY <1>1, <1>4
  <2>2. \A q \in (at + 1)..n : q = n \/ q \in (at + 1)..r
    BY <2>1
  <2>3. NoneLater(es, n)
    BY <1>1, <2>1, PositionIs DEF NoneLater, Complete
  <2>4. Complete(lg, at, new, n)
    BY <1>1, <1>2, <2>1, <2>2, <2>3 DEF Complete
  <2>. QED BY <1>1, <2>1, <2>4 DEF Reaches, new
<1>. QED BY <1>3, <1>4

(* What the reader knows at the position it is about to read.              *)
LEMMA ReaderKnows ==
    ASSUME Inv, RightInv, reader = "streaming", writer = "idle", next <= Now
    PROVE  /\ next \in 1..Now /\ snapshotAt \in 0..next
           /\ \E r \in 0..Now : next - 1 <= r /\ snapshotAt <= r /\ offset <= r
                                /\ Complete(log, snapshotAt, history, r)
<1>1. Now \in Nat
  BY LogTyped DEF Inv
<1>2. next \in 1..Now /\ snapshotAt \in 0..next /\ offset # NoOffset
  BY <1>1 DEF Inv, ReaderInv
<1>3. Reaches(log, snapshotAt, offset, history, next - 1)
  BY <1>2 DEF RightInv
<1>. QED BY <1>1, <1>2, <1>3 DEF Reaches, Now

LEMMA RowRight ==
    ASSUME Inv, RightInv, Reading("row")
    PROVE  /\ Right(log, snapshotAt, SchemaAt(history, next), next)
           /\ SchemaOf(log, next) # NoSchema
<1>. USE DEF Reading
<1>1. Now \in Nat /\ DOMAIN log = 1..Now /\ next \in 1..Now /\ snapshotAt \in 0..next
  BY LogTyped, ReaderKnows DEF Inv
<1>2. PICK r \in 0..Now : next - 1 <= r /\ snapshotAt <= r /\ offset <= r
                          /\ Complete(log, snapshotAt, history, r)
  BY ReaderKnows
<1>3. snapshotAt \in 0..Now /\ Good(history, Now) /\ EntriesRight(log, snapshotAt, history) /\ LogInv
  BY DEF Inv, ReaderInv, FilesInv, RightInv
<1>4. PICK m \in 0..Now : next <= m /\ Complete(log, snapshotAt, history, m)
  <2>1. ~IsDDL(log, next) /\ offset \in Int
    BY DEF IsDDL, Inv, ReaderInv, NoOffset
  <2>2. Reaches(log, snapshotAt, offset, history, next - 1)
    BY <1>2 DEF Reaches, Now
  <2>3. Reaches(log, snapshotAt, offset, history, next)
    <3>1. /\ Len(log) \in Nat /\ next \in 1..Len(log)
          /\ snapshotAt \in Nat /\ snapshotAt <= next
          /\ Good(history, Len(log))
      BY <1>1, <1>3 DEF Now
    <3>. QED BY <3>1, <2>1, <2>2, ReachesRow
  <2>. QED BY <2>3 DEF Reaches, Now
<1>5. Right(log, snapshotAt, SchemaAt(history, next), next)
  <2>1. next \in snapshotAt..m
    BY <1>1, <1>4
  <2>. QED BY <1>3, <1>4, <2>1, LatestRight
<1>6. SchemaOf(log, next) # NoSchema
  <2>1. log[next].schema # NoSchema
    BY <1>1, <1>3 DEF LogInv
  <2>. QED BY <1>1, <2>1 DEF SchemaOf
<1>. QED BY <1>5, <1>6

(* A statement that is applied where it stands leaves an entry that is     *)
(* right, if it is read for the first time and if it is read again.        *)
LEMMA DDLRight ==
    ASSUME Understood(Statements, Schemas, Nat), Inv, RightInv, Reading("ddl")
    PROVE  Right(log, snapshotAt, ApplyDDL(log[next].ddl, SchemaAt(history, next)), next)
<1>. USE DEF Reading
<1>. DEFINE ddl == log[next].ddl
            s == SchemaAt(history, next)
            before == SchemaOf(log, next - 1)
            after == SchemaOf(log, next)
<1>1. Now \in Nat /\ DOMAIN log = 1..Now /\ next \in 1..Now /\ snapshotAt \in 0..next
      /\ ddl \in Statements
  BY LogTyped, ReaderKnows, DDLTyped DEF Inv
<1>2. snapshotAt \in 0..Now /\ Good(history, Now) /\ EntriesRight(log, snapshotAt, history) /\ LogInv
  BY DEF Inv, ReaderInv, FilesInv, RightInv
<1>3. PICK r \in 0..Now : next - 1 <= r /\ snapshotAt <= r /\ offset <= r
                          /\ Complete(log, snapshotAt, history, r)
  BY ReaderKnows
<1>4. /\ before \in Schemas /\ after \in Schemas /\ s \in Schemas
      /\ Legal(ddl, before) /\ after = SourceDDL(ddl, before)
      /\ before = NoSchema \/ before.columns # <<>>
      /\ after = NoSchema \/ after.columns # <<>>
  <2>1. next \in 0..Now /\ next - 1 \in 0..Now /\ next \in DOMAIN log /\ next # 0
    BY <1>1
  <2>2. before = TrueSchema(next - 1) /\ after = TrueSchema(next) /\ after = log[next].schema
    BY <2>1, SchemaOfIs DEF SchemaOf
  <2>3. before \in Schemas /\ after \in Schemas
    BY <1>2, <2>1, <2>2, LogTyped
  <2>4. Legal(ddl, before) /\ after = SourceDDL(ddl, before)
    BY <1>2, <2>1, <2>2 DEF LogInv
  <2>5. /\ before = NoSchema \/ before.columns # <<>>
        /\ after = NoSchema \/ after.columns # <<>>
    BY <1>2, <2>1, <2>2 DEF LogInv
  <2>6. s \in Schemas
    BY <1>1, <1>2, SchemaAtTyped
  <2>. QED BY <2>3, <2>4, <2>5, <2>6
<1>. HIDE DEF ddl, s, before, after
<1>5. SUFFICES ASSUME after # NoSchema, ~CreatedSince(log, snapshotAt, next)
               PROVE  SameLayout(ApplyDDL(ddl, s), after)
  BY DEF Right, ddl, s, after
<1>6. ddl.kind \in {"alter", "create", "other"}
  BY <1>1, <1>4, <1>5, StatementsAssumption DEF SourceDDL
<1>7. CASE next <= r
  <2>1. SameLayout(s, after)
    <3>1. next \in snapshotAt..r
      BY <1>1, <1>7
    <3>2. Right(log, snapshotAt, s, next)
      BY <1>2, <1>3, <3>1, LatestRight DEF s
    <3>. QED BY <1>5, <3>2 DEF Right, after
  <2>2. s # NoSchema
    BY <1>4, <1>5, <2>1 DEF SameLayout, NoSchema
  <2>3. CASE ddl.kind \in {"create", "other"}
    <3>1. ApplyDDL(ddl, s) = Bump(s)
      BY <2>2, <2>3 DEF ApplyDDL
    <3>. QED BY <1>4, <2>1, <3>1, BumpRight
  <2>4. CASE ddl.kind = "alter"
    <3>1. ApplyDDL(ddl, s) = Bump(Alter(s, ddl.clauses))
      BY <2>2, <2>4 DEF ApplyDDL
    <3>2. before # NoSchema /\ after = SourceAlter(before, ddl.clauses)
      BY <1>4, <2>4 DEF Legal, SourceDDL
    <3>3. SameLayout(Alter(s, ddl.clauses), after)
      BY <1>1, <1>4, <2>1, <2>4, <3>2, AlterRight
    <3>4. Alter(s, ddl.clauses) \in Schemas
      BY <1>1, <1>4, <2>4, StatementsAssumption, AlterTyped
    <3>. QED BY <1>4, <3>1, <3>3, <3>4, BumpRight
  <2>. QED BY <1>6, <2>3, <2>4
<1>8. CASE ~(next <= r)
  <2>1. r = next - 1 /\ next - 1 \in snapshotAt..r /\ r \in Nat /\ next \in Nat /\ r <= next
    BY <1>1, <1>3, <1>8
  <2>2. ddl.kind # "create"
    <3>1. next \in (snapshotAt + 1)..next
      BY <1>1, <2>1
    <3>. QED BY <1>5, <3>1 DEF CreatedSince, IsDDL, ddl
  <2>3. before # NoSchema
    BY <1>4, <2>2 DEF Legal
  <2>4. SameLayout(s, before)
    <3>1. s = SchemaAt(history, next - 1)
      <4>1. NoneLater(history, r)
        BY <1>3 DEF Complete
      <4>. QED BY <1>2, <2>1, <4>1, LookupSteady DEF s
    <3>2. Right(log, snapshotAt, s, next - 1)
      BY <1>2, <1>3, <2>1, <3>1, LatestRight
    <3>3. ~CreatedSince(log, snapshotAt, next - 1)
      <4>1. next - 1 \in Nat /\ next \in Nat /\ snapshotAt \in Nat /\ next - 1 <= next
        BY <1>1, <2>1
      <4>. QED BY <1>5, <4>1, CreatedLonger
    <3>. QED BY <2>3, <3>2, <3>3 DEF Right, before
  <2>5. s # NoSchema
    BY <1>4, <2>3, <2>4 DEF SameLayout, NoSchema
  <2>6. CASE ddl.kind = "other"
    <3>1. ApplyDDL(ddl, s) = Bump(s) /\ after = Bump(before)
      BY <1>4, <2>5, <2>6 DEF ApplyDDL, SourceDDL
    <3>. QED BY <1>4, <2>4, <3>1, BumpRight
  <2>7. CASE ddl.kind = "alter"
    <3>1. ApplyDDL(ddl, s) = Bump(Alter(s, ddl.clauses))
      BY <2>5, <2>7 DEF ApplyDDL
    <3>2. after = SourceAlter(before, ddl.clauses)
      BY <1>4, <2>7 DEF SourceDDL
    <3>3. SameLayout(Alter(s, ddl.clauses), after)
      BY <1>1, <1>4, <2>3, <2>4, <2>7, <3>2, AlterRight
    <3>4. Alter(s, ddl.clauses) \in Schemas
      BY <1>1, <1>4, <2>7, StatementsAssumption, AlterTyped
    <3>. QED BY <1>4, <3>1, <3>3, <3>4, BumpRight
  <2>. QED BY <1>6, <2>2, <2>6, <2>7
<1>. QED BY <1>7, <1>8

-----------------------------------------------------------------------------
(* What is known of the part of the log that was there stays known.        *)
LEMMA PrefixStays ==
    ASSUME NEW lg, NEW lg2, Len(lg) \in Nat, Len(lg2) \in Nat, Len(lg) <= Len(lg2),
           \A q \in 1..Len(lg) : lg2[q] = lg[q],
           NEW at \in 0..Len(lg)
    PROVE  /\ \A p \in 0..Len(lg) : SchemaOf(lg2, p) = SchemaOf(lg, p)
           /\ \A p \in 0..Len(lg) : CreatedSince(lg2, at, p) <=> CreatedSince(lg, at, p)
           /\ \A es : Good(es, Len(lg)) /\ EntriesRight(lg, at, es) => EntriesRight(lg2, at, es)
           /\ \A es : \A r \in 0..Len(lg) : Complete(lg, at, es, r) => Complete(lg2, at, es, r)
           /\ \A es : \A off \in Int, p \in Int :
                 Reaches(lg, at, off, es, p) => Reaches(lg2, at, off, es, p)
<1>1. ASSUME NEW p \in 0..Len(lg) PROVE SchemaOf(lg2, p) = SchemaOf(lg, p)
  <2>1. CASE p = 0
    BY <2>1 DEF SchemaOf
  <2>2. CASE p # 0
    BY <2>2 DEF SchemaOf
  <2>. QED BY <2>1, <2>2
<1>2. ASSUME NEW p \in 0..Len(lg), NEW q \in (at + 1)..p PROVE lg2[q] = lg[q]
  <2>1. q \in 1..Len(lg)
    OBVIOUS
  <2>. QED BY <2>1
<1>3. ASSUME NEW p \in 0..Len(lg)
      PROVE  CreatedSince(lg2, at, p) <=> CreatedSince(lg, at, p)
  BY <1>2 DEF CreatedSince, IsDDL
<1>4. ASSUME NEW es, Good(es, Len(lg)), EntriesRight(lg, at, es) PROVE EntriesRight(lg2, at, es)
  <2>1. \A i \in DOMAIN es : es[i].pos \in 0..Len(lg)
    <3>1. \A i \in DOMAIN es : es[i].pos \in Nat
      BY <1>4, PositionIs
    <3>. QED BY <1>4, <3>1 DEF Good
  <2>. QED BY <1>1, <1>3, <1>4, <2>1 DEF EntriesRight, Right
<1>5. ASSUME NEW es, NEW r \in 0..Len(lg), Complete(lg, at, es, r)
      PROVE  Complete(lg2, at, es, r)
  BY <1>1, <1>2, <1>5 DEF Complete, IsDDL
<1>6. ASSUME NEW off \in Int, NEW es, NEW p \in Int, Reaches(lg, at, off, es, p)
      PROVE  Reaches(lg2, at, off, es, p)
  BY <1>5, <1>6 DEF Reaches
<1>. QED BY <1>1, <1>3, <1>4, <1>5, <1>6

(* A snapshot begins behind whatever the history of earlier ones holds, or *)
(* at the end of a log that has not grown.                                 *)
LEMMA SnapshotRight ==
    ASSUME NEW lg, NEW at \in Nat, NEW n \in Nat, at <= n, NEW es, NEW m, Good(es, m),
           NoneLater(es, at), n = at => EntriesRight(lg, at, es)
    PROVE  EntriesRight(lg, n, es)
<1>1. CASE n = at
  BY <1>1
<1>2. CASE at < n
  <2>1. ASSUME NEW i \in DOMAIN es PROVE ~(es[i].pos >= n)
    BY <1>2, PositionIs DEF NoneLater
  <2>. QED BY <2>1 DEF EntriesRight
<1>. QED BY <1>1, <1>2

(* The schema fetched later is the one of the position, if no statement    *)
(* was executed in between.                                                *)
LEMMA FetchedRight ==
    ASSUME LogInv, NEW at \in 0..Now, QuietIn(log, at, Now)
    PROVE  /\ SchemaOf(log, Now) = SchemaOf(log, at)
           /\ TrueSchema(Now) # NoSchema => Right(log, at, SnapshotSchema(Now), at)
<1>1. Now \in Nat /\ Now \in at..Now /\ TrueSchema(Now) \in Schemas
  BY LogTyped
<1>2. SchemaOf(log, Now) = SchemaOf(log, at)
  BY <1>1, SchemaSteady DEF QuietIn
<1>3. SameLayout(SnapshotSchema(Now), TrueSchema(Now))
  BY <1>1 DEF SnapshotSchema, SameLayout, Schemas
<1>4. TrueSchema(Now) = SchemaOf(log, at)
  BY <1>2, SchemaOfIs
<1>. QED BY <1>2, <1>3, <1>4 DEF Right

LEMMA CoverInit == Init => CoverInv
BY DEF Init, CoverInv, FirstInv, RightInv, EntriesRight, NoneLater, EventRight, NoEvent, NoOffset

LEMMA FirstStep ==
    ASSUME Inv, FirstInv, [Next]_vars
    PROVE  FirstInv'
<1>1. /\ Now \in Nat /\ snapshotAt \in 0..Now /\ snapshotAt \in Nat
      /\ Good(history, Now) /\ Good(persisted, Now)
  BY LogTyped DEF Inv, ReaderInv, FilesInv
<1>2. CASE StartSnapshot
  BY <1>1, <1>2 DEF StartSnapshot, files, FirstInv, Good, NoneLater
<1>3. CASE FetchSchema
  <2>. USE <1>3 DEF FetchSchema, files, OpenTmp
  <2>1. offset = NoOffset /\ NoneLater(history, snapshotAt) /\ NoneLater(persisted, snapshotAt)
    BY DEF Inv, ReaderInv, FirstInv
  <2>2. CASE TrueSchema(Now) # NoSchema
    <3>1. SnapshotSchema(Now) \in Schemas
      BY <1>1, SnapshotSchemaTyped DEF Inv
    <3>2. NoneLater(Put(history, snapshotAt, SnapshotSchema(Now)), snapshotAt)
      BY <1>1, <2>1, <3>1, PutCovers
    <3>. QED BY <2>1, <2>2, <3>2 DEF FirstInv
  <2>3. CASE TrueSchema(Now) = NoSchema
    BY <2>1, <2>3 DEF FirstInv
  <2>. QED BY <2>2, <2>3
<1>4. ASSUME offset # NoOffset, offset' # NoOffset PROVE FirstInv'
  BY <1>4 DEF FirstInv
<1>5. ASSUME UNCHANGED <<history, persisted, offset, snapshotAt>> PROVE FirstInv'
  BY <1>5 DEF FirstInv
<1>6. CASE SourceWrites
  BY <1>5, <1>6 DEF SourceWrites, files, reading, taken
<1>7. CASE SnapshotComplete
  BY <1>1, <1>7 DEF SnapshotComplete, FirstInv, NoOffset
<1>8. CASE StartFromOffset
  BY <1>4, <1>8 DEF StartFromOffset
<1>9. CASE OnRow
  BY <1>5, <1>9 DEF OnRow, files, taken
<1>10. CASE OnDDL
  BY <1>4, <1>10 DEF OnDDL, Reading, Inv, ReaderInv
<1>11. CASE DumpTmp
  BY <1>5, <1>11 DEF DumpTmp, reading, taken
<1>12. CASE Replace
  <2>1. tmpFile = history
    BY <1>12 DEF Replace, Inv, WriterInv
  <2>. QED BY <1>12, <2>1 DEF Replace, taken, FirstInv
<1>13. CASE StoreFails
  BY <1>5, <1>13 DEF StoreFails, files, taken
<1>14. CASE Acknowledge
  <2>1. offset \in Int /\ offset # NoOffset /\ offset' > offset
    BY <1>14 DEF Acknowledge, Inv, ReaderInv, NoOffset
  <2>2. offset \in Nat
    BY <1>1, <2>1 DEF Inv, ReaderInv
  <2>. QED BY <1>4, <1>14, <2>1, <2>2 DEF Acknowledge, NoOffset
<1>15. CASE Restart
  <2>1. Loaded(persisted) = persisted
    BY <1>1, LoadedIs DEF Good
  <2>. QED BY <1>15, <2>1 DEF Restart, files, taken, FirstInv
<1>16. CASE UNCHANGED vars
  BY <1>5, <1>16 DEF vars, files, reading, taken
<1>. QED BY <1>2, <1>3, <1>6, <1>7, <1>8, <1>9, <1>10, <1>11, <1>12, <1>13, <1>14, <1>15, <1>16
     DEF Next

LEMMA StartRight ==
    ASSUME Inv, CoverInv, StartSnapshot
    PROVE  RightInv'
<1>. USE DEF StartSnapshot, files
<1>1. /\ Now \in Nat /\ snapshotAt \in Nat /\ snapshotAt <= Now /\ fetchedAt \in snapshotAt..Now
      /\ Good(history, Now) /\ Good(persisted, Now)
      /\ writer = "idle" /\ event.type # "row" /\ offset = NoOffset
  BY LogTyped DEF Inv, ReaderInv, FilesInv, WriterInv, EventInv
<1>2. NoneLater(history, snapshotAt) /\ NoneLater(persisted, snapshotAt)
  BY <1>1 DEF CoverInv, FirstInv
<1>3. Now = snapshotAt => RightInv
  <2>1. ASSUME Now = snapshotAt, NEW q \in (snapshotAt + 1)..fetchedAt PROVE FALSE
    BY <1>1, <2>1
  <2>. QED BY <2>1 DEF CoverInv, QuietIn
<1>4. EntriesRight(log, Now, history) /\ EntriesRight(log, Now, persisted)
  BY <1>1, <1>2, <1>3, SnapshotRight DEF RightInv
<1>5. EventRight(log, Now, event)
  BY <1>1 DEF EventRight
<1>. QED BY <1>1, <1>4, <1>5 DEF RightInv

LEMMA FetchRight ==
    ASSUME Inv, CoverInv, FetchSchema, QuietIn(log, snapshotAt, Now)
    PROVE  RightInv'
<1>. USE DEF FetchSchema, files
<1>1. /\ Now \in Nat /\ Now \in 0..Now /\ snapshotAt \in 0..Now /\ snapshotAt \in Nat
      /\ Good(history, Now) /\ Good(persisted, Now) /\ LogInv
      /\ writer = "idle" /\ event.type # "row" /\ offset = NoOffset /\ fetchedAt = snapshotAt
  BY LogTyped DEF Inv, ReaderInv, FilesInv, WriterInv, EventInv
<1>2. ASSUME NEW q \in (snapshotAt + 1)..snapshotAt PROVE FALSE
  BY <1>1
<1>3. /\ NoneLater(history, snapshotAt) /\ NoneLater(persisted, snapshotAt)
      /\ EntriesRight(log, snapshotAt, history) /\ EntriesRight(log, snapshotAt, persisted)
  BY <1>1, <1>2 DEF CoverInv, FirstInv, RightInv, QuietIn
<1>4. EventRight(log, snapshotAt, event)
  BY <1>1 DEF EventRight
<1>5. CASE TrueSchema(Now) # NoSchema
  <2>. DEFINE new == Put(history, snapshotAt, SnapshotSchema(Now))
  <2>1. SnapshotSchema(Now) \in Schemas /\ Right(log, snapshotAt, SnapshotSchema(Now), snapshotAt)
    BY <1>1, <1>5, SnapshotSchemaTyped, FetchedRight
  <2>2. HasEntry(new, snapshotAt) /\ NoneLater(new, snapshotAt) /\ EntriesRight(log, snapshotAt, new)
    BY <1>1, <1>3, <2>1, PutCovers
  <2>3. Complete(log, snapshotAt, new, snapshotAt)
    BY <1>2, <2>2 DEF Complete
  <2>. QED BY <1>1, <1>3, <1>4, <1>5, <2>2, <2>3 DEF RightInv, OpenTmp
<1>6. CASE TrueSchema(Now) = NoSchema
  <2>1. SchemaOf(log, snapshotAt) = NoSchema
    BY <1>1, <1>6, SchemaOfIs, FetchedRight
  <2>2. Complete(log, snapshotAt, history, snapshotAt) /\ Complete(log, snapshotAt, persisted, snapshotAt)
    BY <1>2, <1>3, <2>1 DEF Complete
  <2>. QED BY <1>1, <1>3, <1>4, <1>6, <2>2 DEF RightInv
<1>. QED BY <1>5, <1>6

LEMMA RightStep ==
    ASSUME Understood(Statements, Schemas, Nat), Inv, RightInv,
           [Next]_vars, ~StartSnapshot, ~FetchSchema
    PROVE  RightInv'
<1>1. /\ Now \in Nat /\ Now = Len(log) /\ DOMAIN log = 1..Now /\ LogInv
      /\ next \in 0..(Now + 1) /\ snapshotAt \in 0..Now /\ offset \in Int
      /\ next \in Int /\ next - 1 \in Int /\ snapshotAt \in Nat
      /\ Good(history, Now) /\ Good(persisted, Now) /\ Good(tmpFile, Now)
  BY LogTyped DEF Inv, ReaderInv, FilesInv, NoOffset, Now
<1>2. CASE SourceWrites
  <2>. USE <1>2 DEF SourceWrites, files, reading, taken
  <2>1. Now' = Now + 1 /\ Len(log') = Now + 1 /\ \A p \in 1..Now : log'[p] = log[p]
    BY SourceStep DEF Inv, Now
  <2>2. /\ \A p \in 0..Now : SchemaOf(log', p) = SchemaOf(log, p)
        /\ \A p \in 0..Now : CreatedSince(log', snapshotAt, p) <=> CreatedSince(log, snapshotAt, p)
        /\ \A es : Good(es, Now) /\ EntriesRight(log, snapshotAt, es)
                   => EntriesRight(log', snapshotAt, es)
        /\ \A es : \A r \in 0..Now : Complete(log, snapshotAt, es, r)
                                     => Complete(log', snapshotAt, es, r)
        /\ \A es : \A off \in Int, p \in Int :
              Reaches(log, snapshotAt, off, es, p) => Reaches(log', snapshotAt, off, es, p)
    BY <1>1, <2>1, PrefixStays
  <2>3. EventRight(log', snapshotAt, event)
    <3>1. event.type = "row" => event.pos \in 0..Now
      BY <1>1 DEF Inv, EventInv
    <3>. QED BY <2>2, <3>1 DEF RightInv, EventRight
  <2>. QED BY <1>1, <2>2, <2>3 DEF RightInv
<1>3. CASE SnapshotComplete
  <2>. USE <1>3 DEF SnapshotComplete, StreamFrom, files, taken
  <2>1. next' \in Int /\ next' - 1 <= snapshotAt /\ next' - 1 \in Int
    BY <1>1, BoundsAssumption
  <2>2. Complete(log, snapshotAt, history, snapshotAt) /\ Complete(log, snapshotAt, persisted, snapshotAt)
    BY DEF RightInv
  <2>3. /\ Reaches(log, snapshotAt, snapshotAt, history, next' - 1)
        /\ Reaches(log, snapshotAt, snapshotAt, persisted, next' - 1)
    BY <1>1, <2>1, <2>2, ReachesSnapshot
  <2>4. offset' # NoOffset
    BY <1>1 DEF NoOffset
  <2>. QED BY <2>3, <2>4 DEF RightInv
<1>4. CASE StartFromOffset
  <2>. USE <1>4 DEF StartFromOffset, StreamFrom, files, taken
  <2>1. next = 0 /\ writer = "idle"
    BY DEF Inv, ReaderInv, WriterInv
  <2>2. Reaches(log, snapshotAt, offset, history, -1) /\ Reaches(log, snapshotAt, offset, persisted, -1)
    BY <2>1 DEF RightInv
  <2>3. next' \in Int /\ next' - 1 <= offset /\ next' - 1 \in Int
    BY <1>1, BoundsAssumption
  <2>4. /\ Reaches(log, snapshotAt, offset, history, next' - 1)
        /\ Reaches(log, snapshotAt, offset, persisted, next' - 1)
    <3>1. -1 \in Int /\ Len(log) \in Nat /\ snapshotAt \in Nat /\ offset \in Int
      BY <1>1
    <3>. DEFINE d == next' - 1
    <3>2. d \in Int /\ d <= offset
      BY <2>3
    <3>. HIDE DEF d
    <3>3. Reaches(log, snapshotAt, offset, history, d) /\ Reaches(log, snapshotAt, offset, persisted, d)
      BY <2>2, <3>1, <3>2, ReachesOffset
    <3>. QED BY <3>3 DEF d
  <2>5. offset' = offset /\ writer' = "idle" /\ reader' = "streaming"
    BY <2>1
  <2>. QED BY <2>4, <2>5 DEF RightInv
<1>5. CASE OnRow
  <2>. USE <1>5 DEF OnRow, files, taken
  <2>1. /\ next \in 1..Len(log) /\ snapshotAt <= next /\ ~IsDDL(log, next)
        /\ reader = "streaming" /\ writer = "idle" /\ offset # NoOffset
    BY <1>1, ReaderKnows DEF Reading, IsDDL, Inv, ReaderInv
  <2>2. Reaches(log, snapshotAt, offset, history, next) /\ Reaches(log, snapshotAt, offset, persisted, next)
    <3>1. /\ Reaches(log, snapshotAt, offset, history, next - 1)
          /\ Reaches(log, snapshotAt, offset, persisted, next - 1)
      BY <2>1 DEF RightInv
    <3>. QED BY <1>1, <2>1, <3>1, ReachesRow
  <2>3. EventRight(log, snapshotAt, event')
    <3>. DEFINE s == SchemaAt(history, next)
    <3>1. Right(log, snapshotAt, s, next) /\ SchemaOf(log, next) # NoSchema
      BY RowRight
    <3>2. SchemaOf(log, next) = TrueSchema(next)
      BY SchemaOfIs
    <3>. HIDE DEF s
    <3>. DEFINE b == Len(s.columns) = Len(TrueSchema(next).columns)
    <3>3. event' = [type |-> "row", pos |-> next, named |-> b, columns |-> s.columns, pks |-> s.pks]
      BY DEF s, Decoded
    <3>4. CreatedSince(log, snapshotAt, next) \/ SameLayout(s, TrueSchema(next))
      BY <3>1, <3>2 DEF Right
    <3>5. event'.pos = next /\ event'.columns = s.columns /\ event'.pks = s.pks
      BY <3>3
    <3>6. SameLayout(s, TrueSchema(next)) => event'.named
      <4>1. event'.named = b
        <5>. HIDE DEF b
        <5>. QED BY <3>3
      <4>2. SameLayout(s, TrueSchema(next)) => b
        BY DEF SameLayout
      <4>. HIDE DEF b
      <4>. QED BY <4>1, <4>2, Zenon
    <3>7. SameLayout(s, TrueSchema(next)) => SameLayout(event', SchemaOf(log, event'.pos))
      BY <3>2, <3>5 DEF SameLayout
    <3>8. CreatedSince(log, snapshotAt, event'.pos)
          \/ (event'.named /\ SameLayout(event', SchemaOf(log, event'.pos)))
      BY <3>4, <3>5, <3>6, <3>7, Zenon
    <3>. QED BY <3>8, Zenon DEF EventRight
  <2>4. next' - 1 = next
    BY <1>1
  <2>. QED BY <2>1, <2>2, <2>3, <2>4 DEF RightInv
<1>6. CASE OnDDL
  <2>. USE <1>6 DEF OnDDL, OpenTmp, reading, taken
  <2>. DEFINE schema == ApplyDDL(log[next].ddl, SchemaAt(history, next))
  <2>1. /\ next \in 1..Len(log) /\ next \in Nat /\ snapshotAt <= next
        /\ reader = "streaming" /\ writer = "idle" /\ offset # NoOffset
    BY <1>1, ReaderKnows DEF Reading, Inv, ReaderInv
  <2>2. schema \in Schemas /\ Right(log, snapshotAt, schema, next)
    BY DDLTyped, DDLRight
  <2>3. history' = Put(history, next, schema)
    OBVIOUS
  <2>. HIDE DEF schema
  <2>4. EntriesRight(log, snapshotAt, history')
    <3>1. EntriesRight(log, snapshotAt, history)
      BY DEF RightInv
    <3>. QED BY <1>1, <2>1, <2>2, <2>3, <3>1, PutCovers
  <2>5. Reaches(log, snapshotAt, offset, history, next - 1)
        /\ Reaches(log, snapshotAt, offset, persisted, next - 1)
    BY <2>1 DEF RightInv
  <2>6. Reaches(log, snapshotAt, offset, history', next)
    BY <1>1, <2>1, <2>2, <2>3, <2>5, ReachesPut
  <2>. QED BY <2>1, <2>4, <2>5, <2>6 DEF RightInv
<1>7. CASE DumpTmp
  BY <1>7 DEF DumpTmp, reading, taken, RightInv
<1>8. CASE Replace
  <2>. USE <1>8 DEF Replace, taken
  <2>1. tmpFile = history /\ reader \in {"snapshot", "streaming"} /\ writer # "idle"
    BY DEF Inv, WriterInv
  <2>2. CASE reader = "streaming"
    <3>1. offset # NoOffset /\ next' - 1 = next /\ event'.type # "row"
      BY <1>1, <2>2 DEF Inv, ReaderInv, SchemaEvent
    <3>2. Reaches(log, snapshotAt, offset, history, next)
      BY <2>1, <2>2, <3>1 DEF RightInv
    <3>. QED BY <2>1, <2>2, <3>1, <3>2 DEF RightInv, EventRight
  <2>3. CASE reader = "snapshot"
    <3>1. offset = NoOffset
      BY <2>3 DEF Inv, ReaderInv
    <3>. QED BY <2>1, <2>3, <3>1 DEF RightInv
  <2>. QED BY <2>1, <2>2, <2>3
<1>9. CASE StoreFails
  BY <1>9 DEF StoreFails, files, taken, RightInv
<1>10. CASE Acknowledge
  <2>. USE <1>10 DEF Acknowledge, files, reading, taken
  <2>1. offset' \in Int /\ offset' <= next - 1 /\ offset' # NoOffset /\ offset # NoOffset
        /\ next - 1 <= next
    BY <1>1 DEF Inv, ReaderInv, NoOffset
  <2>2. Reaches(log, snapshotAt, offset', persisted, next - 1)
    <3>1. Reaches(log, snapshotAt, offset, persisted, next - 1)
      BY <2>1 DEF RightInv
    <3>. QED BY <1>1, <2>1, <3>1, ReachesLess
  <2>3. ASSUME NEW p \in Int, next - 1 <= p, Reaches(log, snapshotAt, offset, history, p)
        PROVE  Reaches(log, snapshotAt, offset', history, p)
    <3>1. offset' <= p
      BY <1>1, <2>1, <2>3
    <3>. QED BY <1>1, <2>1, <2>3, <3>1, ReachesLess
  <2>. QED BY <1>1, <2>1, <2>2, <2>3 DEF RightInv
<1>11. CASE Restart
  <2>. USE <1>11 DEF Restart, files, taken
  <2>1. history' = persisted
    BY <1>1, LoadedIs DEF Good
  <2>2. ASSUME offset # NoOffset PROVE Reaches(log, snapshotAt, offset, persisted, -1)
    <3>1. Reaches(log, snapshotAt, offset, persisted, next - 1)
      BY <2>2 DEF RightInv
    <3>2. -1 \in Int /\ -1 <= next - 1
      BY <1>1
    <3>. QED BY <1>1, <3>1, <3>2, ReachesLess
  <2>3. next' - 1 = -1 /\ event'.type # "row"
    BY DEF NoEvent
  <2>. QED BY <2>1, <2>2, <2>3 DEF RightInv, EventRight
<1>12. CASE UNCHANGED vars
  BY <1>12 DEF vars, files, reading, taken, RightInv
<1>. QED BY <1>2, <1>3, <1>4, <1>5, <1>6, <1>7, <1>8, <1>9, <1>10, <1>11, <1>12 DEF Next

LEMMA CoverStep ==
    ASSUME Understood(Statements, Schemas, Nat), Inv, CoverInv, [Next]_vars
    PROVE  CoverInv'
<1>1. FirstInv'
  BY FirstStep DEF CoverInv
<1>2. /\ Now \in Nat /\ snapshotAt \in Nat /\ fetchedAt \in snapshotAt..Now /\ Now = Len(log)
  BY LogTyped DEF Inv, ReaderInv, Now
<1>3. CASE StartSnapshot
  BY <1>1, <1>3, StartRight DEF CoverInv
<1>4. CASE FetchSchema
  <2>1. log' = log /\ snapshotAt' = snapshotAt /\ fetchedAt' = Now
    BY <1>4 DEF FetchSchema
  <2>2. QuietIn(log', snapshotAt', fetchedAt') => QuietIn(log, snapshotAt, Now)
    BY <2>1
  <2>. QED BY <1>1, <1>4, <2>2, FetchRight DEF CoverInv
<1>5. CASE ~StartSnapshot /\ ~FetchSchema
  <2>1. snapshotAt' = snapshotAt /\ fetchedAt' = fetchedAt
    BY <1>5 DEF Next, vars, reading, taken, SourceWrites, SnapshotComplete, StartFromOffset,
                StreamFrom, OnRow, OnDDL, DumpTmp, Replace, StoreFails, Acknowledge, Restart
  <2>2. \A q \in 1..Now : log'[q] = log[q]
    <3>1. CASE SourceWrites
      BY <3>1, SourceStep DEF Inv
    <3>2. CASE ~SourceWrites
      BY <1>5, <3>2 DEF Next, vars, SnapshotComplete, StartFromOffset, StreamFrom, OnRow, OnDDL,
                        DumpTmp, Replace, StoreFails, Acknowledge, Restart
    <3>. QED BY <3>1, <3>2
  <2>3. QuietIn(log', snapshotAt', fetchedAt') => QuietIn(log, snapshotAt, fetchedAt)
    <3>1. ASSUME NEW q \in (snapshotAt + 1)..fetchedAt PROVE q \in 1..Now
      BY <1>2
    <3>. QED BY <2>1, <2>2, <3>1 DEF QuietIn, IsDDL
  <2>4. RightInv => RightInv'
    BY <1>5, RightStep
  <2>. QED BY <1>1, <2>3, <2>4 DEF CoverInv
<1>. QED BY <1>3, <1>4, <1>5

LEMMA CoverAlways ==
    ASSUME Understood(Statements, Schemas, Nat)
    PROVE  Spec => [](Inv /\ CoverInv)
<1>1. Init => Inv /\ CoverInv
  BY InvInit, CoverInit
<1>2. Inv /\ CoverInv /\ [Next]_vars => (Inv /\ CoverInv)'
  BY InvStep, CoverStep
<1>. QED BY <1>1, <1>2, PTL DEF Spec

(* _on_raw_row gives a row the names, types and primary key it was written *)
(* under, however often it is read and whatever was executed behind it, if *)
(* apply_ddl_to_schema understands the statements and the table was not    *)
(* created since the snapshot.  The snapshot's schema is fetched later     *)
(* than its position: no statement may have been executed in between.      *)
THEOREM RowsDecodedAsWritten ==
    ASSUME Understood(Statements, Schemas, Nat)
    PROVE  Spec => []DecodedAsWritten
<1>1. Inv /\ CoverInv => DecodedAsWritten
  BY SchemaOfIs, Zenon DEF CoverInv, RightInv, EventRight, DecodedAsWritten
<1>. QED BY <1>1, CoverAlways, PTL

(* FileSchemaHistoryStore is never behind FileOffsetStore, under the same  *)
(* conditions: what the persisted offset covers can be decoded after a      *)
(* crash between any two steps of the two writers.                         *)
THEOREM HistoryNeverBehindOffset ==
    ASSUME Understood(Statements, Schemas, Nat)
    PROVE  Spec => []HistoryCoversOffset
<1>1. Inv /\ CoverInv => HistoryCoversOffset
  <2>. SUFFICES ASSUME Inv, RightInv, offset # NoOffset, NEW p \in snapshotAt..offset
                PROVE  \/ Recreated(p) \/ TrueSchema(p) = NoSchema
                       \/ SameLayout(SchemaAt(Loaded(persisted), p), TrueSchema(p))
    BY SchemaOfIs DEF HistoryCoversOffset, CoverInv
  <2>1. /\ LogInv /\ Good(persisted, Now) /\ snapshotAt \in 0..Now
        /\ EntriesRight(log, snapshotAt, persisted)
        /\ Reaches(log, snapshotAt, offset, persisted, next - 1)
    BY DEF Inv, FilesInv, ReaderInv, RightInv
  <2>2. Loaded(persisted) = persisted
    BY <2>1, LoadedIs DEF Good
  <2>3. PICK r \in 0..Now : offset <= r /\ Complete(log, snapshotAt, persisted, r)
    BY <2>1, LogTyped DEF Reaches, Now
  <2>4. p \in snapshotAt..r
    <3>1. offset \in Int /\ snapshotAt \in Nat /\ r \in Nat
      BY <2>1, LogTyped DEF Inv, ReaderInv, NoOffset
    <3>. QED BY <2>3, <3>1
  <2>5. Right(log, snapshotAt, SchemaAt(persisted, p), p)
    BY <2>1, <2>3, <2>4, LatestRight
  <2>. QED BY <2>2, <2>5, SchemaOfIs DEF Right
<1>. QED BY <1>1, CoverAlways, PTL

(* What the two theorems above assume of the statements holds of every     *)
(* statement of one clause that adds a column, drops one, or changes its   *)
(* type or its name where it stands, on every table: the loops of          *)
(* apply_ddl_to_schema make of it what the server does, on the schema in   *)
(* front of it and again on the schema behind it.                          *)
THEOREM SingleUnderstood ==
    ASSUME \A ddl \in Statements : Single(ddl)
    PROVE  Understood(Statements, Schemas, Nat)
BY OnceUnderstood DEF Understood
=============================================================================
