-------------------------- MODULE SinkDelivery_proofs --------------------------
(***************************************************************************)
(* What the sinks promise, for any feed, batch size, number of attempts    *)
(* and number of crashes.                                                  *)
(*                                                                         *)
(* All lists of the model are in the order of Feed, and such a list is     *)
(* determined by its elements.  So it is enough to know of sets of events  *)
(* that nothing in front of a member is missing (Closed), which unions     *)
(* keep; arithmetic on positions is only done in the lemmas below.         *)
(***************************************************************************)
EXTENDS SinkDelivery, Lists_proofs

(* The index file and the endpoint tell events apart by their keys.        *)
KeysIdentify ==
    \A e, f \in Range(Feed) : Key(e) = Key(f) => e = f
Distinguishing ==
    \A o \in Options : o.indexed \/ o.type = "webhook" => KeysIdentify
Appending == \A o \in Options : o.append

Before(e, f) == \E i, j \in DOMAIN Feed : i < j /\ Feed[i] = e /\ Feed[j] = f
FeedOrder(s) == \A i, j \in DOMAIN s : i < j => Before(s[i], s[j])
Closed(S) == \A e \in S, f \in Range(Feed) : Before(f, e) => f \in S
Slice(s) == \E i \in 1..Len(Feed) : \E j \in i..Len(Feed) : s = SubSeq(Feed, i, j)

-----------------------------------------------------------------------------
(* Ranges and the order of the feed.                                       *)
LEMMA FeedType ==
    /\ Len(Feed) \in Nat /\ DOMAIN Feed = 1..Len(Feed)
    /\ \A i \in 1..Len(Feed) : Feed[i] \in Range(Feed)
    /\ \A i, j \in 1..Len(Feed) : Feed[i] = Feed[j] => i = j
BY FeedAssumption DEF Range

LEMMA RangeOfNone == Range(<<>>) = {}
BY DEF Range

LEMMA RangeOfAppend ==
    ASSUME NEW S, NEW s \in Seq(S), NEW e
    PROVE  Range(Append(s, e)) = Range(s) \cup {e}
<1>1. DOMAIN Append(s, e) = 1..Len(s) + 1 /\ DOMAIN s = 1..Len(s) /\ Len(s) \in Nat
  OBVIOUS
<1>2. \A i \in 1..Len(s) + 1 : Append(s, e)[i] = IF i = Len(s) + 1 THEN e ELSE s[i]
  OBVIOUS
<1>. QED BY <1>1, <1>2 DEF Range

LEMMA AppendOrdered ==
    ASSUME NEW s \in Seq(Range(Feed)), FeedOrder(s), NEW e \in Range(Feed),
           \A f \in Range(s) : Before(f, e)
    PROVE  FeedOrder(Append(s, e))
<1>1. DOMAIN Append(s, e) = 1..Len(s) + 1 /\ DOMAIN s = 1..Len(s) /\ Len(s) \in Nat
  OBVIOUS
<1>2. \A i \in 1..Len(s) + 1 : Append(s, e)[i] = IF i = Len(s) + 1 THEN e ELSE s[i]
  OBVIOUS
<1>3. \A i \in 1..Len(s) : s[i] \in Range(s)
  BY <1>1 DEF Range
<1>. QED BY <1>1, <1>2, <1>3 DEF FeedOrder

LEMMA ConcatRange ==
    ASSUME NEW S, NEW s \in Seq(S), NEW t \in Seq(S)
    PROVE  s \o t \in Seq(S) /\ Range(s \o t) = Range(s) \cup Range(t)
<1>1. /\ DOMAIN s = 1..Len(s) /\ DOMAIN t = 1..Len(t)
      /\ Len(s) \in Nat /\ Len(t) \in Nat
      /\ DOMAIN (s \o t) = 1..Len(s) + Len(t) /\ s \o t \in Seq(S)
  OBVIOUS
<1>2. \A i \in 1..Len(s) + Len(t) :
          \/ i \in 1..Len(s) /\ (s \o t)[i] = s[i]
          \/ i - Len(s) \in 1..Len(t) /\ (s \o t)[i] = t[i - Len(s)]
  BY <1>1
<1>3. \A i \in 1..Len(t) : i + Len(s) \in 1..Len(s) + Len(t) /\ (s \o t)[i + Len(s)] = t[i]
  BY <1>1
<1>4. \A i \in 1..Len(s) : i \in 1..Len(s) + Len(t) /\ (s \o t)[i] = s[i]
  BY <1>1
<1>5. \A e \in Range(s \o t) : e \in Range(s) \cup Range(t)
  BY <1>1, <1>2 DEF Range
<1>6. \A e \in Range(s) : e \in Range(s \o t)
  BY <1>1, <1>4 DEF Range
<1>7. \A e \in Range(t) : e \in Range(s \o t)
  BY <1>1, <1>3 DEF Range
<1>. QED BY <1>1, <1>5, <1>6, <1>7

LEMMA ConcatOrdered ==
    ASSUME NEW s \in Seq(Range(Feed)), NEW t \in Seq(Range(Feed)),
           FeedOrder(s), FeedOrder(t),
           \A e \in Range(s), f \in Range(t) : Before(e, f)
    PROVE  FeedOrder(s \o t)
<1>1. /\ DOMAIN s = 1..Len(s) /\ DOMAIN t = 1..Len(t)
      /\ Len(s) \in Nat /\ Len(t) \in Nat
      /\ DOMAIN (s \o t) = 1..Len(s) + Len(t)
  OBVIOUS
<1>2. \A i \in 1..Len(s) + Len(t) :
          \/ i \in 1..Len(s) /\ (s \o t)[i] = s[i] /\ s[i] \in Range(s)
          \/ /\ i - Len(s) \in 1..Len(t) /\ i > Len(s)
             /\ (s \o t)[i] = t[i - Len(s)] /\ t[i - Len(s)] \in Range(t)
  BY <1>1 DEF Range
<1>3. ASSUME NEW i \in 1..Len(s) + Len(t), NEW j \in 1..Len(s) + Len(t), i < j
      PROVE  Before((s \o t)[i], (s \o t)[j])
  <2>1. CASE j \in 1..Len(s)
    <3>1. i \in 1..Len(s)
      BY <1>1, <1>3, <2>1
    <3>. QED BY <1>1, <1>2, <1>3, <2>1, <3>1 DEF FeedOrder
  <2>2. CASE i \in 1..Len(s) /\ j > Len(s)
    BY <1>1, <1>2, <1>3, <2>2
  <2>3. CASE i > Len(s)
    <3>1. /\ i - Len(s) \in 1..Len(t) /\ j - Len(s) \in 1..Len(t)
          /\ i - Len(s) < j - Len(s)
          /\ (s \o t)[i] = t[i - Len(s)] /\ (s \o t)[j] = t[j - Len(s)]
      BY <1>1, <1>2, <1>3, <2>3
    <3>. QED BY <1>1, <3>1 DEF FeedOrder
  <2>. QED BY <1>1, <1>3, <2>1, <2>2, <2>3
<1>. QED BY <1>1, <1>3 DEF FeedOrder

-----------------------------------------------------------------------------
(* Filtering a list.                                                       *)
LEMMA WithoutProperties ==
    ASSUME NEW s \in Seq(Range(Feed)), NEW S
    PROVE  /\ Without(s, S) \in Seq(Range(Feed))
           /\ Range(Without(s, S)) = Range(s) \ S
           /\ FeedOrder(s) => FeedOrder(Without(s, S))
<1>. DEFINE BeforeLast(n) == {s[i] : i \in 1..n} \ S
<1>1. PICK k : Kept(s, S, k) /\ Without(s, S) = k[Len(s)]
  BY KeptExists
<1>2. \A n \in 0..Len(s) :
          k[n] = IF n = 0 THEN <<>>
                 ELSE IF s[n] \in S THEN k[n - 1] ELSE Append(k[n - 1], s[n])
  BY <1>1 DEF Kept
<1>. DEFINE Good(n) == /\ k[n] \in Seq(Range(Feed)) /\ Range(k[n]) = BeforeLast(n)
                       /\ FeedOrder(s) => FeedOrder(k[n])
            Bad == {n \in 0..Len(s) : ~Good(n)}
<1>3. Good(0)
  <2>1. k[0] = <<>> /\ BeforeLast(0) = {}
    BY <1>2
  <2>. QED BY <2>1, RangeOfNone DEF FeedOrder
<1>4. ASSUME NEW n \in 1..Len(s), Good(n - 1) PROVE Good(n)
  <2>1. n \in 0..Len(s) /\ n - 1 \in 0..Len(s) /\ s[n] \in Range(Feed) /\ n # 0
    OBVIOUS
  <2>2. BeforeLast(n) = BeforeLast(n - 1) \cup ({s[n]} \ S)
    <3>1. \A i \in 1..n : i = n \/ i \in 1..n - 1
      OBVIOUS
    <3>. QED BY <3>1
  <2>3. CASE s[n] \in S
    BY <1>2, <1>4, <2>1, <2>2, <2>3
  <2>4. CASE s[n] \notin S
    <3>1. k[n] = Append(k[n - 1], s[n])
      BY <1>2, <2>1, <2>4
    <3>2. \A e \in Range(k[n - 1]) : \E i \in 1..n - 1 : e = s[i]
      BY <1>4
    <3>3. FeedOrder(s) => \A e \in Range(k[n - 1]) : Before(e, s[n])
      BY <3>2 DEF FeedOrder
    <3>4. FeedOrder(s) => FeedOrder(k[n])
      BY <1>4, <2>1, <3>1, <3>3, AppendOrdered
    <3>5. Range(k[n]) = Range(k[n - 1]) \cup {s[n]}
      BY <1>4, <2>1, <3>1, RangeOfAppend
    <3>. QED BY <1>4, <2>1, <2>2, <2>4, <3>1, <3>4, <3>5
  <2>. QED BY <2>3, <2>4
<1>. HIDE DEF Good
<1>5. Bad = {}
  <2>. SUFFICES ASSUME Bad # {} PROVE FALSE
    OBVIOUS
  <2>1. Bad \subseteq Nat
    OBVIOUS
  <2>2. PICK n \in Bad : \A m \in Bad : n <= m
    BY <2>1, LeastNumber
  <2>3. n # 0 /\ n - 1 \in 0..Len(s) /\ n - 1 \notin Bad /\ n \in 1..Len(s)
    BY <2>2, <1>3
  <2>. QED BY <2>3, <1>4
<1>6. Good(Len(s))
  BY <1>5
<1>7. BeforeLast(Len(s)) = Range(s) \ S
  BY DEF Range
<1>. QED BY <1>1, <1>6, <1>7 DEF Good

-----------------------------------------------------------------------------
CallInv ==
    /\ batch = <<>> <=> call = "idle"
    /\ call \in {"write", "reopen", "index"} => options.type # "webhook"
    /\ call \in {"reopen", "index"} => options.type = "jsonl"
    /\ call = "index" => options.indexed
    /\ call = "post" => options.type = "webhook" /\ attempt < MaxAttempts
    /\ call = "write" => Range(todo) \subseteq Range(batch)

RequestInv ==
    \A r \in late : Slice(r.events) /\ r.key = Http!BatchKey(r.events)

(* _seen_keys has all keys of the index, and what is about to be written   *)
(* has none of them.                                                       *)
SeenInv ==
    /\ index \subseteq seen
    /\ ~options.indexed \/ options.type = "webhook" => seen = {}
    /\ call = "write" => \A e \in Range(todo) : Key(e) \notin seen

(* The keys are in the file before they are in _seen_keys. *)
FileInv ==
    /\ seen \subseteq File!KeysOf(output)
    /\ call \in {"reopen", "index"} => Range(todo) \subseteq Range(output)

OutputInv ==
    /\ FeedOrder(output)
    /\ Closed(Range(output))
    /\ \A i \in 1..confirmed : Feed[i] \in Range(output)
    /\ Closed(Range(output) \cup Range(batch))
    /\ call = "write" => /\ FeedOrder(todo)
                         /\ Range(batch) \subseteq Range(todo) \cup Range(output)
    /\ call \in {"reopen", "index", "returned"} => Range(batch) \subseteq Range(output)
    /\ \A r \in late : Closed(Range(output) \cup Range(r.events))
    /\ \A k \in handled : DOMAIN k \subseteq File!KeysOf(output)

(* With cut = "transaction" the events of a transaction stay together.     *)
SameTransaction(e) == {f \in Range(Feed) : f.tx = e.tx}
Whole(S) == \A e \in S : e.tx # NoTx => SameTransaction(e) \subseteq S
OneBatch(s) == \A e \in Range(s) : e.tx # NoTx => Range(s) = SameTransaction(e)

BatchInv ==
    options.cut = "transaction" =>
        OneBatch(batch) /\ \A r \in late : OneBatch(r.events)

VisibleInv ==
    options.cut = "transaction" /\ options.type # "stdout" => Whole(Range(output))

AppliedInv ==
    options.cut = "transaction" /\ options.type = "webhook" =>
        /\ \A e \in Range(output) :
              e.tx # NoTx =>
                  \E i, j \in 1..Len(Feed) :
                      /\ Range(SubSeq(Feed, i, j)) = SameTransaction(e)
                      /\ Http!BatchKey(SubSeq(Feed, i, j)) \in handled
        /\ \A e \in repeated : e.tx = NoTx

TypesInv == TypeOK /\ CallInv /\ RequestInv /\ SeenInv
LedgerInv == TypesInv /\ FileInv /\ OutputInv

-----------------------------------------------------------------------------
(* Slices, closed sets, and the list that a closed set determines.         *)
LEMMA OrderOfFeed ==
    /\ \A i, j \in 1..Len(Feed) : Before(Feed[i], Feed[j]) <=> i < j
    /\ \A e, f : Before(e, f) => e \in Range(Feed) /\ f \in Range(Feed)
    /\ \A e, f \in Range(Feed) : e = f \/ Before(e, f) \/ Before(f, e)
<1>1. \A i, j \in 1..Len(Feed) : Before(Feed[i], Feed[j]) <=> i < j
  BY FeedType DEF Before
<1>2. \A e, f : Before(e, f) => e \in Range(Feed) /\ f \in Range(Feed)
  BY FeedType DEF Before
<1>3. ASSUME NEW e \in Range(Feed), NEW f \in Range(Feed)
      PROVE  e = f \/ Before(e, f) \/ Before(f, e)
  <2>1. PICK i \in 1..Len(Feed), j \in 1..Len(Feed) : e = Feed[i] /\ f = Feed[j]
    BY FeedType DEF Range
  <2>2. i = j \/ i < j \/ j < i
    OBVIOUS
  <2>. QED BY <2>1, <2>2, FeedType DEF Before
<1>. QED BY <1>1, <1>2, <1>3

LEMMA NeverBoth == \A e, f : ~(Before(e, f) /\ Before(f, e))
<1>. SUFFICES ASSUME NEW e, NEW f, Before(e, f), Before(f, e) PROVE FALSE
  OBVIOUS
<1>1. PICK i \in DOMAIN Feed, j \in DOMAIN Feed : i < j /\ Feed[i] = e /\ Feed[j] = f
  BY DEF Before
<1>2. PICK k \in DOMAIN Feed, l \in DOMAIN Feed : k < l /\ Feed[k] = f /\ Feed[l] = e
  BY DEF Before
<1>. QED BY <1>1, <1>2, FeedType

LEMMA SliceProperties ==
    ASSUME NEW i \in 1..Len(Feed), NEW j \in i..Len(Feed)
    PROVE  /\ SubSeq(Feed, i, j) \in Seq(Range(Feed))
           /\ Len(SubSeq(Feed, i, j)) = j - i + 1
           /\ SubSeq(Feed, i, j) # <<>>
           /\ Range(SubSeq(Feed, i, j)) = {Feed[k] : k \in i..j}
           /\ FeedOrder(SubSeq(Feed, i, j))
<1>. DEFINE s == SubSeq(Feed, i, j)
<1>1. /\ s \in Seq(Range(Feed)) /\ Len(s) = j - i + 1 /\ DOMAIN s = 1..j - i + 1
      /\ \A k \in 1..j - i + 1 : s[k] = Feed[i + k - 1]
  BY FeedAssumption, FeedType, SubSeqProperties
<1>2. s # <<>>
  BY <1>1, FeedType
<1>3. \A k \in i..j : k - i + 1 \in 1..j - i + 1 /\ s[k - i + 1] = Feed[k]
  BY <1>1, FeedType
<1>4. \A k \in 1..j - i + 1 : i + k - 1 \in i..j
  BY FeedType
<1>5. Range(s) = {Feed[k] : k \in i..j}
  <2>1. \A e \in Range(s) : e \in {Feed[k] : k \in i..j}
    BY <1>1, <1>4 DEF Range
  <2>2. \A k \in i..j : Feed[k] \in Range(s)
    BY <1>1, <1>3 DEF Range
  <2>. HIDE DEF s
  <2>. QED BY <2>1, <2>2
<1>6. FeedOrder(s)
  <2>. SUFFICES ASSUME NEW k \in 1..j - i + 1, NEW l \in 1..j - i + 1, k < l
                PROVE  Before(s[k], s[l])
    BY <1>1 DEF FeedOrder
  <2>1. i + k - 1 \in DOMAIN Feed /\ i + l - 1 \in DOMAIN Feed /\ i + k - 1 < i + l - 1
    BY FeedType
  <2>. QED BY <1>1, <2>1 DEF Before
<1>. QED BY <1>1, <1>2, <1>5, <1>6

LEMMA SliceType ==
    ASSUME NEW s, Slice(s)
    PROVE  s \in Seq(Range(Feed)) /\ s # <<>> /\ FeedOrder(s)
BY SliceProperties DEF Slice

LEMMA ClosedUnion ==
    \A S, T : Closed(S) /\ Closed(T) => Closed(S \cup T)
BY DEF Closed

(* A list without a gap is a prefix of the feed. *)
LEMMA ClosedIsPrefix ==
    ASSUME NEW s \in Seq(Range(Feed)), FeedOrder(s), Closed(Range(s))
    PROVE  Len(s) \in 0..Len(Feed) /\ s = SubSeq(Feed, 1, Len(s))
<1>. DEFINE Good(k) == k \in 1..Len(Feed) /\ s[k] = Feed[k]
            Bad == {k \in 1..Len(s) : ~Good(k)}
<1>1. DOMAIN s = 1..Len(s) /\ Len(s) \in Nat
  OBVIOUS
<1>2. Bad = {}
  <2>. SUFFICES ASSUME Bad # {} PROVE FALSE
    OBVIOUS
  <2>0. Bad \subseteq Nat
    OBVIOUS
  <2>1. PICK k \in Bad : \A m \in Bad : k <= m
    BY <2>0, LeastNumber
  <2>2. k \in 1..Len(s) /\ ~Good(k) /\ s[k] \in Range(s) /\ s[k] \in Range(Feed)
    BY <1>1 DEF Range
  <2>3. PICK x \in 1..Len(Feed) : s[k] = Feed[x]
    BY <2>2, FeedType DEF Range
  <2>4. \A a \in 1..k - 1 : Good(a)
    BY <2>1, <1>1
  <2>5. x >= k
    <3>. SUFFICES ASSUME x < k PROVE FALSE
      BY FeedType
    <3>1. x \in 1..k - 1 /\ x \in 1..Len(s)
      BY <2>2, <1>1
    <3>2. s[x] = Feed[x]
      BY <3>1, <2>4
    <3>3. Before(s[x], s[k])
      BY <3>1, <2>2, <1>1 DEF FeedOrder
    <3>. QED BY <3>2, <3>3, <2>3, OrderOfFeed
  <2>6. x > k
    BY <2>2, <2>3, <2>5
  <2>7. k \in 1..Len(Feed)
    BY <2>6, <2>2, FeedType
  <2>8. Feed[k] \in Range(s)
    BY <2>2, <2>3, <2>6, <2>7, OrderOfFeed, FeedType DEF Closed
  <2>9. PICK b \in 1..Len(s) : s[b] = Feed[k]
    BY <2>8, <1>1 DEF Range
  <2>10. b # k
    BY <2>2, <2>7, <2>9
  <2>11. ~(b < k)
    <3>. SUFFICES ASSUME b < k PROVE FALSE
      OBVIOUS
    <3>1. b \in 1..k - 1
      BY <2>2
    <3>2. b \in 1..Len(Feed) /\ s[b] = Feed[b]
      BY <3>1, <2>4
    <3>. QED BY <3>1, <3>2, <2>7, <2>9, FeedType
  <2>12. Before(s[k], s[b])
    BY <2>2, <2>10, <2>11, <1>1 DEF FeedOrder
  <2>. QED BY <2>12, <2>3, <2>6, <2>7, <2>9, OrderOfFeed
<1>3. \A k \in 1..Len(s) : k \in 1..Len(Feed) /\ s[k] = Feed[k]
  BY <1>2
<1>4. Len(s) <= Len(Feed)
  <2>1. CASE Len(s) = 0
    BY <2>1, FeedType
  <2>2. CASE Len(s) # 0
    BY <2>2, <1>1, <1>3, FeedType
  <2>. QED BY <2>1, <2>2
<1>5. s = SubSeq(Feed, 1, Len(s))
  <2>1. CASE Len(s) = 0
    <3>1. s = <<>> /\ SubSeq(Feed, 1, 0) = <<>>
      BY <2>1, FeedAssumption
    <3>. QED BY <2>1, <3>1
  <2>2. CASE Len(s) # 0
    <3>1. 1 \in 1..Len(Feed) /\ Len(s) \in 1..Len(Feed)
      BY <2>2, <1>1, <1>4, FeedType
    <3>2. /\ SubSeq(Feed, 1, Len(s)) \in Seq(Range(Feed))
          /\ Len(SubSeq(Feed, 1, Len(s))) = Len(s)
          /\ \A k \in 1..Len(s) : SubSeq(Feed, 1, Len(s))[k] = Feed[k]
      BY <3>1, <1>1, FeedAssumption, FeedType, SubSeqProperties
    <3>. QED BY <3>2, <1>1, <1>3
  <2>. QED BY <2>1, <2>2
<1>. QED BY <1>1, <1>4, <1>5

-----------------------------------------------------------------------------
(* What the steps of the sinks do to the lists and sets of events.         *)
LEMMA SameFilter ==
    \A s, S : File!Without(s, S) = Without(s, S) /\ Http!Without(s, S) = Without(s, S)
BY DEF File!Without, Http!Without, Without

LEMMA SameRange == \A s : File!Range(s) = Range(s) /\ Http!Range(s) = Range(s)
BY DEF File!Range, Http!Range, Range

LEMMA KeysOfRange == \A s : File!KeysOf(s) = {Key(e) : e \in Range(s)}
BY DEF File!KeysOf, Range

LEMMA PrefixProperties ==
    ASSUME NEW s \in Seq(Range(Feed)), NEW n \in 0..Len(s)
    PROVE  /\ SubSeq(s, 1, n) \in Seq(Range(Feed))
           /\ Range(SubSeq(s, 1, n)) = {s[k] : k \in 1..n}
           /\ FeedOrder(s) => FeedOrder(SubSeq(s, 1, n))
<1>. DEFINE t == SubSeq(s, 1, n)
<1>1. t \in Seq(Range(Feed)) /\ DOMAIN t = 1..n /\ \A k \in 1..n : t[k] = s[k]
  <2>1. Len(t) = n
    BY SubSeqProperties
  <2>. QED BY <2>1, SubSeqProperties
<1>2. Range(t) = {s[k] : k \in 1..n}
  BY <1>1 DEF Range
<1>. QED BY <1>1, <1>2 DEF FeedOrder

LEMMA KeysOfSlice ==
    ASSUME NEW s \in Seq(Range(Feed)), NEW n \in 0..Len(s), NEW i \in {1, 2}
    PROVE  File!KeysOf(SubSeq(s, i, n)) \subseteq {Key(s[k]) : k \in 1..n}
<1>1. /\ SubSeq(s, i, n) \in Seq(Range(Feed))
      /\ Len(SubSeq(s, i, n)) = IF i <= n THEN n - i + 1 ELSE 0
      /\ \A k \in 1..n - i + 1 : SubSeq(s, i, n)[k] = s[i + k - 1]
  BY SubSeqProperties
<1>2. \A k \in DOMAIN SubSeq(s, i, n) :
          k \in 1..n - i + 1 /\ i + k - 1 \in 1..n /\ SubSeq(s, i, n)[k] = s[i + k - 1]
  BY <1>1
<1>. QED BY <1>2 DEF File!KeysOf

LEMMA WriteEffect ==
    ASSUME output \in Seq(Range(Feed)), NEW block \in Seq(Range(Feed)), File!Write(block)
    PROVE  /\ output' \in Seq(Range(Feed))
           /\ Range(output') = Range(block) \cup (IF options.append THEN Range(output) ELSE {})
           /\ repeated' \ repeated \subseteq Range(block)
           /\ options.append => repeated' = repeated \cup (Range(block) \cap Range(output))
           /\ repeated' \subseteq repeated \cup Range(block)
<1>. DEFINE old == IF options.append THEN output ELSE <<>>
<1>1. old \in Seq(Range(Feed)) /\ Range(old) = IF options.append THEN Range(output) ELSE {}
  <2>1. CASE options.append
    BY <2>1
  <2>2. CASE ~options.append
    <3>1. old = <<>>
      BY <2>2
    <3>. QED BY <2>2, <3>1, RangeOfNone
  <2>. QED BY <2>1, <2>2
<1>2. output' = old \o Without(block, Range(old))
  BY SameFilter, SameRange DEF File!Write
<1>. HIDE DEF old
<1>3. /\ Without(block, Range(old)) \in Seq(Range(Feed))
      /\ Range(Without(block, Range(old))) = Range(block) \ Range(old)
  BY WithoutProperties
<1>4. /\ old \o Without(block, Range(old)) \in Seq(Range(Feed))
      /\ Range(old \o Without(block, Range(old))) =
            Range(old) \cup Range(Without(block, Range(old)))
  <2>1. Without(block, Range(old)) \in Seq(Range(Feed))
    BY <1>3
  <2>. HIDE DEF Without
  <2>. QED BY <1>1, <2>1, ConcatRange
<1>5. /\ options.append => repeated' = repeated \cup (Range(block) \cap Range(output))
      /\ ~options.append => repeated' = {}
  BY SameRange DEF File!Write
<1>. HIDE DEF old
<1>. QED BY <1>1, <1>2, <1>3, <1>4, <1>5

LEMMA FilterEffect ==
    ASSUME batch \in Seq(Range(Feed)), File!Filter
    PROVE  /\ todo' \in Seq(Range(Feed))
           /\ Range(todo') = {e \in Range(batch) : Key(e) \notin seen}
           /\ FeedOrder(batch) => FeedOrder(todo')
<1>. DEFINE S == {e \in Range(batch) : Key(e) \in seen}
<1>1. todo' = Without(batch, S)
  BY SameFilter, SameRange DEF File!Filter
<1>. QED BY <1>1, WithoutProperties

LEMMA AppendKeysEffect ==
    ASSUME todo \in Seq(Range(Feed)), NEW n \in 0..Len(todo), NEW part \in BOOLEAN,
           torn \in BOOLEAN, File!AppendKeys(n, part)
    PROVE  /\ torn' \in BOOLEAN /\ index \subseteq index'
           /\ index' \subseteq index \cup {Key(todo[k]) : k \in 1..n}
<1>1. File!KeysOf(SubSeq(todo, IF torn THEN 2 ELSE 1, n)) \subseteq {Key(todo[k]) : k \in 1..n}
  BY KeysOfSlice
<1>. QED BY <1>1 DEF File!AppendKeys

(* A prefix of the keys of todo goes to the index, and not less of them to *)
(* _seen_keys.                                                             *)
LEMMA IndexEffect ==
    ASSUME todo \in Seq(Range(Feed)), torn \in BOOLEAN, File!IndexKeys \/ File!IndexRaises
    PROVE  /\ torn' \in BOOLEAN
           /\ index \subseteq seen => index' \subseteq seen'
           /\ index' \cup seen' \subseteq index \cup seen \cup {Key(e) : e \in Range(todo)}
<1>1. PICK n \in 0..Len(todo), m \in 0..Len(todo), part \in BOOLEAN :
          n <= m /\ File!AppendKeys(n, part) /\ seen' = seen \cup {Key(todo[k]) : k \in 1..m}
  <2>1. CASE File!IndexKeys
    <3>1. File!KeysOf(todo) = {Key(todo[k]) : k \in 1..Len(todo)}
      BY DEF File!KeysOf
    <3>2. File!AppendKeys(Len(todo), FALSE) /\ seen' = seen \cup File!KeysOf(todo)
      BY <2>1 DEF File!IndexKeys
    <3>3. Len(todo) \in 0..Len(todo) /\ Len(todo) <= Len(todo) /\ FALSE \in BOOLEAN
      OBVIOUS
    <3>. HIDE DEF File!AppendKeys
    <3>. QED BY <3>1, <3>2, <3>3
  <2>2. CASE File!IndexRaises
    <3>1. PICK n \in 0..Len(todo) - 1, m \in 0..Len(todo), part \in BOOLEAN :
              /\ n <= m /\ File!AppendKeys(n, part)
              /\ seen' = seen \cup File!KeysOf(SubSeq(todo, 1, m))
      BY <2>2 DEF File!IndexRaises
    <3>2. File!KeysOf(SubSeq(todo, 1, m)) = {Key(todo[k]) : k \in 1..m}
      BY PrefixProperties, KeysOfRange
    <3>. QED BY <3>1, <3>2
  <2>. QED BY <2>1, <2>2
<1>2. torn' \in BOOLEAN /\ index' \subseteq index \cup {Key(todo[k]) : k \in 1..n}
  BY <1>1, AppendKeysEffect
<1>3. \A k \in 1..m : todo[k] \in Range(todo)
  BY DEF Range
<1>. QED BY <1>1, <1>2, <1>3

LEMMA ArrivesEffect ==
    ASSUME output \in Seq(Range(Feed)), NEW r, r.events \in Seq(Range(Feed)), Http!Arrives(r)
    PROVE  /\ output' \in Seq(Range(Feed))
           /\ repeated' \subseteq repeated \cup Range(r.events)
           /\ \/ r.key \in handled /\ UNCHANGED <<output, repeated, handled>>
              \/ /\ r.key \notin handled
                 /\ Range(output') = Range(output) \cup Range(r.events)
                 /\ repeated' = repeated \cup (Range(r.events) \cap Range(output))
                 /\ handled' = handled \cup {r.key}
<1>1. CASE r.key \in handled
  BY <1>1 DEF Http!Arrives, Http!endpoint
<1>2. CASE r.key \notin handled
  <2>1. /\ output' = output \o Without(r.events, Range(output))
        /\ repeated' = repeated \cup (Range(r.events) \cap Range(output))
        /\ handled' = handled \cup {r.key}
    BY <1>2, SameFilter, SameRange DEF Http!Arrives
  <2>2. /\ Without(r.events, Range(output)) \in Seq(Range(Feed))
        /\ Range(Without(r.events, Range(output))) = Range(r.events) \ Range(output)
    BY WithoutProperties
  <2>3. /\ output' \in Seq(Range(Feed))
        /\ Range(output') = Range(output) \cup (Range(r.events) \ Range(output))
    BY <2>1, <2>2, ConcatRange
  <2>. QED BY <1>2, <2>1, <2>3
<1>. QED BY <1>1, <1>2

LEMMA MaxOfTwo ==
    ASSUME NEW a \in Nat, NEW b \in Nat
    PROVE  Max({a, b}) \in {a, b} /\ Max({a, b}) >= a /\ Max({a, b}) >= b
<1>1. \E x \in {a, b} : \A y \in {a, b} : x >= y
  OBVIOUS
<1>. QED BY <1>1 DEF Max

-----------------------------------------------------------------------------
(* The types, and what every state of a call goes with.                    *)
LEMMA BatchSlice ==
    ASSUME TypeOK
    PROVE  /\ batch # <<>> => Slice(batch)
           /\ batch \in Seq(Range(Feed)) /\ FeedOrder(batch)
<1>1. batch # <<>> => Slice(batch)
  <2>. SUFFICES ASSUME batch # <<>> PROVE Slice(batch)
    OBVIOUS
  <2>1. PICK j \in next..Len(Feed) : batch = SubSeq(Feed, next, j)
    BY DEF TypeOK
  <2>2. next \in 1..Len(Feed)
    BY <2>1, FeedType DEF TypeOK
  <2>. QED BY <2>1, <2>2 DEF Slice
<1>2. CASE batch = <<>>
  BY <1>2 DEF FeedOrder
<1>. QED BY <1>1, <1>2, SliceType

LEMMA InitTypes == Init => TypesInv
<1>. SUFFICES ASSUME Init PROVE TypesInv
  OBVIOUS
<1>. USE DEF Init, File!Init, Http!Init
<1>1. TypeOK
  <2>1. options \in Options /\ batch = <<>> /\ call = "idle" /\ late = {}
    OBVIOUS
  <2>2. next \in 1..Len(Feed) + 1 /\ offset \in 0..next - 1 /\ confirmed \in next - 1..Len(Feed)
    BY FeedType
  <2>3. crashes \in 0..MaxCrashes /\ attempt \in 0..MaxAttempts
    <3>. USE ParametersAssumption
    <3>. QED OBVIOUS
  <2>4. torn \in BOOLEAN
    OBVIOUS
  <2>5. output \in Seq(Range(Feed)) /\ todo \in Seq(Range(Feed)) /\ repeated \subseteq Range(Feed)
    OBVIOUS
  <2>6. index = {} /\ seen = {}
    OBVIOUS
  <2>. QED BY <2>1, <2>2, <2>3, <2>4, <2>5, <2>6 DEF TypeOK
<1>2. CallInv /\ RequestInv /\ SeenInv
  BY DEF CallInv, RequestInv, SeenInv
<1>. QED BY <1>1, <1>2 DEF TypesInv

LEMMA HandOverTypes == TypesInv /\ HandOver => TypesInv'
<1>. SUFFICES ASSUME TypesInv, HandOver PROVE TypesInv'
  OBVIOUS
<1>1. PICK j \in next..Len(Feed) : IsBatch(next, j) /\ batch' = SubSeq(Feed, next, j)
  BY DEF HandOver
<1>2. next \in 1..Len(Feed)
  BY <1>1, FeedType DEF TypesInv, TypeOK
<1>3. batch' # <<>> /\ call' = "called"
  BY <1>1, <1>2, SliceProperties DEF HandOver
<1>4. UNCHANGED <<options, offsetVars, crashes, sinkVars>>
  BY DEF HandOver
<1>5. TypeOK'
  BY <1>1, <1>3, <1>4 DEF TypesInv, TypeOK, offsetVars, sinkVars, outputVars, fileVars, httpVars
<1>6. CallInv' /\ RequestInv' /\ SeenInv'
  BY <1>3, <1>4 DEF TypesInv, CallInv, RequestInv, SeenInv, offsetVars, sinkVars, outputVars, fileVars,
     httpVars
<1>. QED BY <1>5, <1>6 DEF TypesInv

outer == <<options, batch, offsetVars, crashes>>

LEMMA FileTypes ==
    ASSUME TypesInv, UNCHANGED <<outer, httpVars>>,
           call' \in {"write", "reopen", "index", "returned", "raised"},
           output' \in Seq(Range(Feed)), todo' \in Seq(Range(Feed)),
           repeated' \subseteq Range(Feed),
           index' \cup seen' \subseteq {Key(e) : e \in Range(Feed)}, torn' \in BOOLEAN
    PROVE  TypeOK' /\ RequestInv'
<1>1. TypeOK'
  BY DEF TypesInv, TypeOK, outer, offsetVars, httpVars
<1>2. RequestInv'
  BY DEF TypesInv, RequestInv, outer, httpVars
<1>. QED BY <1>1, <1>2

LEMMA FileStepTypes ==
    ASSUME TypesInv, options.type \in {"jsonl", "stdout"}, File!Deliver, UNCHANGED httpVars,
           UNCHANGED <<offsetVars, crashes>>
    PROVE  TypesInv'
<1>0. /\ output \in Seq(Range(Feed)) /\ todo \in Seq(Range(Feed)) /\ torn \in BOOLEAN
      /\ repeated \subseteq Range(Feed) /\ batch \in Seq(Range(Feed))
      /\ index \cup seen \subseteq {Key(e) : e \in Range(Feed)}
  BY BatchSlice DEF TypesInv, TypeOK
<1>1. UNCHANGED <<outer, httpVars>>
  BY DEF File!Deliver, File!Filter, File!ReplaceData, File!DataWritten, File!WriteStdout,
         File!IndexKeys, File!WriteRaises, File!StdoutRaises, File!IndexRaises, outer
<1>2. CASE File!Filter
  <2>1. /\ todo' \in Seq(Range(Feed)) /\ call' \in {"write", "returned"}
        /\ Range(todo') = {e \in Range(batch) : Key(e) \notin seen}
        /\ UNCHANGED <<output, repeated, index, torn, seen>> /\ call = "called"
    BY <1>0, <1>2, FilterEffect DEF File!Filter, File!files
  <2>2. TypeOK' /\ RequestInv'
    BY <1>0, <1>1, <2>1, FileTypes
  <2>3. CallInv' /\ SeenInv'
    BY <1>1, <2>1 DEF TypesInv, CallInv, SeenInv, outer
  <2>. QED BY <2>2, <2>3 DEF TypesInv
<1>3. CASE File!ReplaceData \/ File!WriteStdout
  <2>1. /\ output' \in Seq(Range(Feed)) /\ repeated' \subseteq repeated \cup Range(todo)
        /\ UNCHANGED <<index, torn, seen, todo>>
    BY <1>0, <1>3, WriteEffect DEF File!ReplaceData, File!WriteStdout
  <2>2. /\ call = "write"
        /\ (call' = "reopen" /\ options.type = "jsonl") \/ call' = "returned"
    BY <1>3 DEF File!ReplaceData, File!WriteStdout
  <2>3. Range(todo) \subseteq Range(Feed)
    BY <1>0 DEF Range
  <2>4. TypeOK' /\ RequestInv'
    BY <1>0, <1>1, <2>1, <2>2, <2>3, FileTypes
  <2>5. CallInv' /\ SeenInv'
    BY <1>1, <2>1, <2>2 DEF TypesInv, CallInv, SeenInv, outer
  <2>. QED BY <2>4, <2>5 DEF TypesInv
<1>4. CASE File!DataWritten \/ File!WriteRaises
  <2>1. UNCHANGED <<output, repeated, index, torn, seen, todo>> /\ call # "idle"
    BY <1>4 DEF File!DataWritten, File!WriteRaises, File!jsonlVars, File!files
  <2>2. \/ call' \in {"returned", "raised"}
        \/ call' = "index" /\ options.indexed /\ call = "reopen"
    BY <1>4 DEF File!DataWritten, File!WriteRaises
  <2>3. TypeOK' /\ RequestInv'
    BY <1>0, <1>1, <2>1, <2>2, FileTypes
  <2>4. CallInv' /\ SeenInv'
    BY <1>1, <2>1, <2>2 DEF TypesInv, CallInv, SeenInv, outer
  <2>. QED BY <2>3, <2>4 DEF TypesInv
<1>5. CASE File!StdoutRaises
  <2>1. PICK n \in 0..Len(todo) : File!Write(SubSeq(todo, 1, n))
    BY <1>5 DEF File!StdoutRaises
  <2>2. /\ SubSeq(todo, 1, n) \in Seq(Range(Feed))
        /\ Range(SubSeq(todo, 1, n)) \subseteq Range(Feed)
    BY <1>0, PrefixProperties DEF Range
  <2>3. /\ output' \in Seq(Range(Feed)) /\ repeated' \subseteq Range(Feed)
        /\ UNCHANGED <<index, torn, seen, todo>> /\ call' = "raised" /\ call = "write"
    BY <1>0, <1>5, <2>1, <2>2, WriteEffect DEF File!StdoutRaises
  <2>4. TypeOK' /\ RequestInv'
    BY <1>0, <1>1, <2>3, FileTypes
  <2>5. CallInv' /\ SeenInv'
    BY <1>1, <2>3 DEF TypesInv, CallInv, SeenInv, outer
  <2>. QED BY <2>4, <2>5 DEF TypesInv
<1>6. CASE File!IndexKeys \/ File!IndexRaises
  <2>1. /\ torn' \in BOOLEAN
        /\ index \subseteq seen => index' \subseteq seen'
        /\ index' \cup seen' \subseteq index \cup seen \cup {Key(e) : e \in Range(todo)}
    BY <1>0, <1>6, IndexEffect
  <2>2. /\ UNCHANGED <<output, repeated, todo>> /\ call = "index"
        /\ call' \in {"returned", "raised"}
    BY <1>6 DEF File!IndexKeys, File!IndexRaises
  <2>3. Range(todo) \subseteq Range(Feed)
    BY <1>0 DEF Range
  <2>4. index' \cup seen' \subseteq {Key(e) : e \in Range(Feed)}
    BY <1>0, <2>1, <2>3
  <2>5. TypeOK' /\ RequestInv'
    BY <1>0, <1>1, <2>1, <2>2, <2>4, FileTypes
  <2>6. index \subseteq seen /\ options.indexed /\ options.type = "jsonl"
    BY <2>2 DEF TypesInv, CallInv, SeenInv
  <2>7. CallInv' /\ SeenInv'
    BY <1>1, <2>1, <2>2, <2>6 DEF TypesInv, CallInv, SeenInv, outer
  <2>. QED BY <2>5, <2>7 DEF TypesInv
<1>. QED BY <1>2, <1>3, <1>4, <1>5, <1>6 DEF File!Deliver

(* A step of the webhook sink changes nothing downstream, or a request     *)
(* that was sent arrives; a call returns when its own request has arrived. *)
LEMMA HttpEffect ==
    ASSUME TypesInv, Http!Deliver \/ Http!LateArrives
    PROVE  /\ UNCHANGED <<options, batch>>
           /\ late' \subseteq late \cup {Http!Request}
           /\ \/ call' = call
              \/ call \in {"called", "post"} /\ call' \in {"post", "returned", "raised"}
           /\ \/ UNCHANGED <<output, repeated, handled>> /\ (call' = "returned" => call = "returned")
              \/ \E r \in late : Http!Arrives(r) /\ call' = call
              \/ call = "post" /\ Http!Arrives(Http!Request)
<1>1. CASE Http!Begin
  BY <1>1 DEF Http!Begin, Http!endpoint
<1>2. CASE Http!PostAccepted
  BY <1>2 DEF Http!PostAccepted
<1>3. CASE Http!PostRefused
  BY <1>3 DEF Http!PostRefused, Http!endpoint
<1>4. CASE Http!PostFails
  <2>1. call = "post" /\ call' \in {"post", "raised"} /\ UNCHANGED <<options, batch>>
    BY <1>4 DEF Http!PostFails
  <2>2. \/ UNCHANGED late /\ UNCHANGED <<output, repeated, handled>>
        \/ UNCHANGED late /\ Http!Arrives(Http!Request)
        \/ late' = late \cup {Http!Request} /\ UNCHANGED <<output, repeated, handled>>
    BY <1>4 DEF Http!PostFails, Http!endpoint
  <2>. QED BY <2>1, <2>2
<1>5. CASE Http!LateArrives
  BY <1>5 DEF Http!LateArrives
<1>. QED BY <1>1, <1>2, <1>3, <1>4, <1>5 DEF Http!Deliver

Sent(r) == Slice(r.events) /\ r.key = Http!BatchKey(r.events)

LEMMA RequestSent ==
    ASSUME TypesInv
    PROVE  /\ \A r \in late : Sent(r)
           /\ batch # <<>> => Sent(Http!Request)
           /\ Http!Request.events = batch
BY BatchSlice DEF TypesInv, RequestInv, Sent, Http!Request

LEMMA HttpStepTypes ==
    ASSUME TypesInv, options.type = "webhook", Http!Deliver \/ Http!LateArrives,
           UNCHANGED fileVars, UNCHANGED <<offsetVars, crashes>>
    PROVE  TypesInv'
<1>0. /\ output \in Seq(Range(Feed)) /\ batch \in Seq(Range(Feed))
      /\ repeated \subseteq Range(Feed)
      /\ attempt \in 0..MaxAttempts /\ (call = "post" => attempt < MaxAttempts)
      /\ MaxAttempts \in Nat \ {0}
  BY BatchSlice, ParametersAssumption DEF TypesInv, TypeOK, CallInv
<1>1. attempt' \in 0..MaxAttempts /\ (call' = "post" => attempt' < MaxAttempts)
  BY <1>0 DEF Http!Deliver, Http!Begin, Http!PostAccepted, Http!PostRefused,
              Http!PostFails, Http!LateArrives
<1>2. /\ UNCHANGED outer
      /\ \/ call' = call
         \/ call \in {"called", "post"} /\ call' \in {"post", "returned", "raised"}
  BY HttpEffect DEF outer
<1>3. \A r \in late' : Sent(r)
  <2>1. late' \subseteq late \/ call = "post"
    BY DEF Http!Deliver, Http!Begin, Http!PostAccepted, Http!PostRefused,
           Http!PostFails, Http!LateArrives
  <2>. QED BY <2>1, HttpEffect, RequestSent DEF TypesInv, CallInv
<1>4. output' \in Seq(Range(Feed)) /\ repeated' \subseteq Range(Feed)
  <2>1. CASE UNCHANGED <<output, repeated, handled>>
    BY <1>0, <2>1
  <2>2. ASSUME NEW r, Sent(r), Http!Arrives(r)
        PROVE  output' \in Seq(Range(Feed)) /\ repeated' \subseteq Range(Feed)
    <3>1. r.events \in Seq(Range(Feed)) /\ Range(r.events) \subseteq Range(Feed)
      BY <2>2, SliceType DEF Sent, Range
    <3>. QED BY <1>0, <2>2, <3>1, ArrivesEffect
  <2>. QED BY <2>1, <2>2, HttpEffect, RequestSent DEF TypesInv, CallInv
<1>5. TypeOK'
  BY <1>1, <1>2, <1>3, <1>4, SliceType
     DEF TypesInv, TypeOK, outer, offsetVars, fileVars, Sent
<1>6. CallInv' /\ SeenInv' /\ RequestInv'
  BY <1>1, <1>2, <1>3
     DEF TypesInv, CallInv, SeenInv, RequestInv, Sent, outer, fileVars
<1>. QED BY <1>5, <1>6 DEF TypesInv

LEMMA RestartTypes == TypesInv /\ Restart => TypesInv'
<1>. SUFFICES ASSUME TypesInv, Restart PROVE TypesInv'
  OBVIOUS
<1>0. /\ output \in Seq(Range(Feed)) /\ todo \in Seq(Range(Feed)) /\ torn \in BOOLEAN
      /\ index \cup seen \subseteq {Key(e) : e \in Range(Feed)}
  BY DEF TypesInv, TypeOK
<1>1. /\ UNCHANGED <<options, offset, confirmed>> /\ next' = offset + 1
      /\ batch' = <<>> /\ call' = "idle" /\ crashes' \in 0..MaxCrashes
  BY ParametersAssumption DEF Restart, TypesInv, TypeOK
<1>2. CASE options.type = "webhook"
  <2>1. attempt' = 0 /\ UNCHANGED <<fileVars, late, output, repeated>>
    BY <1>2 DEF Restart, Http!Restart, Http!endpoint
  <2>2. TypeOK'
    BY <1>1, <2>1, FeedType, ParametersAssumption DEF TypesInv, TypeOK, fileVars
  <2>3. CallInv' /\ SeenInv' /\ RequestInv'
    BY <1>1, <2>1 DEF TypesInv, CallInv, SeenInv, RequestInv, fileVars
  <2>. QED BY <2>2, <2>3 DEF TypesInv
<1>3. CASE options.type # "webhook"
  <2>1. UNCHANGED httpVars /\ File!Restart
    BY <1>3 DEF Restart
  <2>2. /\ torn' \in BOOLEAN
        /\ index' \subseteq {Key(e) : e \in Range(Feed)}
        /\ call = "index" \/ index' = index
    <3>1. CASE call = "index"
      <4>1. PICK n \in 0..Len(todo) - 1, part \in BOOLEAN : File!AppendKeys(n, part)
        BY <2>1, <3>1 DEF File!Restart
      <4>2. n \in 0..Len(todo)
        BY <1>0
      <4>3. /\ torn' \in BOOLEAN
            /\ index' \subseteq index \cup {Key(todo[k]) : k \in 1..n}
        BY <1>0, <4>1, <4>2, AppendKeysEffect
      <4>4. \A k \in 1..n : todo[k] \in Range(Feed)
        BY <1>0, <4>2
      <4>. QED BY <1>0, <3>1, <4>3, <4>4
    <3>2. CASE call # "index"
      BY <1>0, <2>1, <3>2 DEF File!Restart
    <3>. QED BY <3>1, <3>2
  <2>3. seen' = index' /\ todo' = <<>> /\ output' \in {output, <<>>} /\ repeated' \in {repeated, {}}
    BY <2>1 DEF File!Restart
  <2>4. TypeOK'
    <3>1. /\ next' \in 1..Len(Feed) + 1 /\ offset' \in 0..next' - 1
          /\ confirmed' \in next' - 1..Len(Feed)
      <4>1. /\ next \in 1..Len(Feed) + 1 /\ offset \in 0..next - 1
            /\ confirmed \in next - 1..Len(Feed)
        BY DEF TypesInv, TypeOK
      <4>2. offset' = offset /\ confirmed' = confirmed /\ next' = offset + 1
        BY <1>1
      <4>. QED BY <4>1, <4>2, FeedType
    <3>2. /\ output' \in Seq(Range(Feed)) /\ todo' \in Seq(Range(Feed))
          /\ repeated' \subseteq Range(Feed)
      <4>1. <<>> \in Seq(Range(Feed)) /\ repeated \subseteq Range(Feed)
        BY DEF TypesInv, TypeOK
      <4>. QED BY <1>0, <2>3, <4>1
    <3>3. index' \cup seen' \subseteq {Key(e) : e \in Range(Feed)} /\ torn' \in BOOLEAN
      BY <2>2, <2>3
    <3>. QED BY <1>1, <2>1, <3>1, <3>2, <3>3 DEF TypesInv, TypeOK, httpVars
  <2>5. ~options.indexed => index' = {}
    BY <2>2 DEF TypesInv, CallInv, SeenInv
  <2>6. CallInv' /\ SeenInv' /\ RequestInv'
    BY <1>1, <1>3, <2>1, <2>3, <2>5 DEF TypesInv, CallInv, SeenInv, RequestInv, httpVars
  <2>. QED BY <2>4, <2>6 DEF TypesInv
<1>. QED BY <1>2, <1>3

LEMMA ManagerTypes == TypesInv /\ (Confirm \/ Retry \/ Persist \/ UNCHANGED vars) => TypesInv'
<1>. SUFFICES ASSUME TypesInv, Confirm \/ Retry \/ Persist \/ UNCHANGED vars PROVE TypesInv'
  OBVIOUS
<1>. USE DEF sinkVars, outputVars, fileVars, httpVars
<1>1. /\ UNCHANGED <<options, crashes, sinkVars>>
      /\ \/ call' = call /\ batch' = batch
         \/ call = "raised" /\ call' = "called" /\ batch' = batch
         \/ call' = "idle" /\ batch' = <<>>
  BY DEF Confirm, Retry, Persist, vars
<1>2. CallInv' /\ SeenInv' /\ RequestInv'
  BY <1>1 DEF TypesInv, CallInv, SeenInv, RequestInv
<1>3. /\ next' \in 1..Len(Feed) + 1 /\ offset' \in 0..next' - 1 /\ confirmed' \in next' - 1..Len(Feed)
      /\ batch' = <<>> \/ next' = next
  <2>1. CASE Confirm
    <3>1. PICK j \in next..Len(Feed) : batch = SubSeq(Feed, next, j)
      BY <2>1 DEF Confirm, TypesInv, TypeOK, CallInv
    <3>2. next \in 1..Len(Feed) /\ j \in Nat /\ confirmed \in Nat /\ confirmed <= Len(Feed) 
      BY <3>1, FeedType DEF TypesInv, TypeOK
    <3>3. Len(batch) = j - next + 1
      BY <3>1, <3>2, SliceProperties
    <3>4. next' = j + 1
      BY <2>1, <3>2, <3>3 DEF Confirm
    <3>5. confirmed' = Max({confirmed, j})
      <4>1. confirmed' = Max({confirmed, next' - 1})
        BY <2>1 DEF Confirm
      <4>2. next' - 1 = j
        BY <3>2, <3>4
      <4>. QED BY <4>1, <4>2
    <3>6. confirmed' \in {confirmed, j} /\ confirmed' >= j
      BY <3>2, <3>5, MaxOfTwo
    <3>. QED BY <2>1, <3>1, <3>2, <3>4, <3>6, FeedType DEF Confirm, TypesInv, TypeOK
  <2>2. CASE Persist
    BY <2>2, FeedType DEF Persist, TypesInv, TypeOK
  <2>3. CASE Retry \/ UNCHANGED vars
    BY <2>3 DEF Retry, vars, offsetVars, TypesInv, TypeOK
  <2>. QED BY <2>1, <2>2, <2>3
<1>4. TypeOK'
  BY <1>1, <1>3 DEF TypesInv, TypeOK
<1>. QED BY <1>2, <1>4 DEF TypesInv

LEMMA NextTypes == TypesInv /\ [Next]_vars => TypesInv'
<1>. SUFFICES ASSUME TypesInv, [Next]_vars PROVE TypesInv'
  OBVIOUS
<1>1. CASE Deliver
  BY <1>1, FileStepTypes, HttpStepTypes DEF Deliver, SinkStep
<1>. QED BY <1>1, HandOverTypes, RestartTypes, ManagerTypes DEF Next

(* The variables of the sinks and of the manager that drives them keep     *)
(* their types, and a batch in flight is the next slice of the feed.       *)
THEOREM TypeCorrect == Spec => []TypeOK
<1>1. TypesInv => TypeOK
  BY DEF TypesInv
<1>. QED BY <1>1, InitTypes, NextTypes, PTL DEF Spec

-----------------------------------------------------------------------------
(* The index file.                                                         *)
LEMMA WriteSteps ==
    ASSUME TypesInv, File!ReplaceData \/ File!WriteStdout \/ File!StdoutRaises
    PROVE  \E n \in 0..Len(todo) :
              /\ File!Write(SubSeq(todo, 1, n))
              /\ File!StdoutRaises \/ Range(SubSeq(todo, 1, n)) = Range(todo)
              /\ SubSeq(todo, 1, n) \in Seq(Range(Feed))
              /\ Range(SubSeq(todo, 1, n)) \subseteq Range(todo)
              /\ Range(SubSeq(todo, 1, n)) = {todo[k] : k \in 1..n}
<1>1. todo \in Seq(Range(Feed)) /\ Len(todo) \in Nat /\ SubSeq(todo, 1, Len(todo)) = todo
  BY DEF TypesInv, TypeOK
<1>2. \A n \in 0..Len(todo) :
          /\ SubSeq(todo, 1, n) \in Seq(Range(Feed))
          /\ Range(SubSeq(todo, 1, n)) = {todo[k] : k \in 1..n}
          /\ Range(SubSeq(todo, 1, n)) \subseteq Range(todo)
  <2>. TAKE n \in 0..Len(todo)
  <2>1. /\ SubSeq(todo, 1, n) \in Seq(Range(Feed))
        /\ Range(SubSeq(todo, 1, n)) = {todo[k] : k \in 1..n}
    BY <1>1, PrefixProperties
  <2>2. {todo[k] : k \in 1..n} \subseteq Range(todo)
    BY <1>1 DEF Range
  <2>. QED BY <2>1, <2>2
<1>3. CASE File!StdoutRaises
  <2>1. PICK n \in 0..Len(todo) : File!Write(SubSeq(todo, 1, n))
    BY <1>3 DEF File!StdoutRaises
  <2>. QED BY <1>2, <1>3, <2>1
<1>4. CASE File!ReplaceData \/ File!WriteStdout
  <2>1. File!Write(SubSeq(todo, 1, Len(todo)))
    BY <1>1, <1>4 DEF File!ReplaceData, File!WriteStdout
  <2>2. Len(todo) \in 0..Len(todo)
    BY <1>1
  <2>3. Range(SubSeq(todo, 1, Len(todo))) = Range(todo)
    BY <1>1
  <2>. QED BY <1>2, <2>1, <2>2, <2>3
<1>. QED BY <1>3, <1>4

(* "On restart any event whose key is already in the index is skipped on   *)
(* write" (JsonlFileSink): no event is written a second time while its key *)
(* is in the index file, whatever failed and however often it restarted.   *)
THEOREM NeverRewritten == Spec => IndexedNeverRewritten
<1>1. TypesInv /\ [Next]_vars => [\A e \in repeated' \ repeated : Key(e) \notin index]_vars
  <2>. SUFFICES ASSUME TypesInv, Next, NEW e \in repeated' \ repeated
                PROVE  Key(e) \notin index
    OBVIOUS
  <2>1. CASE options.type = "webhook"
    BY <2>1 DEF TypesInv, SeenInv
  <2>2. CASE File!ReplaceData \/ File!WriteStdout \/ File!StdoutRaises
    <3>1. PICK n \in 0..Len(todo) :
              /\ File!Write(SubSeq(todo, 1, n))
              /\ SubSeq(todo, 1, n) \in Seq(Range(Feed))
              /\ Range(SubSeq(todo, 1, n)) \subseteq Range(todo)
      BY <2>2, WriteSteps
    <3>2. e \in Range(todo)
      BY <3>1, WriteEffect DEF TypesInv, TypeOK
    <3>3. call = "write"
      BY <2>2 DEF File!ReplaceData, File!WriteStdout, File!StdoutRaises
    <3>. QED BY <3>2, <3>3 DEF TypesInv, SeenInv
  <2>3. CASE options.type # "webhook" /\ ~(File!ReplaceData \/ File!WriteStdout \/ File!StdoutRaises)
    <3>1. repeated' \in {repeated, {}}
      BY <2>3 DEF Next, HandOver, Deliver, SinkStep, Confirm, Retry, Persist, Restart,
                  File!Deliver, File!Filter, File!DataWritten, File!IndexKeys,
                  File!WriteRaises, File!IndexRaises, File!Restart, File!files,
                  File!jsonlVars, sinkVars, outputVars
    <3>. QED BY <3>1
  <2>. QED BY <2>1, <2>2, <2>3
<1>. QED BY <1>1, InitTypes, NextTypes, PTL DEF Spec, IndexedNeverRewritten

LEMMA FileStepIndexed ==
    ASSUME Appending, TypesInv, FileInv, File!Deliver
    PROVE  FileInv'
<1>0. /\ output \in Seq(Range(Feed)) /\ todo \in Seq(Range(Feed)) /\ torn \in BOOLEAN
      /\ batch \in Seq(Range(Feed)) /\ options.append
  BY BatchSlice DEF TypesInv, TypeOK, Appending
<1>. USE DEF FileInv
<1>1. CASE File!Filter
  BY <1>1 DEF File!Filter, File!files
<1>2. CASE File!ReplaceData \/ File!WriteStdout \/ File!StdoutRaises
  <2>1. PICK n \in 0..Len(todo) :
            /\ File!Write(SubSeq(todo, 1, n))
            /\ File!StdoutRaises \/ Range(SubSeq(todo, 1, n)) = Range(todo)
            /\ SubSeq(todo, 1, n) \in Seq(Range(Feed))
    BY <1>2, WriteSteps
  <2>2. Range(output') = Range(SubSeq(todo, 1, n)) \cup Range(output)
    BY <1>0, <2>1, WriteEffect
  <2>3. UNCHANGED <<seen, todo>> /\ (File!StdoutRaises => call' = "raised")
    BY <1>2 DEF File!ReplaceData, File!WriteStdout, File!StdoutRaises
  <2>. QED BY <2>1, <2>2, <2>3, KeysOfRange
<1>3. CASE File!DataWritten \/ File!WriteRaises
  BY <1>3 DEF File!DataWritten, File!WriteRaises, File!jsonlVars, File!files
<1>4. CASE File!IndexKeys \/ File!IndexRaises
  <2>1. seen' \subseteq index \cup seen \cup {Key(e) : e \in Range(todo)}
    BY <1>0, <1>4, IndexEffect
  <2>2. index \subseteq seen /\ call = "index"
    BY <1>4 DEF TypesInv, SeenInv, File!IndexKeys, File!IndexRaises
  <2>3. UNCHANGED <<output, todo>> /\ call' \in {"returned", "raised"}
    BY <1>4 DEF File!IndexKeys, File!IndexRaises
  <2>. QED BY <2>1, <2>2, <2>3, KeysOfRange
<1>. QED BY <1>1, <1>2, <1>3, <1>4 DEF File!Deliver

LEMMA HttpStepOutput ==
    ASSUME TypesInv, Http!Deliver \/ Http!LateArrives
    PROVE  \/ /\ UNCHANGED <<output, repeated, handled>>
              /\ call' = "returned" => call = "returned"
           \/ \E r : /\ Sent(r) /\ Http!Arrives(r)
                     /\ \/ r \in late /\ call' = call
                        \/ r = Http!Request /\ call = "post"
BY HttpEffect, RequestSent DEF TypesInv, CallInv

LEMMA NextIndexed == Appending /\ TypesInv /\ FileInv /\ [Next]_vars => FileInv'
<1>. SUFFICES ASSUME Appending, TypesInv, FileInv, [Next]_vars PROVE FileInv'
  OBVIOUS
<1>1. CASE HandOver \/ Confirm \/ Retry \/ Persist \/ UNCHANGED vars
  BY <1>1 DEF FileInv, HandOver, Confirm, Retry, Persist, vars, sinkVars, outputVars, fileVars
<1>2. CASE Restart
  <2>1. CASE options.type = "webhook"
    BY <1>2, <2>1 DEF Restart, Http!Restart, Http!endpoint, fileVars, FileInv
  <2>2. CASE options.type # "webhook"
    <3>1. options.append /\ File!Restart /\ call' = "idle"
      BY <1>2, <2>2 DEF Restart, Appending, TypesInv, TypeOK
    <3>2. output' = output /\ seen' = index'
      BY <3>1 DEF File!Restart
    <3>3. index' \subseteq File!KeysOf(output)
      <4>1. CASE call = "index"
        <5>1. PICK n \in 0..Len(todo) - 1, part \in BOOLEAN : File!AppendKeys(n, part)
          BY <3>1, <4>1 DEF File!Restart
        <5>2. /\ n \in 0..Len(todo) /\ todo \in Seq(Range(Feed)) /\ torn \in BOOLEAN
          BY DEF TypesInv, TypeOK
        <5>3. index' \subseteq index \cup {Key(todo[k]) : k \in 1..n}
          BY <5>1, <5>2, AppendKeysEffect
        <5>4. \A k \in 1..n : todo[k] \in Range(output)
          <6>1. \A k \in 1..n : todo[k] \in Range(todo)
            BY <5>2 DEF Range
          <6>. QED BY <4>1, <6>1 DEF FileInv
        <5>5. {Key(todo[k]) : k \in 1..n} \subseteq File!KeysOf(output)
          BY <5>4, KeysOfRange
        <5>. QED BY <5>3, <5>5 DEF FileInv, TypesInv, SeenInv
      <4>2. CASE call # "index"
        BY <3>1, <4>2 DEF File!Restart, FileInv, TypesInv, SeenInv
      <4>. QED BY <4>1, <4>2
    <3>. QED BY <3>1, <3>2, <3>3 DEF FileInv
  <2>. QED BY <2>1, <2>2
<1>3. CASE Deliver /\ options.type = "webhook"
  <2>1. seen = {} /\ UNCHANGED fileVars /\ (Http!Deliver \/ Http!LateArrives)
    BY <1>3 DEF Deliver, SinkStep, TypesInv, SeenInv
  <2>2. call' \notin {"reopen", "index"}
    BY <1>3, <2>1, HttpEffect DEF TypesInv, CallInv
  <2>. QED BY <2>1, <2>2 DEF FileInv, fileVars
<1>4. CASE Deliver /\ options.type # "webhook"
  BY <1>4, FileStepIndexed DEF Deliver, SinkStep
<1>. QED BY <1>1, <1>2, <1>3, <1>4 DEF Next

(* "Only persist the keys AFTER the data block is durable"                 *)
(* (JsonlFileSink.deliver_batch): as long as the data file is appended to, *)
(* a key in the index stands for an event in the file.                     *)
THEOREM IndexBehindFile ==
    ASSUME Appending
    PROVE  Spec => []IndexNeverAhead
<1>1. Init => FileInv
  BY DEF Init, File!Init, FileInv
<1>2. TypesInv /\ FileInv => IndexNeverAhead
  BY DEF TypesInv, SeenInv, FileInv, IndexNeverAhead
<1>3. TypesInv /\ FileInv /\ [Next]_vars => FileInv'
  BY NextIndexed
<1>. QED BY <1>1, <1>2, <1>3, InitTypes, NextTypes, PTL DEF Spec

-----------------------------------------------------------------------------
(* The output is the feed, without a gap and in order.                     *)
LEMMA Appended ==
    ASSUME output \in Seq(Range(Feed)), FeedOrder(output), Closed(Range(output)),
           NEW s \in Seq(Range(Feed)), FeedOrder(s)
    PROVE  FeedOrder(output \o Without(s, Range(output)))
<1>. DEFINE t == Without(s, Range(output))
<1>1. t \in Seq(Range(Feed)) /\ Range(t) = Range(s) \ Range(output) /\ FeedOrder(t)
  BY WithoutProperties
<1>2. Range(output) \subseteq Range(Feed) /\ Range(t) \subseteq Range(Feed)
  BY <1>1 DEF Range
<1>3. \A e \in Range(output), f \in Range(t) : Before(e, f)
  BY <1>1, <1>2, OrderOfFeed DEF Closed
<1>4. FeedOrder(output \o t)
  <2>. HIDE DEF t
  <2>. QED BY <1>1, <1>3, ConcatOrdered
<1>. QED BY <1>4

LEMMA WriteAppends ==
    ASSUME TypesInv, OutputInv, options.append, NEW s \in Seq(Range(Feed)), FeedOrder(s),
           Closed(Range(output) \cup Range(s)), File!Write(s)
    PROVE  /\ FeedOrder(output') /\ Closed(Range(output'))
           /\ Range(output') = Range(output) \cup Range(s)
<1>1. output \in Seq(Range(Feed))
  BY DEF TypesInv, TypeOK
<1>2. Range(output') = Range(output) \cup Range(s)
  BY <1>1, WriteEffect
<1>3. output' = output \o Without(s, Range(output))
  BY SameFilter, SameRange DEF File!Write
<1>. QED BY <1>1, <1>2, <1>3, Appended DEF OutputInv

(* What has been delivered before needs not be delivered. *)
LEMMA SeenDelivered ==
    ASSUME Distinguishing, TypesInv, FileInv, NEW e \in Range(Feed), Key(e) \in seen
    PROVE  e \in Range(output)
<1>1. options.indexed /\ options \in Options
  BY DEF TypesInv, SeenInv, TypeOK
<1>2. KeysIdentify
  BY <1>1 DEF Distinguishing
<1>3. PICK f \in Range(output) : Key(f) = Key(e)
  BY KeysOfRange DEF FileInv
<1>4. f \in Range(Feed)
  BY <1>3 DEF TypesInv, TypeOK, Range
<1>. QED BY <1>2, <1>3, <1>4 DEF KeysIdentify

LEMMA KeysOfBatch ==
    ASSUME NEW b PROVE DOMAIN Http!BatchKey(b) = {Key(e) : e \in Range(b)}
BY DEF Http!BatchKey, Range

LEMMA HandledDelivered ==
    ASSUME Distinguishing, TypesInv, OutputInv, options.type = "webhook",
           NEW r, Sent(r), r.key \in handled
    PROVE  Range(r.events) \subseteq Range(output)
<1>1. KeysIdentify
  BY DEF TypesInv, TypeOK, Distinguishing
<1>2. {Key(e) : e \in Range(r.events)} \subseteq {Key(e) : e \in Range(output)}
  BY KeysOfBatch, KeysOfRange DEF OutputInv, Sent
<1>3. Range(r.events) \subseteq Range(Feed) /\ Range(output) \subseteq Range(Feed)
  <2>1. r.events \in Seq(Range(Feed)) /\ output \in Seq(Range(Feed))
    BY SliceType DEF TypesInv, TypeOK, Sent
  <2>. QED BY <2>1 DEF Range
<1>4. ASSUME NEW e \in Range(r.events) PROVE e \in Range(output)
  <2>1. PICK f \in Range(output) : Key(f) = Key(e)
    BY <1>2
  <2>. QED BY <1>1, <1>3, <2>1 DEF KeysIdentify
<1>. QED BY <1>4

LEMMA ArrivesAppends ==
    ASSUME Distinguishing, TypesInv, OutputInv, options.type = "webhook",
           NEW r, Sent(r), Closed(Range(output) \cup Range(r.events)), Http!Arrives(r)
    PROVE  /\ FeedOrder(output') /\ Closed(Range(output'))
           /\ Range(output') = Range(output) \cup Range(r.events)
<1>1. output \in Seq(Range(Feed)) /\ r.events \in Seq(Range(Feed)) /\ FeedOrder(r.events)
  BY SliceType DEF TypesInv, TypeOK, Sent
<1>2. CASE r.key \in handled
  <2>1. output' = output
    BY <1>2 DEF Http!Arrives, Http!endpoint
  <2>. QED BY <1>2, <2>1, HandledDelivered DEF OutputInv
<1>3. CASE r.key \notin handled
  <2>1. output' = output \o Without(r.events, Range(output))
    BY <1>3, SameFilter, SameRange DEF Http!Arrives
  <2>2. Range(output') = Range(output) \cup Range(r.events)
    BY <1>1, <1>3, ArrivesEffect
  <2>. QED BY <1>1, <2>1, <2>2, Appended DEF OutputInv
<1>. QED BY <1>2, <1>3

(* What an output that grows without a gap leaves as it was.               *)
LEMMA Growing ==
    ASSUME OutputInv, Closed(Range(output')), Range(output) \subseteq Range(output'),
           UNCHANGED <<batch, confirmed>>
    PROVE  /\ \A i \in 1..confirmed' : Feed[i] \in Range(output')
           /\ Closed(Range(output') \cup Range(batch'))
           /\ \A r \in late : Closed(Range(output') \cup Range(r.events))
<1>1. \A S : Closed(Range(output) \cup S) => Closed(Range(output') \cup S)
  <2>. TAKE S
  <2>1. Range(output') \cup S = Range(output') \cup (Range(output) \cup S)
    OBVIOUS
  <2>. QED BY <2>1, ClosedUnion
<1>. QED BY <1>1 DEF OutputInv

LEMMA PrefixClosed ==
    ASSUME NEW s \in Seq(Range(Feed)), FeedOrder(s), NEW n \in 0..Len(s), NEW S,
           S \subseteq Range(Feed), Closed(S), Closed(S \cup Range(s))
    PROVE  Closed(S \cup {s[k] : k \in 1..n})
<1>. SUFFICES ASSUME NEW e \in S \cup {s[k] : k \in 1..n}, NEW f \in Range(Feed), Before(f, e)
              PROVE  f \in S \cup {s[k] : k \in 1..n}
  BY DEF Closed
<1>1. CASE e \in S
  BY <1>1 DEF Closed
<1>2. CASE e \notin S
  <2>1. PICK a \in 1..n : e = s[a]
    BY <1>2
  <2>2. DOMAIN s = 1..Len(s) /\ a \in DOMAIN s /\ e \in Range(s) /\ e \in Range(Feed)
    BY <2>1 DEF Range
  <2>3. f \in S \cup Range(s)
    BY <2>2 DEF Closed
  <2>4. CASE f \in Range(s)
    <3>1. PICK b \in DOMAIN s : f = s[b]
      BY <2>4 DEF Range
    <3>2. ~(a < b)
      <4>1. a < b => Before(e, f)
        BY <2>1, <2>2, <3>1 DEF FeedOrder
      <4>. QED BY <4>1, NeverBoth
    <3>3. b \in 1..n
      BY <2>1, <2>2, <3>1, <3>2
    <3>. QED BY <3>1, <3>3
  <2>. QED BY <2>3, <2>4
<1>. QED BY <1>1, <1>2

LEMMA InitOutput == Init => OutputInv
<1>. SUFFICES ASSUME Init PROVE OutputInv
  OBVIOUS
<1>1. /\ output = <<>> /\ confirmed = 0 /\ batch = <<>> /\ call = "idle"
      /\ late = {} /\ handled = {}
  BY DEF Init, File!Init, Http!Init
<1>2. FeedOrder(<<>>) /\ Closed({})
  BY DEF FeedOrder, Closed
<1>3. /\ Range(output) = {} /\ Range(batch) = {} /\ Range(output) \cup Range(batch) = {}
      /\ 1..confirmed = {}
  BY <1>1, RangeOfNone
<1>. QED BY <1>1, <1>2, <1>3 DEF OutputInv

LEMMA HandOverOutput == TypesInv /\ OutputInv /\ HandOver => OutputInv'
<1>. SUFFICES ASSUME TypesInv, OutputInv, HandOver PROVE OutputInv'
  OBVIOUS
<1>1. PICK j \in next..Len(Feed) : batch' = SubSeq(Feed, next, j)
  BY DEF HandOver
<1>2. /\ next \in 1..Len(Feed) /\ j \in next..Len(Feed) /\ confirmed \in Nat
      /\ next - 1 <= confirmed
  BY <1>1, FeedType DEF TypesInv, TypeOK
<1>3. Range(batch') = {Feed[k] : k \in next..j}
  BY <1>1, <1>2, SliceProperties
<1>4. UNCHANGED <<output, confirmed, todo, late, handled>> /\ call' = "called"
  BY DEF HandOver, sinkVars, outputVars, fileVars, httpVars, offsetVars
<1>5. Closed(Range(output) \cup Range(batch'))
  <2>. SUFFICES ASSUME NEW e \in Range(output) \cup Range(batch'), NEW f \in Range(Feed),
                       Before(f, e)
                PROVE  f \in Range(output) \cup Range(batch')
    BY DEF Closed
  <2>1. CASE e \in Range(output)
    BY <2>1 DEF OutputInv, Closed
  <2>2. CASE e \in Range(batch')
    <3>1. PICK k \in next..j : e = Feed[k]
      BY <1>3, <2>2
    <3>2. PICK x \in 1..Len(Feed) : f = Feed[x]
      BY FeedType DEF Range
    <3>3. x < k /\ k \in 1..Len(Feed)
      BY <1>2, <3>1, <3>2, OrderOfFeed, FeedType
    <3>4. CASE x < next
      <4>1. x \in 1..confirmed
        BY <1>2, <3>4
      <4>. QED BY <3>2, <4>1 DEF OutputInv
    <3>5. CASE x >= next
      <4>1. x \in next..j
        BY <1>2, <3>1, <3>3, <3>5
      <4>. QED BY <1>3, <3>2, <4>1
    <3>. QED BY <1>2, <3>4, <3>5
  <2>. QED BY <2>1, <2>2
<1>. QED BY <1>4, <1>5 DEF OutputInv

LEMMA FileStepOutput ==
    ASSUME Appending, Distinguishing, TypesInv, FileInv, OutputInv, File!Deliver,
           UNCHANGED httpVars, UNCHANGED <<offsetVars, crashes>>
    PROVE  OutputInv' /\ Range(output) \subseteq Range(output')
<1>0. /\ output \in Seq(Range(Feed)) /\ todo \in Seq(Range(Feed))
      /\ batch \in Seq(Range(Feed)) /\ FeedOrder(batch) /\ options.append
      /\ Range(batch) \subseteq Range(Feed) /\ Range(output) \subseteq Range(Feed)
  <2>1. /\ output \in Seq(Range(Feed)) /\ todo \in Seq(Range(Feed))
        /\ batch \in Seq(Range(Feed)) /\ FeedOrder(batch) /\ options.append
    BY BatchSlice DEF TypesInv, TypeOK, Appending
  <2>. QED BY <2>1 DEF Range
<1>1. UNCHANGED <<batch, late, handled, confirmed>>
  BY DEF File!Deliver, File!Filter, File!ReplaceData, File!DataWritten, File!WriteStdout,
         File!IndexKeys, File!WriteRaises, File!StdoutRaises, File!IndexRaises,
         httpVars, offsetVars
<1>2. CASE File!Filter
  <2>1. /\ FeedOrder(todo') /\ Range(todo') = {e \in Range(batch) : Key(e) \notin seen}
        /\ output' = output
        /\ call' = IF todo' = <<>> THEN "returned" ELSE "write"
    BY <1>0, <1>2, FilterEffect DEF File!Filter, File!files
  <2>2. Range(batch) \subseteq Range(todo') \cup Range(output)
    BY <1>0, <2>1, SeenDelivered
  <2>3. todo' = <<>> => Range(batch) \subseteq Range(output)
    BY <2>2, RangeOfNone
  <2>. QED BY <1>1, <2>1, <2>2, <2>3 DEF OutputInv
<1>3. CASE File!ReplaceData \/ File!WriteStdout \/ File!StdoutRaises
  <2>1. PICK n \in 0..Len(todo) :
            /\ File!Write(SubSeq(todo, 1, n))
            /\ File!StdoutRaises \/ Range(SubSeq(todo, 1, n)) = Range(todo)
            /\ SubSeq(todo, 1, n) \in Seq(Range(Feed))
            /\ Range(SubSeq(todo, 1, n)) \subseteq Range(todo)
            /\ Range(SubSeq(todo, 1, n)) = {todo[k] : k \in 1..n}
    BY <1>3, WriteSteps
  <2>2. /\ call = "write" /\ call' \in {"reopen", "returned", "raised"}
        /\ File!StdoutRaises => call' = "raised"
    BY <1>3 DEF File!ReplaceData, File!WriteStdout, File!StdoutRaises
  <2>3. /\ FeedOrder(todo) /\ Range(todo) \subseteq Range(batch)
        /\ Range(batch) \subseteq Range(todo) \cup Range(output)
    BY <2>2 DEF OutputInv, TypesInv, CallInv
  <2>. DEFINE s == SubSeq(todo, 1, n)
  <2>4. FeedOrder(s)
    BY <1>0, <2>3, PrefixProperties
  <2>5. Closed(Range(output) \cup Range(s))
    <3>1. Range(output) \cup Range(todo) = Range(output) \cup Range(batch)
      BY <2>3
    <3>2. Closed(Range(output) \cup Range(todo)) /\ Closed(Range(output))
      BY <3>1 DEF OutputInv
    <3>. QED BY <1>0, <2>1, <2>3, <3>2, PrefixClosed
  <2>6. /\ FeedOrder(output') /\ Closed(Range(output'))
        /\ Range(output') = Range(output) \cup Range(s)
    BY <1>0, <2>1, <2>4, <2>5, WriteAppends
  <2>7. call' # "raised" => Range(batch') \subseteq Range(output')
    BY <1>1, <2>1, <2>2, <2>3, <2>6
  <2>8. Range(output) \subseteq Range(output')
    BY <2>6
  <2>9. \A k \in handled' : DOMAIN k \subseteq File!KeysOf(output')
    BY <1>1, <2>8, KeysOfRange DEF OutputInv
  <2>10. /\ \A i \in 1..confirmed' : Feed[i] \in Range(output')
         /\ Closed(Range(output') \cup Range(batch'))
         /\ \A r \in late : Closed(Range(output') \cup Range(r.events))
    BY <1>1, <2>6, <2>8, Growing
  <2>. HIDE DEF s
  <2>. QED BY <1>1, <2>2, <2>6, <2>7, <2>8, <2>9, <2>10 DEF OutputInv
<1>4. CASE File!DataWritten \/ File!WriteRaises
  BY <1>1, <1>4
     DEF OutputInv, File!DataWritten, File!WriteRaises, File!jsonlVars, File!files
<1>5. CASE File!IndexKeys \/ File!IndexRaises
  BY <1>1, <1>5 DEF OutputInv, File!IndexKeys, File!IndexRaises
<1>. QED BY <1>2, <1>3, <1>4, <1>5 DEF File!Deliver

LEMMA HttpStepOutputInv ==
    ASSUME Distinguishing, TypesInv, OutputInv, options.type = "webhook",
           Http!Deliver \/ Http!LateArrives,
           UNCHANGED fileVars, UNCHANGED <<offsetVars, crashes>>
    PROVE  OutputInv' /\ Range(output) \subseteq Range(output')
<1>1. /\ UNCHANGED <<batch, todo, confirmed>> /\ late' \subseteq late \cup {Http!Request}
      /\ call' \notin {"write", "reopen", "index"}
  BY HttpEffect DEF TypesInv, CallInv, fileVars, offsetVars
<1>2. late' \subseteq late \/ call = "post"
  BY DEF Http!Deliver, Http!Begin, Http!PostAccepted, Http!PostRefused,
         Http!PostFails, Http!LateArrives
<1>3. Http!Request.events = batch
  BY RequestSent
<1>4. CASE UNCHANGED <<output, repeated, handled>> /\ (call' = "returned" => call = "returned")
  <2>1. \A r \in late' : Closed(Range(output') \cup Range(r.events))
    BY <1>1, <1>2, <1>3, <1>4 DEF OutputInv
  <2>. QED BY <1>1, <1>4, <2>1 DEF OutputInv
<1>5. ASSUME NEW r, Sent(r), Http!Arrives(r),
             (r \in late /\ call' = call) \/ (r = Http!Request /\ call = "post")
      PROVE  OutputInv' /\ Range(output) \subseteq Range(output')
  <2>1. Closed(Range(output) \cup Range(r.events))
    BY <1>3, <1>5 DEF OutputInv
  <2>2. /\ FeedOrder(output') /\ Closed(Range(output'))
        /\ Range(output') = Range(output) \cup Range(r.events)
    BY <1>5, <2>1, ArrivesAppends
  <2>3. Range(output) \subseteq Range(output')
    BY <2>2
  <2>4. /\ \A i \in 1..confirmed' : Feed[i] \in Range(output')
        /\ Closed(Range(output') \cup Range(batch'))
        /\ \A x \in late : Closed(Range(output') \cup Range(x.events))
    BY <1>1, <2>2, <2>3, Growing
  <2>5. \A x \in late' : Closed(Range(output') \cup Range(x.events))
    BY <1>1, <1>3, <2>4
  <2>6. call' = "returned" => Range(batch') \subseteq Range(output')
    <3>1. CASE call' = call
      BY <1>1, <2>3, <3>1 DEF OutputInv
    <3>2. CASE r = Http!Request
      BY <1>1, <1>3, <2>2, <3>2
    <3>. QED BY <1>5, <3>1, <3>2
  <2>7. \A k \in handled' : DOMAIN k \subseteq File!KeysOf(output')
    <3>1. handled' \subseteq handled \cup {r.key}
      <4>1. r.events \in Seq(Range(Feed)) /\ output \in Seq(Range(Feed))
        BY <1>5, SliceType DEF TypesInv, TypeOK, Sent
      <4>. QED BY <1>5, <4>1, ArrivesEffect
    <3>2. DOMAIN r.key \subseteq File!KeysOf(output')
      <4>1. DOMAIN r.key = {Key(e) : e \in Range(r.events)}
        BY <1>5, KeysOfBatch DEF Sent
      <4>2. File!KeysOf(output') = {Key(e) : e \in Range(output')}
        BY KeysOfRange
      <4>. QED BY <2>2, <4>1, <4>2
    <3>3. \A k \in handled : DOMAIN k \subseteq File!KeysOf(output')
      BY <2>3, KeysOfRange DEF OutputInv
    <3>. QED BY <3>1, <3>2, <3>3
  <2>. QED BY <1>1, <2>2, <2>3, <2>4, <2>5, <2>6, <2>7 DEF OutputInv
<1>6. SUFFICES ASSUME ~(/\ UNCHANGED <<output, repeated, handled>>
                        /\ call' = "returned" => call = "returned")
               PROVE  OutputInv' /\ Range(output) \subseteq Range(output')
  BY <1>4
<1>7. PICK r : /\ Sent(r) /\ Http!Arrives(r)
               /\ (r \in late /\ call' = call) \/ (r = Http!Request /\ call = "post")
  BY <1>6, HttpStepOutput
<1>. QED BY <1>5, <1>7

LEMMA ManagerOutput ==
    ASSUME Appending, TypesInv, OutputInv,
           Confirm \/ Retry \/ Persist \/ Restart \/ UNCHANGED vars
    PROVE  OutputInv' /\ UNCHANGED output
<1>1. UNCHANGED <<output, late, handled>>
  BY DEF Confirm, Retry, Persist, Restart, vars, sinkVars, outputVars, httpVars,
         File!Restart, Http!Restart, Http!endpoint, Appending, TypesInv, TypeOK
<1>2. CASE Confirm
  <2>1. /\ call = "returned" /\ call' = "idle" /\ batch' = <<>> /\ UNCHANGED todo
    BY <1>2 DEF Confirm, sinkVars, fileVars
  <2>2. PICK j \in next..Len(Feed) : batch = SubSeq(Feed, next, j)
    BY <2>1 DEF TypesInv, TypeOK, CallInv
  <2>3. /\ next \in 1..Len(Feed) /\ j \in Nat /\ confirmed \in Nat /\ next - 1 <= confirmed
    BY <2>2, FeedType DEF TypesInv, TypeOK
  <2>4. Len(batch) = j - next + 1 /\ Range(batch) = {Feed[k] : k \in next..j}
    BY <2>2, <2>3, SliceProperties
  <2>5. confirmed' \in {confirmed, j}
    <3>1. confirmed' = Max({confirmed, next' - 1}) /\ next' = next + Len(batch)
      BY <1>2 DEF Confirm
    <3>2. next' - 1 = j
      BY <2>3, <2>4, <3>1
    <3>. QED BY <2>3, <3>1, <3>2, MaxOfTwo
  <2>6. ASSUME NEW i \in 1..confirmed' PROVE Feed[i] \in Range(output)
    <3>1. CASE i \in 1..confirmed
      BY <3>1 DEF OutputInv
    <3>2. CASE i \in next..j
      BY <2>1, <2>4, <3>2 DEF OutputInv
    <3>. QED BY <2>3, <2>5, <3>1, <3>2
  <2>. QED BY <1>1, <2>1, <2>6, RangeOfNone DEF OutputInv
<1>3. CASE Retry \/ Persist \/ UNCHANGED vars
  BY <1>1, <1>3 DEF OutputInv, Retry, Persist, vars, sinkVars, fileVars, offsetVars
<1>4. CASE Restart
  <2>1. batch' = <<>> /\ call' = "idle" /\ confirmed' = confirmed
    BY <1>4 DEF Restart
  <2>. QED BY <1>1, <2>1, RangeOfNone DEF OutputInv
<1>. QED BY <1>1, <1>2, <1>3, <1>4

LEMMA NextOutput ==
    ASSUME Appending, Distinguishing, LedgerInv, [Next]_vars
    PROVE  LedgerInv' /\ Range(output) \subseteq Range(output')
<1>1. TypesInv' /\ FileInv'
  BY NextTypes, NextIndexed DEF LedgerInv
<1>2. OutputInv' /\ Range(output) \subseteq Range(output')
  <2>. USE DEF LedgerInv
  <2>1. CASE Deliver
    BY <2>1, FileStepOutput, HttpStepOutputInv DEF Deliver, SinkStep
  <2>2. CASE HandOver
    BY <2>2, HandOverOutput DEF HandOver, sinkVars, outputVars
  <2>. QED BY <2>1, <2>2, ManagerOutput DEF Next
<1>. QED BY <1>1, <1>2 DEF LedgerInv

(* A position is reached when its event is there. *)
LEMMA PrefixReaches ==
    ASSUME NEW s \in Seq(Range(Feed)), FeedOrder(s), Closed(Range(s)),
           NEW i \in 1..Len(Feed), Feed[i] \in Range(s)
    PROVE  i <= Len(s)
<1>1. Len(s) \in 0..Len(Feed) /\ s = SubSeq(Feed, 1, Len(s))
  BY ClosedIsPrefix
<1>2. DOMAIN s = 1..Len(s)
  OBVIOUS
<1>3. PICK k \in 1..Len(s) : s[k] = Feed[i]
  BY <1>2 DEF Range
<1>4. 1 \in 1..Len(Feed) /\ Len(s) \in 1..Len(Feed) /\ k \in 1..Len(Feed)
  BY <1>1, <1>3, FeedType
<1>5. \A m \in 1..Len(s) : SubSeq(Feed, 1, Len(s))[m] = Feed[m]
  BY <1>4, FeedAssumption, FeedType, SubSeqProperties
<1>6. s[k] = Feed[k]
  BY <1>1, <1>5
<1>7. i = k
  BY <1>3, <1>4, <1>6, FeedType
<1>. QED BY <1>3, <1>7

LEMMA OutputGrows ==
    ASSUME LedgerInv, LedgerInv', Range(output) \subseteq Range(output')
    PROVE  \/ output' = output
           \/ \E n \in Len(output) + 1 .. Len(Feed) : output' = SubSeq(Feed, 1, n)
<1>1. /\ output \in Seq(Range(Feed)) /\ FeedOrder(output) /\ Closed(Range(output))
      /\ output' \in Seq(Range(Feed)) /\ FeedOrder(output') /\ Closed(Range(output'))
  BY DEF LedgerInv, TypesInv, TypeOK, OutputInv
<1>2. /\ Len(output) \in 0..Len(Feed) /\ output = SubSeq(Feed, 1, Len(output))
      /\ Len(output') \in 0..Len(Feed) /\ output' = SubSeq(Feed, 1, Len(output'))
  BY <1>1, ClosedIsPrefix
<1>3. Len(output) <= Len(output')
  <2>1. CASE Len(output) = 0
    BY <1>2, <2>1, FeedType
  <2>2. CASE Len(output) # 0
    <3>1. Len(output) \in DOMAIN output /\ Len(output) \in 1..Len(Feed)
      BY <1>1, <1>2, <2>2, FeedType
    <3>2. output[Len(output)] \in Range(output)
      BY <3>1 DEF Range
    <3>3. output[Len(output)] = Feed[Len(output)]
      BY <1>2, <3>1, FeedAssumption, FeedType, SubSeqProperties
    <3>. QED BY <1>1, <3>1, <3>2, <3>3, PrefixReaches
  <2>. QED BY <2>1, <2>2
<1>4. CASE Len(output') = Len(output)
  BY <1>2, <1>4
<1>5. CASE Len(output') # Len(output)
  <2>. DEFINE m == Len(output)
              n == Len(output')
  <2>1. m \in Nat /\ n \in 0..Len(Feed) /\ m <= n /\ n # m /\ output' = SubSeq(Feed, 1, n)
    <3>1. m \in Nat
      BY <1>1
    <3>. QED BY <1>2, <1>3, <1>5, <3>1
  <2>2. n \in m + 1 .. Len(Feed)
    <3>. HIDE DEF m, n
    <3>. QED BY <2>1, FeedType
  <2>. QED BY <2>1, <2>2
<1>. QED BY <1>4, <1>5

LEMMA ConfirmGrows ==
    ASSUME LedgerInv, LedgerInv', Confirm
    PROVE  confirmed' = confirmed \/ confirmed' \in confirmed + 1 .. Len(output)
<1>1. UNCHANGED output /\ confirmed' = Max({confirmed, next' - 1})
  BY DEF Confirm, sinkVars, outputVars
<1>2. /\ confirmed \in Nat /\ confirmed' \in Nat /\ confirmed' <= Len(Feed)
      /\ next' - 1 \in Nat
  <2>1. /\ next \in 1..Len(Feed) + 1 /\ next' \in 1..Len(Feed) + 1
        /\ confirmed \in next - 1..Len(Feed) /\ confirmed' \in next' - 1..Len(Feed)
    BY DEF LedgerInv, TypesInv, TypeOK
  <2>. DEFINE last == Len(Feed)
  <2>. last \in Nat
    BY FeedType
  <2>2. next \in Nat /\ next' \in Nat /\ next >= 1 /\ next' >= 1
    <3>. HIDE DEF last
    <3>1. next \in 1..last + 1 /\ next' \in 1..last + 1
      BY <2>1 DEF last
    <3>. QED BY <3>1
  <2>3. /\ confirmed \in next - 1..last /\ confirmed' \in next' - 1..last
    BY <2>1
  <2>. HIDE DEF last
  <2>4. confirmed \in Nat /\ confirmed' \in Nat /\ confirmed' <= last /\ next' - 1 \in Nat
    <3>1. \A n, l \in Nat : n >= 1 => \A c \in n - 1..l : c \in Nat /\ c <= l /\ n - 1 \in Nat
      OBVIOUS
    <3>. QED BY <2>2, <2>3, <3>1
  <2>. QED BY <2>4 DEF last
<1>3. confirmed' >= confirmed
  <2>. DEFINE n == next' - 1
  <2>1. confirmed' = Max({confirmed, n}) /\ n \in Nat
    BY <1>1, <1>2
  <2>. HIDE DEF n
  <2>. QED BY <2>1, <1>2, MaxOfTwo
<1>4. CASE confirmed' > confirmed
  <2>1. confirmed' \in 1..confirmed' /\ confirmed' \in 1..Len(Feed)
    BY <1>2, <1>4, FeedType
  <2>2. Feed[confirmed'] \in Range(output')
    BY <2>1 DEF LedgerInv, OutputInv
  <2>3. output \in Seq(Range(Feed)) /\ FeedOrder(output) /\ Closed(Range(output))
    BY DEF LedgerInv, TypesInv, TypeOK, OutputInv
  <2>4. confirmed' <= Len(output)
    BY <1>1, <2>1, <2>2, <2>3, PrefixReaches
  <2>5. Len(output) \in Nat
    BY <2>3
  <2>. QED BY <1>2, <1>4, <2>4, <2>5
<1>5. confirmed' = confirmed \/ confirmed' > confirmed
  BY <1>2, <1>3
<1>. QED BY <1>4, <1>5

(* "If this method returns normally, the batch is considered durably       *)
(* received" (DownstreamConsumer.deliver_batch): whatever the sink does    *)
(* with failed and repeated calls, late requests and restarts, the         *)
(* downstream system is a ledger that takes the events in order, without a *)
(* gap, each once, and that holds what has been confirmed.  It is so as    *)
(* long as the file is appended to and keys identify events.               *)
THEOREM SinksKeepLedger ==
    ASSUME Appending, Distinguishing
    PROVE  Spec => ImplementsLedger
<1>1. Init => Ledger!Init
  BY DEF Init, File!Init, Ledger!Init
<1>2. Init => LedgerInv
  <2>1. Init => FileInv
    BY DEF Init, File!Init, FileInv
  <2>. QED BY <2>1, InitTypes, InitOutput DEF LedgerInv
<1>3. LedgerInv /\ [Next]_vars => LedgerInv'
  BY NextOutput
<1>4. LedgerInv /\ LedgerInv' /\ [Next]_vars => [Ledger!Next]_Ledger!ledgerVars
  <2>. SUFFICES ASSUME LedgerInv, LedgerInv', [Next]_vars
                PROVE  Ledger!Next \/ UNCHANGED <<output, confirmed>>
    BY DEF Ledger!ledgerVars
  <2>1. CASE Confirm
    <3>1. UNCHANGED output
      BY <2>1 DEF Confirm, sinkVars, outputVars
    <3>. QED BY <2>1, <3>1, ConfirmGrows DEF Ledger!Next, Ledger!Confirm
  <2>2. CASE ~Confirm
    <3>1. UNCHANGED confirmed
      BY <2>2 DEF Next, HandOver, Deliver, Retry, Persist, Restart, vars, offsetVars
    <3>. QED BY <3>1, NextOutput, OutputGrows DEF Ledger!Next, Ledger!Receive
  <2>. QED BY <2>1, <2>2
<1>. QED BY <1>1, <1>2, <1>3, <1>4, PTL DEF Spec, ImplementsLedger, Ledger!Spec

(* "Write every delivered event as a single JSON line" (JsonlFileSink):    *)
(* under the same conditions no confirmed event is missing downstream.     *)
THEOREM ConfirmedNeverLost ==
    ASSUME Appending, Distinguishing
    PROVE  Spec => []ConfirmedIsWritten
<1>1. Init => LedgerInv
  <2>1. Init => FileInv
    BY DEF Init, File!Init, FileInv
  <2>. QED BY <2>1, InitTypes, InitOutput DEF LedgerInv
<1>2. LedgerInv /\ [Next]_vars => LedgerInv'
  BY NextOutput
<1>3. LedgerInv => ConfirmedIsWritten
  BY DEF LedgerInv, OutputInv, ConfirmedIsWritten
<1>. QED BY <1>1, <1>2, <1>3, PTL DEF Spec

-----------------------------------------------------------------------------
(* Transactions.                                                           *)
LEMMA OneBatchIsWhole == \A s : OneBatch(s) => Whole(Range(s))
BY DEF OneBatch, Whole

LEMMA WholeUnion == \A S, T : Whole(S) /\ Whole(T) => Whole(S \cup T)
BY DEF Whole

LEMMA HandOverBatch ==
    ASSUME TypesInv, HandOver, options.cut = "transaction"
    PROVE  OneBatch(batch')
<1>1. PICK j \in next..Len(Feed) : IsBatch(next, j) /\ batch' = SubSeq(Feed, next, j)
  BY DEF HandOver
<1>2. next \in 1..Len(Feed) /\ j \in next..Len(Feed)
  BY <1>1, FeedType DEF TypesInv, TypeOK
<1>3. Range(batch') = {Feed[k] : k \in next..j}
  BY <1>1, <1>2, SliceProperties
<1>4. CASE Feed[next].tx # NoTx
  <2>1. Range(batch') = {e \in Range(Feed) : e.tx = Feed[next].tx}
    BY <1>1, <1>3, <1>4 DEF IsBatch
  <2>. QED BY <2>1 DEF OneBatch, SameTransaction
<1>5. CASE Feed[next].tx = NoTx
  <2>1. \A k \in next..j : Feed[k].tx = NoTx
    BY <1>1, <1>5 DEF IsBatch
  <2>. QED BY <1>3, <2>1 DEF OneBatch
<1>. QED BY <1>4, <1>5

LEMMA NextBatch == TypesInv /\ BatchInv /\ [Next]_vars => BatchInv'
<1>. SUFFICES ASSUME TypesInv, BatchInv, [Next]_vars, options'.cut = "transaction"
              PROVE  OneBatch(batch') /\ \A r \in late' : OneBatch(r.events)
  BY DEF BatchInv
<1>0. OneBatch(<<>>)
  BY RangeOfNone DEF OneBatch
<1>1. CASE HandOver
  <2>1. options' = options /\ late' = late
    BY <1>1 DEF HandOver, sinkVars, httpVars
  <2>. QED BY <1>1, <2>1, HandOverBatch DEF BatchInv
<1>2. CASE Deliver /\ options.type = "webhook"
  <2>1. options' = options /\ batch' = batch /\ late' \subseteq late \cup {Http!Request}
    BY <1>2, HttpEffect DEF Deliver, SinkStep, TypesInv, CallInv
  <2>. QED BY <2>1, RequestSent DEF BatchInv
<1>3. CASE Deliver /\ options.type # "webhook"
  <2>1. UNCHANGED <<options, batch, late>>
    BY <1>3 DEF Deliver, SinkStep, File!Deliver, File!Filter, File!ReplaceData,
       File!DataWritten, File!WriteStdout, File!IndexKeys, File!WriteRaises,
       File!StdoutRaises, File!IndexRaises, httpVars
  <2>. QED BY <2>1 DEF BatchInv
<1>4. CASE Confirm \/ Restart
  <2>1. options' = options /\ batch' = <<>> /\ late' = late
    BY <1>4 DEF Confirm, Restart, sinkVars, httpVars, Http!Restart
  <2>. QED BY <1>0, <2>1 DEF BatchInv
<1>5. CASE Retry \/ Persist \/ UNCHANGED vars
  BY <1>5 DEF BatchInv, Retry, Persist, vars, sinkVars, httpVars
<1>. QED BY <1>1, <1>2, <1>3, <1>4, <1>5 DEF Next

LEMMA InitBatch == Init => BatchInv
<1>. SUFFICES ASSUME Init PROVE BatchInv
  OBVIOUS
<1>1. batch = <<>> /\ late = {}
  BY DEF Init, Http!Init
<1>. QED BY <1>1, RangeOfNone DEF BatchInv, OneBatch

(* A write, a request or a late request adds a batch, or nothing. *)
LEMMA OutputTakesBatch ==
    ASSUME Appending, Distinguishing, LedgerInv, [Next]_vars, options.type # "stdout"
    PROVE  \/ Range(output') = Range(output)
           \/ Range(output') = Range(output) \cup Range(batch)
           \/ \E r \in late : Range(output') = Range(output) \cup Range(r.events)
<1>0. /\ output \in Seq(Range(Feed)) /\ todo \in Seq(Range(Feed)) /\ options.append
      /\ TypesInv /\ OutputInv
  BY DEF LedgerInv, TypesInv, TypeOK, Appending
<1>1. CASE Deliver /\ options.type = "webhook"
  <2>1. Http!Deliver \/ Http!LateArrives
    BY <1>1 DEF Deliver, SinkStep, TypesInv, CallInv
  <2>. SUFFICES ASSUME output' # output
                PROVE  \/ Range(output') = Range(output) \cup Range(batch)
                       \/ \E r \in late : Range(output') = Range(output) \cup Range(r.events)
    OBVIOUS
  <2>2. PICK r : /\ Sent(r) /\ Http!Arrives(r)
                 /\ (r \in late /\ call' = call) \/ (r = Http!Request /\ call = "post")
    BY <1>0, <2>1, HttpStepOutput
  <2>3. Range(output') = Range(output) \cup Range(r.events)
    <3>1. r.events \in Seq(Range(Feed))
      BY <2>2, SliceType DEF Sent
    <3>. QED BY <1>0, <2>2, <3>1, ArrivesEffect
  <2>4. Http!Request.events = batch
    BY <1>0, RequestSent
  <2>. QED BY <2>2, <2>3, <2>4
<1>2. CASE Deliver /\ options.type # "webhook"
  <2>1. File!Deliver
    BY <1>2 DEF Deliver, SinkStep
  <2>2. CASE File!ReplaceData
    <3>1. File!Write(todo) /\ call = "write"
      BY <2>2 DEF File!ReplaceData
    <3>2. Range(output') = Range(output) \cup Range(todo)
      BY <1>0, <3>1, WriteEffect
    <3>3. Range(todo) \subseteq Range(batch) /\ Range(batch) \subseteq Range(todo) \cup Range(output)
      BY <1>0, <3>1 DEF TypesInv, CallInv, OutputInv
    <3>. QED BY <3>2, <3>3
  <2>3. CASE output' = output
    BY <2>3
  <2>. QED BY <2>1, <2>2, <2>3
       DEF File!Deliver, File!Filter, File!DataWritten, File!WriteStdout, File!IndexKeys,
           File!WriteRaises, File!StdoutRaises, File!IndexRaises, File!files, File!jsonlVars
<1>3. CASE HandOver
  BY <1>3 DEF HandOver, sinkVars, outputVars
<1>4. CASE Confirm \/ Retry \/ Persist \/ Restart \/ UNCHANGED vars
  BY <1>0, <1>4, ManagerOutput
<1>. QED BY <1>1, <1>2, <1>3, <1>4 DEF Next

LEMMA NextVisible ==
    ASSUME Appending, Distinguishing, LedgerInv, BatchInv, VisibleInv, [Next]_vars
    PROVE  VisibleInv'
<1>1. options' = options
  <2>1. CASE Deliver
    BY <2>1, HttpEffect DEF Deliver, SinkStep, LedgerInv, File!Deliver, File!Filter, File!ReplaceData,
       File!DataWritten, File!WriteStdout, File!IndexKeys, File!WriteRaises,
       File!StdoutRaises, File!IndexRaises
  <2>. QED BY <2>1 DEF Next, HandOver, Confirm, Retry, Persist, Restart, vars
<1>. SUFFICES ASSUME options.cut = "transaction", options.type # "stdout"
              PROVE  Whole(Range(output'))
  BY <1>1 DEF VisibleInv
<1>2. Whole(Range(output))
  BY DEF VisibleInv
<1>3. Whole(Range(batch)) /\ \A r \in late : Whole(Range(r.events))
  BY OneBatchIsWhole DEF BatchInv
<1>. QED BY <1>2, <1>3, OutputTakesBatch, WholeUnion

(* "Downstream readers never see a partial batch" (JsonlFileSink), and     *)
(* with transaction boundaries on a transaction is one batch: a reader of  *)
(* the file and the endpoint at any time have all of it or nothing of it.  *)
THEOREM TransactionsSeenWhole ==
    ASSUME Appending, Distinguishing
    PROVE  Spec => []TransactionsVisibleWhole
<1>. DEFINE I == LedgerInv /\ BatchInv /\ VisibleInv
<1>1. Init => I
  <2>1. Init => FileInv
    BY DEF Init, File!Init, FileInv
  <2>2. Init => VisibleInv
    BY RangeOfNone DEF Init, File!Init, VisibleInv, Whole
  <2>. QED BY <2>1, <2>2, InitTypes, InitOutput, InitBatch DEF LedgerInv
<1>2. I /\ [Next]_vars => I'
  <2>. SUFFICES ASSUME I, [Next]_vars PROVE I'
    OBVIOUS
  <2>1. LedgerInv'
    BY NextOutput
  <2>2. BatchInv'
    BY NextBatch DEF LedgerInv
  <2>3. VisibleInv'
    BY NextVisible
  <2>. QED BY <2>1, <2>2, <2>3
<1>3. I => TransactionsVisibleWhole
  BY DEF VisibleInv, Whole, SameTransaction, TransactionsVisibleWhole
<1>. QED BY <1>1, <1>2, <1>3, PTL DEF Spec

LEMMA SliceOfItsEvents ==
    ASSUME NEW i \in 1..Len(Feed), NEW j \in 1..Len(Feed), NEW s, Slice(s),
           Range(SubSeq(Feed, i, j)) = Range(s)
    PROVE  s = SubSeq(Feed, i, j)
<1>1. PICK a \in 1..Len(Feed), b \in 1..Len(Feed) : a <= b /\ s = SubSeq(Feed, a, b)
  BY FeedType DEF Slice
<1>2. Range(s) = {Feed[k] : k \in a..b} /\ Feed[a] \in Range(s)
  <2>1. b \in a..Len(Feed)
    BY <1>1, FeedType
  <2>2. Range(s) = {Feed[k] : k \in a..b}
    BY <1>1, <2>1, SliceProperties
  <2>. QED BY <1>1, <2>2, FeedType
<1>3. i <= j
  <2>1. CASE i > j
    <3>1. SubSeq(Feed, i, j) = <<>>
      BY <2>1, FeedAssumption, FeedType, SubSeqProperties
    <3>. QED BY <1>2, <3>1, RangeOfNone
  <2>. QED BY <2>1, FeedType
<1>4. Range(SubSeq(Feed, i, j)) = {Feed[k] : k \in i..j}
  <2>1. j \in i..Len(Feed)
    BY <1>3, FeedType
  <2>. QED BY <2>1, SliceProperties
<1>5. \A k \in 1..Len(Feed) : (k \in a..b) <=> (k \in i..j)
  <2>. TAKE k \in 1..Len(Feed)
  <2>1. k \in a..b <=> Feed[k] \in {Feed[m] : m \in a..b}
    <3>1. \A m \in a..b : m \in 1..Len(Feed)
      BY FeedType
    <3>. QED BY <3>1, FeedType
  <2>2. k \in i..j <=> Feed[k] \in {Feed[m] : m \in i..j}
    <3>1. \A m \in i..j : m \in 1..Len(Feed)
      BY FeedType
    <3>. QED BY <3>1, FeedType
  <2>. QED BY <2>1, <2>2, <1>2, <1>4
<1>6. a = i /\ b = j
  <2>1. a \in i..j /\ b \in i..j /\ i \in a..b /\ j \in a..b
    <3>1. a \in a..b /\ b \in a..b /\ i \in i..j /\ j \in i..j
      BY <1>1, <1>3
    <3>. QED BY <3>1, <1>5
  <2>. QED BY <2>1
<1>. QED BY <1>1, <1>6

LEMMA ArrivesOnce ==
    ASSUME BatchInv, AppliedInv, output \in Seq(Range(Feed)),
           options.cut = "transaction", options.type = "webhook",
           NEW r, Sent(r), OneBatch(r.events), Http!Arrives(r)
    PROVE  /\ \A e \in Range(output') :
                 e.tx # NoTx =>
                     \E i, j \in 1..Len(Feed) :
                         /\ Range(SubSeq(Feed, i, j)) = SameTransaction(e)
                         /\ Http!BatchKey(SubSeq(Feed, i, j)) \in handled'
           /\ \A e \in repeated' : e.tx = NoTx
<1>1. r.events \in Seq(Range(Feed))
  BY SliceType DEF Sent
<1>2. CASE r.key \in handled /\ UNCHANGED <<output, repeated, handled>>
  BY <1>2 DEF AppliedInv
<1>3. CASE /\ r.key \notin handled
           /\ Range(output') = Range(output) \cup Range(r.events)
           /\ repeated' = repeated \cup (Range(r.events) \cap Range(output))
           /\ handled' = handled \cup {r.key}
  <2>1. ASSUME NEW e \in Range(r.events), e.tx # NoTx
        PROVE  \E i, j \in 1..Len(Feed) :
                   /\ Range(SubSeq(Feed, i, j)) = SameTransaction(e)
                   /\ Http!BatchKey(SubSeq(Feed, i, j)) = r.key
    <3>1. Range(r.events) = SameTransaction(e)
      BY <2>1 DEF OneBatch
    <3>2. PICK i \in 1..Len(Feed), j \in 1..Len(Feed) : r.events = SubSeq(Feed, i, j)
      <4>1. PICK i \in 1..Len(Feed) : \E j \in i..Len(Feed) : r.events = SubSeq(Feed, i, j)
        BY DEF Sent, Slice
      <4>2. PICK j \in i..Len(Feed) : r.events = SubSeq(Feed, i, j)
        BY <4>1
      <4>3. j \in 1..Len(Feed)
        BY FeedType
      <4>. QED BY <4>2, <4>3
    <3>3. Http!BatchKey(SubSeq(Feed, i, j)) = r.key
      BY <3>2 DEF Sent
    <3>4. Range(SubSeq(Feed, i, j)) = SameTransaction(e)
      BY <3>1, <3>2
    <3>. QED BY <3>3, <3>4
  <2>2. ASSUME NEW e \in Range(r.events), e \in Range(output), e.tx # NoTx PROVE FALSE
    <3>1. PICK i, j \in 1..Len(Feed) : /\ Range(SubSeq(Feed, i, j)) = SameTransaction(e)
                                       /\ Http!BatchKey(SubSeq(Feed, i, j)) \in handled
      BY <2>2 DEF AppliedInv
    <3>2. Range(r.events) = SameTransaction(e)
      BY <2>2 DEF OneBatch
    <3>3. r.events = SubSeq(Feed, i, j)
      BY <3>1, <3>2, SliceOfItsEvents DEF Sent
    <3>. QED BY <1>3, <3>1, <3>3 DEF Sent
  <2>3. \A e \in repeated' : e.tx = NoTx
    BY <1>3, <2>2 DEF AppliedInv
  <2>4. ASSUME NEW e \in Range(output'), e.tx # NoTx
        PROVE  \E i, j \in 1..Len(Feed) :
                   /\ Range(SubSeq(Feed, i, j)) = SameTransaction(e)
                   /\ Http!BatchKey(SubSeq(Feed, i, j)) \in handled'
    <3>1. CASE e \in Range(output)
      BY <1>3, <2>4, <3>1 DEF AppliedInv
    <3>2. CASE e \in Range(r.events)
      BY <1>3, <2>1, <2>4, <3>2
    <3>. QED BY <1>3, <2>4, <3>1, <3>2
  <2>. QED BY <2>3, <2>4
<1>. QED BY <1>1, <1>2, <1>3, ArrivesEffect

LEMMA NextApplied == TypesInv /\ BatchInv /\ AppliedInv /\ [Next]_vars => AppliedInv'
<1>. SUFFICES ASSUME TypesInv, BatchInv, AppliedInv, [Next]_vars,
                     options'.cut = "transaction", options'.type = "webhook"
              PROVE  /\ \A e \in Range(output') :
                           e.tx # NoTx =>
                               \E i, j \in 1..Len(Feed) :
                                   /\ Range(SubSeq(Feed, i, j)) = SameTransaction(e)
                                   /\ Http!BatchKey(SubSeq(Feed, i, j)) \in handled'
                     /\ \A e \in repeated' : e.tx = NoTx
  BY DEF AppliedInv
<1>1. CASE Deliver
  <2>1. options.type = "webhook" /\ (Http!Deliver \/ Http!LateArrives)
    BY <1>1 DEF Deliver, SinkStep, File!Deliver, File!Filter, File!ReplaceData,
       File!DataWritten, File!WriteStdout, File!IndexKeys, File!WriteRaises,
       File!StdoutRaises, File!IndexRaises
  <2>2. options' = options
    BY <2>1, HttpEffect
  <2>3. CASE UNCHANGED <<output, repeated, handled>>
    BY <2>1, <2>2, <2>3 DEF AppliedInv
  <2>4. CASE ~UNCHANGED <<output, repeated, handled>>
    <3>1. PICK r : /\ Sent(r) /\ Http!Arrives(r)
                   /\ (r \in late /\ call' = call) \/ (r = Http!Request /\ call = "post")
      BY <2>1, <2>4, HttpStepOutput
    <3>2. OneBatch(r.events)
      BY <2>2, <3>1, RequestSent DEF BatchInv
    <3>3. output \in Seq(Range(Feed))
      BY DEF TypesInv, TypeOK
    <3>. QED BY <2>1, <2>2, <3>1, <3>2, <3>3, ArrivesOnce
  <2>. QED BY <2>3, <2>4
<1>2. CASE HandOver \/ Confirm \/ Retry \/ Persist \/ Restart \/ UNCHANGED vars
  <2>1. UNCHANGED <<options, output, repeated, handled>>
    BY <1>2 DEF HandOver, Confirm, Retry, Persist, Restart, vars, sinkVars, outputVars,
                httpVars, Http!Restart, Http!endpoint
  <2>. QED BY <2>1 DEF AppliedInv
<1>. QED BY <1>1, <1>2 DEF Next

(* The Idempotency-Key header (HttpWebhookSink): the endpoint applies a    *)
(* transaction once, whichever of the two layers of retries repeated the   *)
(* request, after a restart, and when it arrives late.                     *)
THEOREM TransactionsOnce == Spec => []TransactionsAppliedOnce
<1>. DEFINE I == TypesInv /\ BatchInv /\ AppliedInv
<1>1. Init => I
  <2>1. Init => AppliedInv
    BY RangeOfNone DEF Init, Http!Init, AppliedInv
  <2>. QED BY <2>1, InitTypes, InitBatch
<1>2. I /\ [Next]_vars => I'
  BY NextTypes, NextBatch, NextApplied
<1>3. I => TransactionsAppliedOnce
  BY DEF AppliedInv, TransactionsAppliedOnce
<1>. QED BY <1>1, <1>2, <1>3, PTL DEF Spec
===============================================================================
