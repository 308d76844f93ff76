------------------------ MODULE LocalDurabilityProof ------------------------
(***************************************************************************)
(* Proofs about LocalDurability, for every number of transactions, every   *)
(* commit size, every number of faults and every combination of their      *)
(* kinds.                                                                  *)
(***************************************************************************)
EXTENDS LocalDurability, SequenceTheorems, TLAPS

(* Only a persister that works on a transaction holds one. *)
Idle == persister \in {"recv", "flush", "exited", "gone"} => inflight = <<>>

(* A persister that has ended leaves no queue; it exits only after a close. *)
Ended ==
  /\ persister \in {"exited", "gone"} => queue = <<>>
  /\ persister = "exited" => mode \in {"closing", "closed", "close_failed"}

(* After close returned Ok nothing is buffered, and all is stable. *)
Closed ==
  mode = "closed" =>
    /\ persister = "exited" /\ buf = <<>>
    /\ Sound => stable = Len(committed)

(* Nothing of the process survives a crash. *)
Down ==
  mode = "down" =>
    /\ persister = "gone" /\ syncer = "gone"
    /\ buf = <<>> /\ inflight = <<>> /\ queue = <<>>
    /\ uncounted = 0 /\ depth = 0

(* What was, or is about to be, published was committed, in order. *)
Published ==
  mode # "down" =>
    /\ durable < Len(committed)
    /\ syncer = "store" => durable <= synced_to /\ synced_to < Len(committed)

Inv ==
  /\ TypeOK /\ Idle /\ Ended /\ Closed /\ Down
  /\ HistoryIsComplete /\ DepthIsAccurate /\ DurableIsStable /\ Published

----------------------------------------------------------------------------
(* Facts about sequences *)

(* Concatenation as an operator of its own, of which the provers see only   *)
(* the laws below: they are far slower on \o itself.                        *)
Cat(s, t) == s \o t

Txs == Seq(Tx)

LEMMA CatLaws ==
  \A a, b, c \in Txs :
    /\ Cat(a, b) \in Txs
    /\ Len(Cat(a, b)) = Len(a) + Len(b) /\ Len(a) \in Nat
    /\ Cat(Cat(a, b), c) = Cat(a, Cat(b, c))
    /\ Cat(a, <<>>) = a /\ Cat(<<>>, a) = a /\ <<>> \in Txs
<1> TAKE a, b, c \in Txs
<1>1. Cat(a, b) \in Txs /\ Len(Cat(a, b)) = Len(a) + Len(b) /\ Len(a) \in Nat
  BY ConcatProperties, LenProperties DEF Cat, Txs
<1>2. Cat(Cat(a, b), c) = Cat(a, Cat(b, c))
  BY ConcatAssociative DEF Cat, Txs
<1>3. Cat(a, <<>>) = a /\ Cat(<<>>, a) = a /\ <<>> \in Txs
  BY ConcatEmptySeq, EmptySeq DEF Cat, Txs
<1> QED BY <1>1, <1>2, <1>3

LEMMA CatAppend ==
  \A a, b \in Txs : \A e \in Tx : Cat(a, Append(b, e)) = Append(Cat(a, b), e)
<1> TAKE a, b \in Txs
<1> TAKE e \in Tx
<1>1. Append(b, e) = Cat(b, <<e>>) /\ <<e>> \in Txs
  BY AppendIsConcat DEF Cat, Txs
<1>2. Append(Cat(a, b), e) = Cat(Cat(a, b), <<e>>)
  <2>1. Cat(a, b) \in Seq(Tx)
    BY CatLaws DEF Txs
  <2>2. Append(Cat(a, b), e) = Cat(a, b) \o <<e>>
    BY <2>1, AppendIsConcat
  <2> QED BY <2>2 DEF Cat
<1> QED BY <1>1, <1>2, CatLaws

(* The first part of a concatenation is what a cut at its length leaves. *)
LEMMA PrefixOfConcat ==
  ASSUME NEW S, NEW s \in Seq(S), NEW t \in Seq(S)
  PROVE  SubSeq(s \o t, 1, Len(s)) = s
<1>1. /\ s \o t \in Seq(S) /\ Len(s) \in Nat /\ Len(t) \in Nat
      /\ Len(s \o t) = Len(s) + Len(t)
      /\ \A i \in 1..Len(s) : (s \o t)[i] = s[i]
  BY ConcatProperties, LenProperties
<1>2. \A i \in 1..Len(s) : (s \o t)[i] \in S
  BY <1>1, ElementOfSeq
<1>3. /\ SubSeq(s \o t, 1, Len(s)) \in Seq(S)
      /\ Len(SubSeq(s \o t, 1, Len(s))) = Len(s)
      /\ \A i \in 1..Len(s) : SubSeq(s \o t, 1, Len(s))[i] = (s \o t)[i]
  BY <1>1, <1>2, SubSeqProperties
<1> QED BY <1>1, <1>3, SeqEqual

(* A cut inside the first part of a concatenation does not see the second. *)
LEMMA CutOfConcat ==
  ASSUME NEW S, NEW s \in Seq(S), NEW t \in Seq(S), NEW n \in 0..Len(s)
  PROVE  /\ SubSeq(s \o t, 1, n) = SubSeq(s, 1, n)
         /\ SubSeq(s, 1, n) \in Seq(S) /\ Len(SubSeq(s, 1, n)) = n
<1>1. /\ s \o t \in Seq(S) /\ Len(s) \in Nat /\ Len(t) \in Nat
      /\ Len(s \o t) = Len(s) + Len(t)
      /\ \A i \in 1..Len(s) : (s \o t)[i] = s[i]
  BY ConcatProperties, LenProperties
<1>2. \A i \in 1..n : (s \o t)[i] \in S /\ s[i] \in S
  BY <1>1, ElementOfSeq
<1>3. /\ SubSeq(s \o t, 1, n) \in Seq(S) /\ Len(SubSeq(s \o t, 1, n)) = n
      /\ \A i \in 1..n : SubSeq(s \o t, 1, n)[i] = (s \o t)[i]
  BY <1>1, <1>2, SubSeqProperties
<1>4. /\ SubSeq(s, 1, n) \in Seq(S) /\ Len(SubSeq(s, 1, n)) = n
      /\ \A i \in 1..n : SubSeq(s, 1, n)[i] = s[i]
  BY <1>1, <1>2, SubSeqProperties
<1> QED BY <1>1, <1>3, <1>4, SeqEqual

(* A cut behind the first part of a concatenation keeps it. *)
LEMMA CutInSecond ==
  ASSUME NEW S, NEW s \in Seq(S), NEW t \in Seq(S), NEW m \in 0..Len(t)
  PROVE  /\ SubSeq(s \o t, 1, Len(s) + m) = s \o SubSeq(t, 1, m)
         /\ SubSeq(t, 1, m) \in Seq(S) /\ Len(SubSeq(t, 1, m)) = m
         /\ s \o SubSeq(t, 1, m) \in Seq(S) /\ Len(s \o SubSeq(t, 1, m)) = Len(s) + m
<1>1. /\ s \o t \in Seq(S) /\ Len(s) \in Nat /\ Len(t) \in Nat /\ m \in Nat
      /\ Len(s \o t) = Len(s) + Len(t)
      /\ \A i \in 1..Len(s) : (s \o t)[i] = s[i]
      /\ \A i \in 1..Len(t) : (s \o t)[Len(s) + i] = t[i]
  BY ConcatProperties, LenProperties
<1>2. /\ \A i \in 1..m : t[i] \in S
      /\ \A i \in 1..(Len(s) + m) : (s \o t)[i] \in S
  BY <1>1, ElementOfSeq
<1>3. /\ SubSeq(t, 1, m) \in Seq(S) /\ Len(SubSeq(t, 1, m)) = m
      /\ \A i \in 1..m : SubSeq(t, 1, m)[i] = t[i]
  BY <1>1, <1>2, SubSeqProperties
<1>4. /\ s \o SubSeq(t, 1, m) \in Seq(S) /\ Len(s \o SubSeq(t, 1, m)) = Len(s) + m
      /\ \A i \in 1..Len(s) : (s \o SubSeq(t, 1, m))[i] = s[i]
      /\ \A i \in 1..m : (s \o SubSeq(t, 1, m))[Len(s) + i] = SubSeq(t, 1, m)[i]
  BY <1>1, <1>3, ConcatProperties
<1>5. /\ SubSeq(s \o t, 1, Len(s) + m) \in Seq(S)
      /\ Len(SubSeq(s \o t, 1, Len(s) + m)) = Len(s) + m
      /\ \A i \in 1..(Len(s) + m) : SubSeq(s \o t, 1, Len(s) + m)[i] = (s \o t)[i]
  BY <1>1, <1>2, SubSeqProperties
<1>6. ASSUME NEW i \in 1..(Len(s) + m)
      PROVE  SubSeq(s \o t, 1, Len(s) + m)[i] = (s \o SubSeq(t, 1, m))[i]
  <2>1. CASE i <= Len(s)
    BY <1>1, <1>4, <1>5, <2>1
  <2>2. CASE i > Len(s)
    <3>2. i - Len(s) \in 1..m /\ i = Len(s) + (i - Len(s))
      BY <1>1, <2>2
    <3>1. PICK k \in 1..m : i = Len(s) + k
      BY <3>2
    <3> QED BY <1>1, <1>3, <1>4, <1>5, <3>1
  <2> QED BY <1>1, <2>1, <2>2
<1>7. SubSeq(s \o t, 1, Len(s) + m) = s \o SubSeq(t, 1, m)
  <2> DEFINE a == SubSeq(s \o t, 1, Len(s) + m)  b == s \o SubSeq(t, 1, m)
  <2>1. a \in Seq(S) /\ b \in Seq(S) /\ Len(a) = Len(b) /\ \A i \in 1..Len(a) : a[i] = b[i]
    BY <1>4, <1>5, <1>6
  <2> HIDE DEF a, b
  <2>2. a = b
    BY <2>1, SeqEqual
  <2> QED BY <2>2 DEF a, b
<1> QED BY <1>3, <1>4, <1>7

(* A queue is its head followed by its tail. *)
LEMMA HeadThenTail ==
  ASSUME NEW S, NEW s \in Seq(S), s # <<>>
  PROVE  /\ <<Head(s)>> \o Tail(s) = s
         /\ <<Head(s)>> \in Seq(S) /\ Tail(s) \in Seq(S) /\ Len(Tail(s)) = Len(s) - 1
         /\ Len(s) \in Nat \ {0}
<1>1. /\ Head(s) \in S /\ Tail(s) \in Seq(S) /\ Len(Tail(s)) = Len(s) - 1
      /\ \A i \in 1..Len(Tail(s)) : Tail(s)[i] = s[i + 1]
      /\ Len(s) \in Nat \ {0}
  BY HeadTailProperties, EmptySeq
<1>2. <<Head(s)>> \in Seq(S) /\ Len(<<Head(s)>>) = 1 /\ <<Head(s)>>[1] = s[1]
  BY <1>1
<1>3. /\ <<Head(s)>> \o Tail(s) \in Seq(S) /\ Len(<<Head(s)>> \o Tail(s)) = Len(s)
      /\ \A i \in 1..Len(s) : (<<Head(s)>> \o Tail(s))[i] = s[i]
  BY <1>1, <1>2, ConcatProperties
<1> QED BY <1>1, <1>2, <1>3, SeqEqual

(* Division with remainder is unique. *)
LEMMA ModUnique ==
  ASSUME NEW M \in Nat \ {0}, NEW k \in Int, NEW y \in 0..(M-1), NEW a \in Int, a = M*k + y
  PROVE a % M = y
<1>1. a = M * (a \div M) + (a % M) /\ a \div M \in Int /\ a % M \in 0..(M-1)
  OBVIOUS
<1>2. PICK d \in Int, r \in 0..(M-1) : r = a % M /\ a = M*d + r
  BY <1>1
<1>3. M*(k-d) = r - y
  BY <1>2
<1>4. CASE k - d >= 1
  <2>1. M*(k-d) >= M BY <1>4
  <2> QED BY <2>1, <1>3
<1>5. CASE k - d <= -1
  <2>1. M*(k-d) <= -M BY <1>5
  <2> QED BY <2>1, <1>3
<1>6. CASE k = d
  BY <1>6, <1>2
<1> QED BY <1>4, <1>5, <1>6

LEMMA ModExists ==
  ASSUME NEW M \in Nat \ {0}, NEW a \in Int
  PROVE  \E i \in Int, r \in 0..(M - 1) : r = a % M /\ a = M * i + r
OBVIOUS

(* Counters that agree still agree after the same step, and a counter that  *)
(* wrapped agrees with the one that did not.                                *)
LEMMA WrapCongruent ==
  ASSUME NEW a \in Int, NEW b \in Int, NEW c \in Int, NEW d \in Int,
         Wrap(a) = Wrap(b), c - a = d - b
  PROVE  Wrap(c) = Wrap(d)
<1> DEFINE M == DepthMod
<1>0. M \in Nat \ {0}
  BY LocalDurabilityAssumption
<1> HIDE DEF M
<1>1. PICK i \in Int, r \in 0..(M - 1) : r = a % M /\ a = M * i + r
  BY <1>0, ModExists
<1>2. PICK j \in Int, s \in 0..(M - 1) : s = b % M /\ b = M * j + s
  BY <1>0, ModExists, Zenon
<1>3. PICK k \in Int, t \in 0..(M - 1) : t = c % M /\ c = M * k + t
  BY <1>0, ModExists, Zenon
<1>4. r = s
  BY <1>1, <1>2 DEF Wrap, M
<1>5. PICK n \in Int : n = (k - i) + j
  OBVIOUS
<1>6. M * n = M * k - M * i + M * j /\ M * i \in Int /\ M * j \in Int /\ M * k \in Int
  BY <1>0, <1>5
<1>7. d = M * n + t
  <2> DEFINE x == M * i  y == M * j  z == M * k  u == M * n
  <2>1. a = x + r /\ b = y + r /\ c = z + t /\ u = z - x + y
    BY <1>1, <1>2, <1>3, <1>4, <1>6
  <2>2. x \in Int /\ y \in Int /\ z \in Int
    BY <1>6
  <2> HIDE DEF x, y, z, u
  <2>3. d = u + t
    BY <2>1, <2>2
  <2> QED BY <2>3 DEF u
<1>8. d % M = t
  BY <1>0, <1>7, ModUnique
<1> QED BY <1>3, <1>8 DEF Wrap, M

LEMMA WrapAgrees ==
  ASSUME NEW a \in Int
  PROVE  Wrap(a) \in 0..(DepthMod - 1) /\ Wrap(Wrap(a)) = Wrap(a)
BY LocalDurabilityAssumption DEF Wrap

(* queue_depth d and the calls u that still have to count theirs account    *)
(* for a queue of length q.                                                 *)
Agree(d, u, q) == Wrap(d + u) = Wrap(q)

(* How queue_depth follows the queue: when a transaction is sent, when it   *)
(* is counted, and when one is received.                                    *)
LEMMA CounterSteps ==
  ASSUME NEW d \in Int, NEW u \in Int, NEW q \in Int, Agree(d, u, q)
  PROVE  /\ Agree(d, u + 1, q + 1)
         /\ Agree(Wrap(d + 1), u - 1, q)
         /\ Agree(Wrap(d - 1), u, q - 1)
<1>1. PICK n \in Int, n1 \in Int, n2 \in Int, q1 \in Int, q2 \in Int :
        n = d + u /\ n1 = d + (u + 1) /\ n2 = (d - 1) + u /\ q1 = q + 1 /\ q2 = q - 1
  OBVIOUS
<1>2. Wrap(n) = Wrap(q) /\ n1 - n = q1 - q /\ n2 - n = q2 - q
  BY <1>1 DEF Agree
<1>3. Wrap(n1) = Wrap(q1)
  BY <1>1, <1>2, WrapCongruent
<1>9. Wrap(n2) = Wrap(q2)
  BY <1>1, <1>2, WrapCongruent
<1>4. PICK a \in Int, wa \in Int, b \in Int, wb \in Int :
        a = d + 1 /\ wa = Wrap(d + 1) /\ b = d - 1 /\ wb = Wrap(d - 1)
  BY LocalDurabilityAssumption, WrapAgrees
<1>5. Wrap(wa) = Wrap(a) /\ Wrap(wb) = Wrap(b)
  BY <1>4, WrapAgrees
<1>6. PICK x \in Int, y \in Int : x = wa + (u - 1) /\ y = wb + u
  OBVIOUS
<1>7. x - wa = n - a /\ y - wb = n2 - b
  BY <1>1, <1>4, <1>6
<1>8. Wrap(x) = Wrap(n)
  BY <1>1, <1>4, <1>5, <1>6, <1>7, WrapCongruent
<1>10. Wrap(y) = Wrap(n2)
  BY <1>1, <1>4, <1>5, <1>6, <1>7, WrapCongruent
<1> QED BY <1>1, <1>2, <1>3, <1>4, <1>6, <1>8, <1>9, <1>10 DEF Agree

----------------------------------------------------------------------------
(* What the calls of the log do *)

Results == {"ok", "err", "exists", "panic"}

(* The log never loses a record or the sync of one, and it is sound after a *)
(* call only if it was before.                                              *)
LogGrows ==
  /\ Len(committed) <= Len(committed') /\ Len(committed) \in Nat /\ Len(committed') \in Nat
  /\ stable <= stable'
  /\ Sound' => Sound

(* The records are committed, and can be read only if those before can. *)
LEMMA WriteFacts ==
  ASSUME LogTypeOK, NEW then \in Seq(Tx), NEW rotates \in BOOLEAN, Write(then, rotates)
  PROVE  /\ committed' = committed \o buf /\ buf' = then /\ left' = {}
         /\ committed' \in Seq(Tx) /\ torn' \in BOOLEAN /\ gap' = gap
         /\ Len(committed) \in Nat /\ Len(committed') \in Nat
         /\ Len(committed) <= Len(committed')
         /\ readable <= readable' /\ readable' \in 0..Len(committed')
         /\ readable' = Len(committed') => readable = Len(committed)
<1>1. committed' = committed \o buf /\ buf' = then /\ left' = {} /\ gap' = gap
  BY DEF Write
<1>2. committed \in Seq(Tx) /\ buf \in Seq(Tx) /\ readable \in 0..Len(committed)
  BY DEF LogTypeOK
<1>3. /\ committed' \in Seq(Tx) /\ Len(committed) \in Nat /\ Len(committed') \in Nat
      /\ Len(committed) <= Len(committed')
  <2>1. /\ committed \o buf \in Seq(Tx) /\ Len(committed \o buf) = Len(committed) + Len(buf)
        /\ Len(committed) \in Nat /\ Len(buf) \in Nat
    BY <1>2, ConcatProperties, LenProperties
  <2> QED BY <1>1, <2>1
<1>4. torn' \in BOOLEAN
  BY DEF Write
<1>5. \/ readable' = Len(committed') /\ readable = Len(committed)
      \/ readable' = readable
  BY DEF Write
<1>6. /\ readable <= readable' /\ readable' \in 0..Len(committed')
      /\ readable' = Len(committed') => readable = Len(committed)
  BY <1>2, <1>3, <1>5
<1> QED BY <1>1, <1>3, <1>4, <1>6

(* A call that fails costs a fault, unless it failed for good before. *)
LEMMA SpendFacts ==
  ASSUME LogTypeOK, NEW res \in CommitResults, Spend(res)
  PROVE  res \in Results /\ faults' \in 0..MaxFaults
<1> USE LocalDurabilityAssumption
<1>1. res \in Results
  BY DEF CommitResults, LogTypeOK, Results
<1>2. faults \in 0..MaxFaults /\ MaxFaults \in Nat
  BY DEF LogTypeOK
<1>3. faults' = faults \/ (faults' = faults - 1 /\ faults > 0)
  <2>1. CASE log = "ok"
    BY <2>1 DEF Spend, CommitResults, MayFail
  <2>2. CASE log = "broken"
    BY <2>2 DEF Spend, CommitResults, MayFail
  <2>3. CASE log = "poisoned"
    BY <2>3 DEF Spend, CommitResults
  <2> QED BY <2>1, <2>2, <2>3 DEF LogTypeOK
<1> QED BY <1>1, <1>2, <1>3

(* A commit moves the buffer into the log, or leaves both. *)
LEMMA CommitFacts ==
  ASSUME LogTypeOK, NEW res, NEW then \in Seq(Tx), Commit(res, then)
  PROVE  /\ res \in Results /\ LogTypeOK' /\ LogGrows
         /\ res = "ok" => committed' = committed \o buf /\ buf' = then
         /\ res # "ok" => UNCHANGED <<committed, buf>>
<1>1. res \in Results /\ faults' \in 0..MaxFaults
  BY SpendFacts DEF Commit
<1>2. /\ committed \in Seq(Tx) /\ buf \in Seq(Tx) /\ Len(committed) \in Nat
      /\ readable \in 0..Len(committed) /\ stable \in 0..readable /\ readable \in Nat
      /\ gap \in BOOLEAN /\ torn \in BOOLEAN /\ left \subseteq 1..Len(buf)
      /\ log \in {"ok", "broken", "poisoned"} /\ Len(buf) \in Nat
  BY LenProperties DEF LogTypeOK
<1>3. SyncedTo(readable) \in stable..readable
  BY <1>2 DEF SyncedTo
<1>4. CASE res = "ok"
  <2>1. PICK rotates \in BOOLEAN :
          /\ Write(then, rotates)
          /\ stable' = IF rotates THEN SyncedTo(readable) ELSE stable
          /\ UNCHANGED log
    BY <1>4 DEF Commit
  <2>2. /\ committed' = committed \o buf /\ buf' = then /\ left' = {}
        /\ committed' \in Seq(Tx) /\ torn' \in BOOLEAN /\ gap' = gap
        /\ Len(committed') \in Nat
        /\ Len(committed) <= Len(committed')
        /\ readable <= readable' /\ readable' \in 0..Len(committed')
        /\ readable' = Len(committed') => readable = Len(committed)
    BY <2>1, WriteFacts
  <2>3. stable' \in stable..readable
    BY <1>2, <1>3, <2>1
  <2>4. stable <= stable' /\ stable' \in 0..readable'
    BY <1>2, <2>2, <2>3
  <2>5. LogTypeOK'
    BY <1>1, <1>2, <2>1, <2>2, <2>4 DEF LogTypeOK
  <2>6. LogGrows
    BY <1>2, <2>2, <2>4 DEF LogGrows, Sound
  <2> QED BY <1>1, <1>4, <2>2, <2>5, <2>6
<1>5. CASE res = "panic"
  <2>1. log' = "poisoned" /\ UNCHANGED <<buf, committed, readable, stable, gap, torn, left>>
    BY <1>5 DEF Commit
  <2>2. LogTypeOK'
    BY <1>1, <1>2, <2>1 DEF LogTypeOK
  <2>3. LogGrows
    BY <1>2, <2>1 DEF LogGrows, Sound
  <2> QED BY <1>1, <1>5, <2>1, <2>2, <2>3
<1>6. CASE res \in {"err", "exists"}
  <2>1. (NotRotated(res) \/ NotWritten(res)) /\ UNCHANGED <<buf, committed, readable>>
    BY <1>6 DEF Commit
  <2>2. /\ stable' \in stable..readable /\ log' \in {"ok", "broken", "poisoned"}
        /\ gap' \in BOOLEAN /\ torn' \in BOOLEAN /\ left' \subseteq 1..Len(buf)
        /\ ~gap' => ~gap
    <3>1. CASE NotRotated(res)
      BY <1>2, <1>3, <3>1 DEF NotRotated
    <3>2. CASE NotWritten(res)
      <4>1. buf # <<>> /\ left' \in {left, left \cup {Len(buf)}} /\ UNCHANGED <<stable, log>>
        BY <3>2 DEF NotWritten
      <4>2. Len(buf) \in 1..Len(buf)
        BY <1>2, <4>1, EmptySeq
      <4>3. left' \subseteq 1..Len(buf)
        BY <1>2, <4>1, <4>2, Zenon
      <4>4. gap' \in BOOLEAN /\ torn' \in BOOLEAN /\ (~gap' => ~gap)
        <5>1. \/ torn' = FALSE /\ gap' = (gap \/ stable < Len(committed))
              \/ torn' \in {torn, TRUE} /\ gap' = gap
          BY <3>2, Zenon DEF NotWritten
        <5> QED BY <1>2, <5>1, Zenon
      <4> QED BY <1>2, <4>1, <4>3, <4>4
    <3> QED BY <2>1, <3>1, <3>2
  <2>3. stable <= stable' /\ stable' \in 0..readable'
    BY <1>2, <2>1, <2>2
  <2>4. LogTypeOK'
    BY <1>1, <1>2, <2>1, <2>2, <2>3 DEF LogTypeOK
  <2>5. LogGrows
    BY <1>2, <2>1, <2>2, <2>3 DEF LogGrows, Sound
  <2> QED BY <1>1, <1>6, <2>1, <2>4, <2>5
<1> QED BY <1>1, <1>4, <1>5, <1>6 DEF Results

(* flush_and_sync moves the buffer into the log, or leaves both; when it    *)
(* succeeds, a sound log is stable.                                         *)
LEMMA FlushFacts ==
  ASSUME LogTypeOK, NEW res \in CommitResults, FlushAndSync(res)
  PROVE  /\ res \in Results /\ LogTypeOK' /\ LogGrows
         /\ committed' \o buf' = committed \o buf
         /\ buf = <<>> => committed' = committed /\ buf' = <<>>
         /\ res = "ok" => buf' = <<>> /\ (Sound' => stable' = Len(committed'))
<1>e. <<>> \in Seq(Tx)
  BY EmptySeq
<1>s. committed \in Seq(Tx) /\ buf \in Seq(Tx)
  BY DEF LogTypeOK
<1>1. CASE res # "ok" /\ Commit(res, <<>>)
  <2>1. res \in Results /\ LogTypeOK' /\ LogGrows
        /\ (res # "ok" => UNCHANGED <<committed, buf>>)
    BY <1>e, <1>1, CommitFacts, Zenon
  <2> QED BY <1>1, <2>1
<1>2. ASSUME log = "ok", Spend(res), NEW rotates \in BOOLEAN, Write(<<>>, rotates),
             Synced(res, rotates), log' = IF res = "panic" THEN "poisoned" ELSE log
      PROVE  /\ res \in Results /\ LogTypeOK' /\ LogGrows
             /\ committed' \o buf' = committed \o buf
             /\ buf = <<>> => committed' = committed /\ buf' = <<>>
             /\ res = "ok" => buf' = <<>> /\ (Sound' => stable' = Len(committed'))
  <2>1. res \in Results /\ faults' \in 0..MaxFaults
    BY <1>2, SpendFacts
  <2>2. /\ committed' = committed \o buf /\ buf' = <<>> /\ left' = {}
        /\ committed' \in Seq(Tx) /\ torn' \in BOOLEAN /\ gap' = gap
        /\ Len(committed) \in Nat /\ Len(committed') \in Nat
        /\ Len(committed) <= Len(committed')
        /\ readable <= readable' /\ readable' \in 0..Len(committed')
        /\ readable' = Len(committed') => readable = Len(committed)
    BY <1>e, <1>2, WriteFacts, Zenon
  <2>3. readable \in 0..Len(committed) /\ stable \in 0..readable /\ gap \in BOOLEAN
    BY DEF LogTypeOK
  <2>4. /\ stable <= stable' /\ stable' \in 0..readable'
        /\ res = "ok" => stable' = IF gap THEN stable ELSE readable'
    <3>1. stable' \in {SyncedTo(readable'), SyncedTo(readable), stable}
      BY <1>2 DEF Synced
    <3>2. stable' \in {readable', readable, stable}
      BY <3>1 DEF SyncedTo
    <3>3. res = "ok" => stable' = IF gap THEN stable ELSE readable'
      BY <1>2, Zenon DEF Synced, SyncedTo
    <3> QED BY <2>2, <2>3, <3>2, <3>3
  <2>5. LogTypeOK'
    BY <1>e, <1>2, <2>1, <2>2, <2>3, <2>4 DEF LogTypeOK
  <2>6. LogGrows
    BY <2>2, <2>4 DEF LogGrows, Sound
  <2>7. res = "ok" => buf' = <<>> /\ (Sound' => stable' = Len(committed'))
    BY <2>2, <2>4 DEF Sound
  <2>8. committed' \o buf' = committed \o buf
    BY <2>2, ConcatEmptySeq
  <2>9. buf = <<>> => committed' = committed /\ buf' = <<>>
    BY <1>s, <2>2, ConcatEmptySeq
  <2> QED BY <2>1, <2>5, <2>6, <2>7, <2>8, <2>9
<1> QED BY <1>1, <1>2, Zenon DEF FlushAndSync

(* What was published stays stable as the log grows. *)
LEMMA GrowKeeps ==
  ASSUME Inv, LogTypeOK', LogGrows, UNCHANGED <<syncer, synced_to, durable, mode, opened>>
  PROVE  DurableIsStable' /\ Published'
<1>1. /\ stable \in Int /\ stable' \in Int /\ durable \in Int /\ synced_to \in Int
      /\ readable \in Nat /\ opened \in Nat
  BY LenProperties DEF Inv, TypeOK, LogTypeOK
<1>2. DurableIsStable'
  BY <1>1 DEF Inv, DurableIsStable, LogGrows
<1>3. Published'
  BY <1>1 DEF Inv, Published, LogGrows
<1> QED BY <1>2, <1>3

----------------------------------------------------------------------------
(* The inductive invariant *)

LEMMA InvInit == Init => Inv
<1> SUFFICES ASSUME Init PROVE Inv
  OBVIOUS
<1> USE LocalDurabilityAssumption
<1>1. TypeOK
  <2>0. /\ <<>> \in Seq(Tx) /\ 0 \in 0..Len(<<>>) /\ 0 \in 0..0 /\ {} \subseteq 1..Len(<<>>)
        /\ MaxFaults \in 0..MaxFaults
    BY EmptySeq
  <2>1. LogTypeOK
    BY <2>0, Zenon DEF Init, LogTypeOK
  <2> QED BY <2>1 DEF Init, TypeOK, Tx
<1>2. Hist = <<>>
  BY DEF Init, Hist
<1>3. HistoryIsComplete
  BY <1>2 DEF Init, HistoryIsComplete
<1>4. DepthIsAccurate
  BY DEF Init, DepthIsAccurate
<1> QED
  BY <1>1, <1>3, <1>4
  DEF Init, Inv, Idle, Ended, Closed, Down, DurableIsStable, Published

(* append_tx extends the history by one transaction. *)
LEMMA AppendKeeps ==
  ASSUME TypeOK, AppendTx
  PROVE  Hist' = Append(Hist, next) /\ next \in Tx /\ durable' = durable
<1>t. next \in Tx
  BY LocalDurabilityAssumption DEF TypeOK, AppendTx, Tx
<1>1. inflight \in Txs /\ queue \in Txs /\ buf \in Txs /\ committed \in Txs
  BY DEF TypeOK, LogTypeOK, Txs
<1>2. Cat(inflight, queue) \in Txs /\ Cat(buf, Cat(inflight, queue)) \in Txs
  BY <1>1, CatLaws
<1>3. Cat(committed, Cat(buf, Cat(inflight, Append(queue, next))))
        = Append(Cat(committed, Cat(buf, Cat(inflight, queue))), next)
  <2>1. Cat(inflight, Append(queue, next)) = Append(Cat(inflight, queue), next)
    BY <1>t, <1>1, CatAppend
  <2>2. Cat(buf, Append(Cat(inflight, queue), next)) = Append(Cat(buf, Cat(inflight, queue)), next)
    BY <1>t, <1>1, <1>2, CatAppend
  <2>3. Cat(committed, Append(Cat(buf, Cat(inflight, queue)), next))
          = Append(Cat(committed, Cat(buf, Cat(inflight, queue))), next)
    BY <1>t, <1>1, <1>2, CatAppend
  <2> QED BY <2>1, <2>2, <2>3
<1>4. /\ Hist' = Cat(committed, Cat(buf, Cat(inflight, Append(queue, next))))
      /\ Hist = Cat(committed, Cat(buf, Cat(inflight, queue)))
  BY DEF Hist, Cat, AppendTx, logvars, taskvars
<1>5. durable' = durable
  BY DEF AppendTx
<1> QED BY <1>t, <1>3, <1>4, <1>5

(* The history is what was committed and buffered, and the rest. *)
LEMMA HistParts ==
  ASSUME TypeOK
  PROVE  /\ Hist \in Seq(Tx)
         /\ Hist = (committed \o buf) \o (inflight \o queue)
         /\ Hist = committed \o ((buf \o inflight) \o queue)
         /\ committed \o buf \in Seq(Tx) /\ inflight \o queue \in Seq(Tx)
         /\ buf \o (inflight \o queue) \in Seq(Tx)
         /\ Len(committed) <= Len(committed \o buf) /\ Len(committed \o buf) <= Len(Hist)
<1>1. committed \in Txs /\ buf \in Txs /\ inflight \in Txs /\ queue \in Txs
  BY DEF TypeOK, LogTypeOK, Txs
<1>2. Hist = Cat(committed, Cat(buf, Cat(inflight, queue)))
  BY DEF Hist, Cat
<1>3. /\ Cat(committed, buf) \in Txs /\ Cat(inflight, queue) \in Txs /\ Cat(buf, inflight) \in Txs
      /\ Len(committed) <= Len(Cat(committed, buf))
  BY <1>1, CatLaws
<1>4. Cat(buf, Cat(inflight, queue)) \in Txs
  BY <1>1, <1>3, CatLaws
<1>5. Hist \in Txs
  BY <1>1, <1>2, <1>4, CatLaws
<1>6. Hist = Cat(Cat(committed, buf), Cat(inflight, queue))
  BY <1>1, <1>2, <1>3, CatLaws
<1>7. Hist = Cat(committed, Cat(Cat(buf, inflight), queue))
  BY <1>1, <1>2, CatLaws
<1>8. Len(Cat(committed, buf)) <= Len(Hist)
  BY <1>3, <1>6, CatLaws
<1> QED BY <1>3, <1>4, <1>5, <1>6, <1>7, <1>8 DEF Cat, Txs

(* When the persister dies, the log and its buffer are what remains. *)
LEMMA GoneFacts ==
  ASSUME TypeOK, TypeOK', PersisterGone, committed' \o buf' = committed \o buf
  PROVE  Hist' = committed \o buf
<1>1. committed' \in Txs /\ buf' \in Txs
  BY DEF TypeOK, LogTypeOK, Txs
<1>2. Hist' = Cat(committed', Cat(buf', Cat(<<>>, <<>>)))
  BY DEF Hist, Cat, PersisterGone
<1>3. Hist' = Cat(committed', buf')
  BY <1>1, <1>2, CatLaws
<1> QED BY <1>3 DEF Cat

(* A step that moves transactions along, or loses those not yet in the log. *)
Kept == Hist' = Hist \/ Hist' = committed \o buf

(* A step that leaves the log, and what is published, as they are *)
LEMMA SameLog ==
  ASSUME Inv, UNCHANGED <<logvars, faults, syncer, synced_to, durable, mode, opened>>
  PROVE  LogTypeOK' /\ DurableIsStable' /\ Published'
<1>1. LogTypeOK'
  BY DEF Inv, TypeOK, LogTypeOK, logvars
<1>2. LogGrows
  BY LenProperties DEF Inv, TypeOK, LogTypeOK, LogGrows, Sound, logvars
<1> QED BY <1>1, <1>2, GrowKeeps

LEMMA InvAppendTx == Inv /\ AppendTx => Inv'
<1> SUFFICES ASSUME Inv, AppendTx PROVE Inv'
  OBVIOUS
<1> USE LocalDurabilityAssumption
<1>t. TypeOK /\ next \in Tx
  BY DEF Inv, TypeOK, AppendTx, Tx
<1>u. /\ UNCHANGED <<logvars, faults, syncer, synced_to, durable, mode, opened>>
      /\ UNCHANGED <<depth, inflight, persister, max_records>>
      /\ mode = "open" /\ persister # "gone"
  BY DEF AppendTx, taskvars, fixed
<1>l. LogTypeOK' /\ DurableIsStable' /\ Published'
  BY <1>u, SameLog
<1>1. TypeOK'
  BY <1>t, <1>u, <1>l DEF TypeOK, AppendTx, Tx
<1>2. Hist' = Append(Hist, next)
  BY <1>t, AppendKeeps
<1>3. HistoryIsComplete'
  BY <1>2, <1>u DEF Inv, HistoryIsComplete, AppendTx
<1>4. DepthIsAccurate'
  <2> DEFINE held == IF persister = "received" THEN 1 ELSE 0
  <2>1. Wrap(depth + uncounted) = Wrap(Len(queue) + held)
    BY <1>u DEF Inv, DepthIsAccurate
  <2>2. /\ Len(queue') = Len(queue) + 1 /\ Len(queue) \in Nat /\ depth \in Int
        /\ uncounted \in Int /\ held \in Int
    BY <1>t DEF TypeOK, AppendTx
  <2>3. Agree(depth, uncounted, Len(queue) + held)
    BY <2>1 DEF Agree
  <2>4. Agree(depth, uncounted + 1, (Len(queue) + held) + 1)
    BY <2>2, <2>3, CounterSteps
  <2>5. (Len(queue) + held) + 1 = Len(queue') + held
    BY <2>2
  <2>6. Wrap(depth + (uncounted + 1)) = Wrap(Len(queue') + held)
    BY <2>4, <2>5, Zenon DEF Agree
  <2> QED BY <1>u, <2>6 DEF DepthIsAccurate, AppendTx
<1> QED
  BY <1>u, <1>l, <1>1, <1>3, <1>4
  DEF Inv, AppendTx, logvars, Idle, Ended, Closed, Down

(* Counting a transaction changes nothing but the counter. *)
LEMMA InvCountTx == Inv /\ CountTx => Inv'
<1> SUFFICES ASSUME Inv, CountTx PROVE Inv'
  OBVIOUS
<1> USE LocalDurabilityAssumption
<1>t. TypeOK
  BY DEF Inv
<1>u. /\ UNCHANGED <<logvars, faults, syncer, synced_to, durable, mode, opened>>
      /\ UNCHANGED <<queue, inflight, persister, next, expected, max_records>>
      /\ uncounted > 0 /\ uncounted' = uncounted - 1 /\ depth' = Wrap(depth + 1)
  BY DEF CountTx, taskvars, fixed
<1>l. LogTypeOK' /\ DurableIsStable' /\ Published'
  BY <1>u, SameLog
<1>1. Wrap(depth + 1) \in 0..(DepthMod - 1) /\ Wrap(Wrap(depth + 1)) = Wrap(depth + 1)
  BY <1>t, WrapAgrees DEF TypeOK
<1>2. TypeOK'
  BY <1>t, <1>u, <1>l, <1>1 DEF TypeOK
<1>3. Hist' = Hist
  BY <1>u DEF Hist, logvars
<1>4. DepthIsAccurate'
  <2> DEFINE held == IF persister = "received" THEN 1 ELSE 0
  <2>1. SUFFICES ASSUME persister # "gone"
                 PROVE  Wrap(Wrap(depth + 1) + (uncounted - 1)) = Wrap(Len(queue) + held)
    BY <1>u DEF DepthIsAccurate
  <2>2. /\ Wrap(depth + uncounted) = Wrap(Len(queue) + held)
        /\ depth \in Int /\ uncounted \in Int /\ Len(queue) + held \in Int
    BY <1>t, <2>1 DEF TypeOK, Inv, DepthIsAccurate
  <2>3. Agree(depth, uncounted, Len(queue) + held)
    BY <2>2 DEF Agree
  <2>4. Agree(Wrap(depth + 1), uncounted - 1, Len(queue) + held)
    BY <2>2, <2>3, CounterSteps, Zenon
  <2> QED BY <2>1, <2>4 DEF Agree
<1> QED
  BY <1>t, <1>u, <1>l, <1>2, <1>3, <1>4
  DEF Inv, TypeOK, logvars, Idle, Ended, Closed, Down, Sound, HistoryIsComplete

(* The persister takes the first transaction of the queue. *)
LEMMA InvPersisterRecv == Inv /\ PersisterRecv => Inv' /\ Hist' = Hist
<1> SUFFICES ASSUME Inv, PersisterRecv PROVE Inv' /\ Hist' = Hist
  OBVIOUS
<1>t. TypeOK /\ inflight = <<>> /\ queue # <<>> /\ persister = "recv"
  BY DEF Inv, Idle, PersisterRecv
<1>u. /\ UNCHANGED <<logvars, faults, syncer, synced_to, durable, mode, opened>>
      /\ UNCHANGED <<depth, uncounted, next, expected, max_records>>
      /\ inflight' = <<Head(queue)>> /\ queue' = Tail(queue) /\ persister' = "received"
  BY DEF PersisterRecv, fixed
<1>l. LogTypeOK' /\ DurableIsStable' /\ Published'
  BY <1>u, SameLog
<1>1. /\ <<Head(queue)>> \o Tail(queue) = queue /\ <<Head(queue)>> \in Seq(Tx)
      /\ Tail(queue) \in Seq(Tx) /\ Len(Tail(queue)) = Len(queue) - 1 /\ Len(queue) \in Nat
  BY <1>t, HeadThenTail, Zenon DEF TypeOK
<1>3. TypeOK'
  BY <1>t, <1>u, <1>l, <1>1, Zenon DEF TypeOK
<1>4. Hist' = Hist
  <2>1. inflight \o queue = queue
    BY <1>t, ConcatEmptySeq DEF TypeOK
  <2> QED BY <1>u, <1>1, <2>1, Zenon DEF Hist, logvars
<1>5. DepthIsAccurate'
  <2>1. Wrap(depth + uncounted) = Wrap(Len(queue) + 0)
    BY <1>t DEF Inv, DepthIsAccurate
  <2>2. Len(queue) + 0 = Len(queue') + 1
    BY <1>u, <1>1
  <2> QED BY <1>u, <2>1, <2>2 DEF DepthIsAccurate
<1> QED
  BY <1>t, <1>u, <1>l, <1>3, <1>4, <1>5
  DEF Inv, logvars, Idle, Ended, Closed, Down, HistoryIsComplete

(* It counts the transaction it has received. *)
LEMMA InvPersisterCount == Inv /\ PersisterCount => Inv' /\ Hist' = Hist
<1> SUFFICES ASSUME Inv, PersisterCount PROVE Inv' /\ Hist' = Hist
  OBVIOUS
<1> USE LocalDurabilityAssumption
<1>t. TypeOK /\ persister = "received"
  BY DEF Inv, PersisterCount
<1>u. /\ UNCHANGED <<logvars, faults, syncer, synced_to, durable, mode, opened>>
      /\ UNCHANGED <<queue, uncounted, inflight, next, expected, max_records>>
      /\ depth' = Wrap(depth - 1) /\ persister' \in {"flush_append", "append"}
  BY DEF PersisterCount, Decrement, fixed
<1>l. LogTypeOK' /\ DurableIsStable' /\ Published'
  BY <1>u, SameLog, Zenon
<1>2. Wrap(depth - 1) \in 0..(DepthMod - 1) /\ Wrap(Wrap(depth - 1)) = Wrap(depth - 1)
  BY <1>t, WrapAgrees DEF TypeOK
<1>3. TypeOK'
  BY <1>t, <1>u, <1>l, <1>2, Zenon DEF TypeOK
<1>4. Hist' = Hist
  BY <1>u DEF Hist, logvars
<1>5. DepthIsAccurate'
  <2>2. /\ Wrap(depth + uncounted) = Wrap(Len(queue) + 1)
        /\ depth \in Int /\ uncounted \in Int /\ Len(queue) \in Nat
    BY <1>t, LenProperties DEF TypeOK, Inv, DepthIsAccurate
  <2>3. Agree(depth, uncounted, Len(queue) + 1)
    BY <2>2 DEF Agree
  <2>4. Agree(Wrap(depth - 1), uncounted, (Len(queue) + 1) - 1)
    BY <2>2, <2>3, CounterSteps
  <2>5. (Len(queue) + 1) - 1 = Len(queue) + 0
    BY <2>2
  <2>6. Wrap(Wrap(depth - 1) + uncounted) = Wrap(Len(queue) + 0)
    BY <2>4, <2>5, Zenon DEF Agree
  <2> QED BY <1>u, <2>6, Zenon DEF DepthIsAccurate
<1> QED
  BY <1>t, <1>u, <1>l, <1>3, <1>4, <1>5
  DEF Inv, logvars, Idle, Ended, Closed, Down, HistoryIsComplete

(* The persister ends when the channel is closed and drained. *)
LEMMA InvPersisterExit == Inv /\ PersisterExit => Inv' /\ Hist' = Hist
<1> SUFFICES ASSUME Inv, PersisterExit PROVE Inv' /\ Hist' = Hist
  OBVIOUS
<1>t. TypeOK /\ persister = "recv" /\ queue = <<>> /\ mode = "closing"
  BY DEF Inv, PersisterExit, Drained
<1>u. /\ UNCHANGED <<logvars, faults, syncer, synced_to, durable, mode, opened>>
      /\ UNCHANGED <<queue, depth, uncounted, inflight, next, expected, max_records>>
      /\ persister' = "exited"
  BY DEF PersisterExit, fixed
<1>l. LogTypeOK' /\ DurableIsStable' /\ Published'
  BY <1>u, SameLog, Zenon
<1>1. TypeOK'
  BY <1>t, <1>u, <1>l DEF TypeOK
<1>2. Hist' = Hist
  BY <1>u DEF Hist, logvars
<1>3. DepthIsAccurate'
  BY <1>t, <1>u DEF Inv, DepthIsAccurate
<1> QED
  BY <1>t, <1>u, <1>l, <1>1, <1>2, <1>3
 , Zenon DEF Inv, Idle, Ended, Closed, Down, HistoryIsComplete

(* The fast path: buffer the transaction, or leave it to the slow one. *)
LEMMA BufferKeeps ==
  ASSUME Inv, Buffer, UNCHANGED <<queue, committed, readable, stable, gap, torn, left, log, faults>>,
         UNCHANGED <<syncer, synced_to, durable, mode, opened>>
  PROVE  /\ LogTypeOK' /\ DurableIsStable' /\ Published' /\ Hist' = Hist
         /\ inflight' = <<>> /\ inflight' \in Seq(Tx)
<1>t. TypeOK /\ LogTypeOK
  BY Zenon DEF Inv, TypeOK
<1>1. /\ buf' = buf \o inflight /\ inflight' = <<>> /\ <<>> \in Seq(Tx)
      /\ buf \in Seq(Tx) /\ inflight \in Seq(Tx) /\ queue \in Seq(Tx) /\ committed \in Seq(Tx)
  BY <1>t, EmptySeq DEF Buffer, TypeOK, LogTypeOK
<1>2. buf' \in Seq(Tx) /\ Len(buf') \in Nat /\ Len(buf) \in Nat /\ Len(buf) <= Len(buf')
  <2>1. /\ buf \o inflight \in Seq(Tx) /\ Len(buf \o inflight) = Len(buf) + Len(inflight)
        /\ Len(buf) \in Nat /\ Len(inflight) \in Nat
    BY <1>1, ConcatProperties, LenProperties
  <2> QED BY <1>1, <2>1
<1>3. left' \subseteq 1..Len(buf')
  <2>1. 1..Len(buf) \subseteq 1..Len(buf')
    BY <1>2
  <2> QED BY <1>t, <2>1, Zenon DEF LogTypeOK
<1>4. LogTypeOK'
  BY <1>t, <1>1, <1>2, <1>3, Zenon DEF LogTypeOK
<1>5. LogGrows
  BY <1>t, <1>1, LenProperties DEF LogTypeOK, LogGrows, Sound
<1>6. DurableIsStable' /\ Published'
  BY <1>4, <1>5, GrowKeeps, Zenon
<1>7. Hist' = Hist
  <2>1. Hist' = committed \o ((buf \o inflight) \o (<<>> \o queue))
    BY <1>1 DEF Hist
  <2>2. <<>> \o queue = queue
    BY <1>1, ConcatEmptySeq
  <2> QED BY <1>t, <2>1, <2>2, HistParts, Zenon
<1> QED BY <1>1, <1>4, <1>6, <1>7, Zenon

LEMMA InvPersisterAppend == Inv /\ PersisterAppend => Inv' /\ Kept
<1> SUFFICES ASSUME Inv, PersisterAppend PROVE Inv' /\ Hist' = Hist
  BY DEF Kept
<1>t. TypeOK /\ persister = "append" /\ mode \notin {"closed", "down"}
  BY DEF Inv, PersisterAppend, Closed, Down
<1>u. /\ UNCHANGED <<depth, uncounted, committed, readable, stable, gap, torn, left, log, faults>>
      /\ UNCHANGED <<syncer, synced_to, durable, mode, opened>>
      /\ UNCHANGED <<next, expected, max_records, queue>>
  BY Zenon DEF PersisterAppend, fixed
<1>1. CASE Len(buf) < max_records
  <2>1. Buffer /\ persister' = "recv"
    BY <1>1 DEF PersisterAppend
  <2>2. /\ LogTypeOK' /\ DurableIsStable' /\ Published' /\ Hist' = Hist
        /\ inflight' = <<>> /\ inflight' \in Seq(Tx)
    BY <1>u, <2>1, BufferKeeps, Zenon
  <2>3. TypeOK'
    BY <1>t, <1>u, <2>1, <2>2, Zenon DEF TypeOK
  <2>4. DepthIsAccurate'
    BY <1>t, <1>u, <2>1, Zenon DEF Inv, DepthIsAccurate
  <2> QED
    BY <1>t, <1>u, <2>1, <2>2, <2>3, <2>4
   , Zenon DEF Inv, Idle, Ended, Closed, Down, HistoryIsComplete
<1>2. CASE ~(Len(buf) < max_records)
  <2>1. persister' = "flush_append" /\ UNCHANGED <<buf, inflight>>
    BY <1>2, Zenon DEF PersisterAppend
  <2>2. LogTypeOK' /\ DurableIsStable' /\ Published'
    BY <1>u, <2>1, SameLog, Zenon DEF logvars
  <2>3. TypeOK'
    BY <1>t, <1>u, <2>1, <2>2, Zenon DEF TypeOK
  <2>4. DepthIsAccurate' /\ Hist' = Hist
    BY <1>t, <1>u, <2>1 DEF Inv, DepthIsAccurate, Hist
  <2> QED
    BY <1>t, <1>u, <2>1, <2>2, <2>3, <2>4
   , Zenon DEF Inv, Idle, Ended, Closed, Down, HistoryIsComplete
<1> QED BY <1>1, <1>2

(* A persister that works on the log is there while the process runs.       *)
LEMMA PersisterWorks ==
  ASSUME Inv, persister \in {"append", "flush_append", "flush"}
  PROVE  mode \notin {"closed", "down"}
BY Zenon DEF Inv, Closed, Down

(* The persister dies: what is not in the log or its buffer is lost. *)
LEMMA GoneKeeps ==
  ASSUME Inv, PersisterGone, LogTypeOK', DurableIsStable', Published', UNCHANGED <<committed, buf>>,
         UNCHANGED <<depth, uncounted, durable, synced_to, mode, next, expected, max_records, opened>>,
         syncer' \in {syncer, "gone"}, mode \notin {"closed", "down"}
  PROVE  Inv' /\ Hist' = committed \o buf
<1>t. TypeOK /\ <<>> \in Seq(Tx)
  BY EmptySeq DEF Inv
<1>1. persister' = "gone" /\ inflight' = <<>> /\ queue' = <<>>
  BY Zenon DEF PersisterGone
<1>2. TypeOK'
  BY <1>t, <1>1 DEF TypeOK
<1>3. Hist' = committed \o buf
  BY <1>t, <1>2, GoneFacts, Zenon
<1> QED
  BY <1>1, <1>2, <1>3
  DEF Inv, Idle, Ended, Closed, Down, HistoryIsComplete, DepthIsAccurate

(* Moving records from the buffer into the log keeps the history. *)
LEMMA FlushKeeps ==
  ASSUME TypeOK, TypeOK', committed' \o buf' = committed \o buf, inflight' = inflight,
         queue' = queue
  PROVE  Hist' = Hist
<1>1. /\ committed' \in Txs /\ buf' \in Txs /\ inflight \in Txs /\ queue \in Txs
      /\ committed \in Txs /\ buf \in Txs
  BY DEF TypeOK, LogTypeOK, Txs
<1>2. /\ Hist' = Cat(committed', Cat(buf', Cat(inflight, queue)))
      /\ Hist = Cat(committed, Cat(buf, Cat(inflight, queue)))
      /\ Cat(committed', buf') = Cat(committed, buf)
  BY DEF Hist, Cat
<1>3. Cat(inflight, queue) \in Txs
  BY <1>1, CatLaws
<1> QED BY <1>1, <1>2, <1>3, CatLaws

(* append_maybe_flush, whatever its commit returns *)
LEMMA InvPersisterFlushAppend == Inv /\ PersisterFlushAppend => Inv' /\ Kept
<1> SUFFICES ASSUME Inv, PersisterFlushAppend PROVE Inv' /\ Kept
  OBVIOUS
<1>t. TypeOK /\ LogTypeOK /\ persister = "flush_append" /\ mode \notin {"closed", "down"}
  BY PersisterWorks DEF Inv, PersisterFlushAppend, TypeOK
<1>u. /\ UNCHANGED <<depth, uncounted, syncer, synced_to, durable, mode, next, expected>>
      /\ UNCHANGED <<max_records, opened>>
      /\ inflight \in Seq(Tx) /\ queue \in Seq(Tx) /\ <<>> \in Seq(Tx)
  BY <1>t, EmptySeq, Zenon DEF PersisterFlushAppend, TypeOK, fixed
<1>1. CASE /\ Buffer /\ AfterAppend
           /\ UNCHANGED <<queue, committed, readable, stable, gap, torn, left, log, faults>>
  <2>2. /\ LogTypeOK' /\ DurableIsStable' /\ Published' /\ Hist' = Hist
        /\ inflight' = <<>> /\ inflight' \in Seq(Tx)
    BY <1>u, <1>1, BufferKeeps
  <2>1. persister' \in {"flush", "recv"}
    BY <1>1, Zenon DEF AfterAppend
  <2>3. TypeOK'
    BY <1>t, <1>u, <1>1, <2>1, <2>2, Zenon DEF TypeOK
  <2>4. DepthIsAccurate'
    BY <1>t, <1>u, <1>1, <2>1 DEF Inv, DepthIsAccurate
  <2> QED
    BY <1>t, <1>u, <1>1, <2>1, <2>2, <2>3, <2>4
   , Zenon DEF Inv, Idle, Ended, Closed, Down, HistoryIsComplete, Kept
<1>2. ASSUME NEW res \in CommitResults, Commit(res, inflight),
             CASE res = "ok" -> inflight' = <<>> /\ AfterAppend /\ UNCHANGED queue
               [] res = "err" -> UNCHANGED <<inflight, persister, queue>>
               [] OTHER -> PersisterGone
      PROVE  Inv' /\ Kept
  <2>c. /\ res \in Results /\ LogTypeOK' /\ LogGrows
        /\ res = "ok" => committed' = committed \o buf /\ buf' = inflight
        /\ res # "ok" => UNCHANGED <<committed, buf>>
    BY <1>t, <1>u, <1>2, CommitFacts, Zenon
  <2>g. DurableIsStable' /\ Published'
    BY <1>u, <2>c, GrowKeeps, Zenon
  <2>2. CASE res = "ok"
    <3>1. /\ committed' = committed \o buf /\ buf' = inflight /\ inflight' = <<>>
          /\ queue' = queue /\ persister' \in {"flush", "recv"}
      BY <1>2, <2>2, <2>c, Zenon DEF AfterAppend
    <3>2. TypeOK'
      BY <1>t, <1>u, <2>c, <3>1 DEF TypeOK
    <3>3. Hist' = (committed \o buf) \o (inflight \o (<<>> \o queue))
      BY <3>1 DEF Hist
    <3>4. <<>> \o queue = queue
      BY <1>u, ConcatEmptySeq
    <3>5. Hist' = Hist
      BY <1>t, <3>3, <3>4, HistParts, Zenon
    <3>6. DepthIsAccurate'
      BY <1>t, <1>u, <3>1, Zenon DEF Inv, DepthIsAccurate
    <3> QED
      BY <1>t, <1>u, <2>g, <3>1, <3>2, <3>5, <3>6
      DEF Inv, Idle, Ended, Closed, Down, HistoryIsComplete, Kept
  <2>3. CASE res = "err"
    <3>1. UNCHANGED <<inflight, persister, queue, committed, buf>>
      BY <1>2, <2>3, <2>c, Zenon
    <3>2. TypeOK' /\ Hist' = Hist
      BY <1>t, <1>u, <2>c, <3>1 DEF TypeOK, Hist
    <3>3. DepthIsAccurate'
      BY <1>u, <3>1 DEF Inv, DepthIsAccurate
    <3> QED
      BY <1>t, <1>u, <2>g, <3>1, <3>2, <3>3
      DEF Inv, Idle, Ended, Closed, Down, HistoryIsComplete, Kept
  <2>4. CASE res \in {"exists", "panic"}
    <3>1. PersisterGone /\ UNCHANGED <<committed, buf>>
      BY <1>2, <2>4, <2>c
    <3> QED BY <1>t, <1>u, <2>c, <2>g, <3>1, GoneKeeps DEF Kept
  <2> QED BY <2>c, <2>2, <2>3, <2>4 DEF Results
<1> QED BY <1>1, <1>2 DEF PersisterFlushAppend

(* The flush after a single append; its error is only logged. *)
LEMMA InvPersisterFlush == Inv /\ PersisterFlush => Inv' /\ Kept
<1> SUFFICES ASSUME Inv, PersisterFlush PROVE Inv' /\ Kept
  OBVIOUS
<1>t. /\ TypeOK /\ LogTypeOK /\ persister = "flush" /\ inflight = <<>>
      /\ mode \notin {"closed", "down"}
  BY PersisterWorks DEF Inv, PersisterFlush, Idle, TypeOK
<1>u. /\ UNCHANGED <<depth, uncounted, syncer, synced_to, durable, mode, next, expected>>
      /\ UNCHANGED <<max_records, opened>>
      /\ <<>> \in Seq(Tx)
  BY <1>t, EmptySeq DEF PersisterFlush, fixed
<1>1. PICK res \in CommitResults :
        /\ Commit(res, <<>>)
        /\ IF res \in {"exists", "panic"} THEN PersisterGone
           ELSE persister' = "recv" /\ UNCHANGED <<inflight, queue>>
  BY Zenon DEF PersisterFlush
<1>c. /\ res \in Results /\ LogTypeOK' /\ LogGrows
      /\ res = "ok" => committed' = committed \o buf /\ buf' = <<>>
      /\ res # "ok" => UNCHANGED <<committed, buf>>
  BY <1>t, <1>u, <1>1, CommitFacts, Zenon
<1>g. DurableIsStable' /\ Published'
  BY <1>u, <1>c, GrowKeeps
<1>2. CASE res \in {"ok", "err"}
  <2>1. persister' = "recv" /\ inflight' = inflight /\ queue' = queue
    BY <1>1, <1>2
  <2>2. TypeOK'
    BY <1>t, <1>u, <1>c, <2>1 DEF TypeOK
  <2>3. committed' \o buf' = committed \o buf
    <3>1. CASE res = "ok"
      BY <1>c, <2>2, <3>1, ConcatEmptySeq, Zenon DEF TypeOK, LogTypeOK
    <3>2. CASE res = "err"
      BY <1>c, <3>2
    <3> QED BY <1>2, <3>1, <3>2, Zenon
  <2>4. Hist' = Hist
    BY <1>t, <2>1, <2>2, <2>3, FlushKeeps
  <2>5. DepthIsAccurate'
    BY <1>t, <1>u, <2>1 DEF Inv, DepthIsAccurate
  <2> QED
    BY <1>t, <1>u, <1>g, <2>1, <2>2, <2>4, <2>5
    DEF Inv, Idle, Ended, Closed, Down, HistoryIsComplete, Kept
<1>3. CASE res \in {"exists", "panic"}
  <2>1. PersisterGone /\ UNCHANGED <<committed, buf>>
    BY <1>1, <1>3, <1>c
  <2> QED BY <1>t, <1>u, <1>c, <1>g, <2>1, GoneKeeps DEF Kept
<1> QED BY <1>c, <1>2, <1>3, Zenon DEF Results

(* A poisoned lock ends the persister. *)
LEMMA InvPersisterPanic == Inv /\ PersisterPanic => Inv' /\ Kept
<1> SUFFICES ASSUME Inv, PersisterPanic PROVE Inv' /\ Kept
  OBVIOUS
<1>t. PersisterGone /\ mode \notin {"closed", "down"}
  BY PersisterWorks DEF PersisterPanic
<1>u. /\ UNCHANGED <<logvars, faults, syncer, synced_to, durable, mode, opened>>
      /\ UNCHANGED <<depth, uncounted, next, expected, max_records>>
  BY DEF PersisterPanic, fixed
<1>l. LogTypeOK' /\ DurableIsStable' /\ Published'
  BY <1>u, SameLog
<1>1. UNCHANGED <<committed, buf>>
  BY <1>u, Zenon DEF logvars
<1> QED BY <1>t, <1>u, <1>l, <1>1, GoneKeeps DEF Kept

(* A tick only looks. *)
LEMMA InvSyncerTick == Inv /\ SyncerTick => Inv' /\ Hist' = Hist
<1> SUFFICES ASSUME Inv, SyncerTick PROVE Inv' /\ Hist' = Hist
  OBVIOUS
<1>u. /\ UNCHANGED <<logvars, faults, synced_to, durable, mode, opened>>
      /\ UNCHANGED <<queue, depth, uncounted, inflight, persister, next, expected, max_records>>
      /\ syncer = "tick" /\ syncer' \in {"gone", "tick", "sync"}
  BY DEF SyncerTick, fixed
<1>1. Hist' = Hist
  BY <1>u, Zenon DEF logvars, Hist
<1>2. LogTypeOK'
  BY <1>u, Zenon DEF Inv, TypeOK, LogTypeOK, logvars
<1>3. TypeOK'
  BY <1>u, <1>2, Zenon DEF Inv, TypeOK
<1>4. DurableIsStable' /\ Published'
  BY <1>u, Zenon DEF Inv, DurableIsStable, Published, Sound, logvars
<1> QED
  BY <1>u, <1>1, <1>3, <1>4
 , Zenon DEF Inv, logvars, Idle, Ended, Closed, Down, Sound, HistoryIsComplete, DepthIsAccurate

(* Publishing the offset that was synced *)
LEMMA InvSyncerStore == Inv /\ SyncerStore => Inv' /\ Hist' = Hist
<1> SUFFICES ASSUME Inv, SyncerStore PROVE Inv' /\ Hist' = Hist
  OBVIOUS
<1>u. /\ UNCHANGED <<logvars, faults, synced_to, mode, opened>>
      /\ UNCHANGED <<queue, depth, uncounted, inflight, persister, next, expected, max_records>>
      /\ syncer = "store" /\ syncer' = "tick" /\ durable' = synced_to
  BY Zenon DEF SyncerStore, fixed
<1>1. Hist' = Hist
  BY <1>u, Zenon DEF logvars, Hist
<1>2. LogTypeOK'
  BY <1>u, Zenon DEF Inv, TypeOK, LogTypeOK, logvars
<1>3. TypeOK'
  BY <1>u, <1>2, Zenon DEF Inv, TypeOK
<1>4. DurableIsStable' /\ Published'
  BY <1>u, Zenon DEF Inv, DurableIsStable, Published, Sound, logvars
<1> QED
  BY <1>u, <1>1, <1>3, <1>4
 , Zenon DEF Inv, logvars, Idle, Ended, Closed, Down, Sound, HistoryIsComplete, DepthIsAccurate

(* flush_and_sync by the FlushAndSyncTask, whatever it returns *)
LEMMA InvSyncerSync == Inv /\ SyncerSync => Inv' /\ Hist' = Hist
<1> SUFFICES ASSUME Inv, SyncerSync PROVE Inv' /\ Hist' = Hist
  OBVIOUS
<1>t. TypeOK /\ LogTypeOK /\ syncer = "sync" /\ mode # "down"
  BY DEF Inv, SyncerSync, Down, TypeOK
<1>u. /\ UNCHANGED <<queue, depth, uncounted, inflight, persister, durable, mode, next, expected>>
      /\ UNCHANGED <<max_records, opened>>
  BY DEF SyncerSync, fixed
<1>1. PICK res \in CommitResults :
       /\ FlushAndSync(res)
       /\ syncer' = CASE res = "panic" -> "abort"
                      [] res = "ok" /\ committed' # <<>> -> "store"
                      [] OTHER -> "tick"
       /\ synced_to' = IF res = "ok" THEN Len(committed') - 1 ELSE synced_to
  BY DEF SyncerSync
<1>f. /\ res \in Results /\ LogTypeOK' /\ LogGrows
      /\ committed' \o buf' = committed \o buf
      /\ buf = <<>> => committed' = committed /\ buf' = <<>>
      /\ res = "ok" => buf' = <<>> /\ (Sound' => stable' = Len(committed'))
  BY <1>t, <1>1, FlushFacts, Zenon
<1>n. /\ Len(committed) \in Nat /\ Len(committed') \in Nat /\ Len(committed) <= Len(committed')
      /\ stable \in Int /\ stable' \in Int /\ stable <= stable' /\ (Sound' => Sound)
      /\ stable' <= Len(committed')
      /\ durable \in Int /\ synced_to \in Int /\ opened \in Nat
  BY <1>t, <1>f DEF TypeOK, LogTypeOK, LogGrows
<1>2. /\ syncer' \in {"abort", "store", "tick"} /\ synced_to' \in Int
      /\ syncer' = "store" => res = "ok" /\ synced_to' = Len(committed') - 1
  BY <1>1, <1>f, <1>n DEF Results
<1>3. DurableIsStable'
  <2>1. ASSUME Sound' PROVE durable >= opened => durable < stable'
    BY <1>t, <1>n, <2>1 DEF Inv, DurableIsStable
  <2>2. ASSUME Sound', syncer' = "store" PROVE synced_to' < stable'
    BY <1>f, <1>n, <1>2, <2>2
  <2> QED BY <1>u, <2>1, <2>2, Zenon DEF DurableIsStable
<1>p. Published'
  BY <1>t, <1>u, <1>n, <1>2 DEF Inv, Published
<1>4. TypeOK'
  BY <1>t, <1>u, <1>f, <1>2, Zenon DEF TypeOK
<1>5. Hist' = Hist
  BY <1>t, <1>u, <1>f, <1>4, FlushKeeps, Zenon
<1>6. Closed'
  <2>1. ASSUME mode = "closed" PROVE buf' = <<>> /\ (Sound' => stable' = Len(committed'))
    <3>1. buf = <<>> /\ (Sound => stable = Len(committed))
      BY <2>1 DEF Inv, Closed
    <3>2. buf' = <<>> /\ committed' = committed
      BY <1>f, <3>1
    <3> QED BY <1>n, <3>1, <3>2
  <2> QED BY <1>u, <2>1, Zenon DEF Inv, Closed
<1> QED
  BY <1>t, <1>u, <1>3, <1>p, <1>4, <1>5, <1>6
 , Zenon DEF Inv, Idle, Ended, Down, HistoryIsComplete, DepthIsAccurate

(* The syncer aborts the persister when the log panicked. *)
LEMMA InvSyncerAbort == Inv /\ SyncerAbort => Inv' /\ Kept
<1> SUFFICES ASSUME Inv, SyncerAbort PROVE Inv' /\ Kept
  OBVIOUS
<1>t. /\ TypeOK /\ syncer = "abort" /\ syncer' = "gone" /\ mode # "down"
  BY Zenon DEF Inv, Down, SyncerAbort
<1>u. /\ UNCHANGED <<logvars, faults, synced_to, durable, mode, opened>>
      /\ UNCHANGED <<depth, uncounted, next, expected, max_records>>
  BY Zenon DEF SyncerAbort, fixed
<1>l. LogTypeOK' /\ UNCHANGED <<committed, buf>>
  BY <1>u, Zenon DEF Inv, TypeOK, LogTypeOK, logvars
<1>p. DurableIsStable' /\ Published'
  BY <1>t, <1>u, Zenon DEF Inv, DurableIsStable, Published, Sound, logvars
<1>1. CASE persister # "exited"
  <2>1. PersisterGone
    BY <1>1 DEF SyncerAbort
  <2>2. mode # "closed"
    BY <1>1, Zenon DEF Inv, Closed
  <2> QED BY <1>t, <1>u, <1>l, <1>p, <2>1, <2>2, GoneKeeps, Zenon DEF Kept
<1>2. CASE persister = "exited"
  <2>1. UNCHANGED <<persister, inflight, queue>>
    BY <1>2, Zenon DEF SyncerAbort
  <2>2. TypeOK' /\ Hist' = Hist
    BY <1>t, <1>u, <1>l, <2>1, Zenon DEF TypeOK, Hist
  <2> QED
    BY <1>t, <1>u, <1>p, <2>1, <2>2
   , Zenon DEF Inv, Idle, Ended, Closed, Down, Sound, HistoryIsComplete, DepthIsAccurate, Kept,
        logvars
<1> QED BY <1>1, <1>2, Zenon

(* close drops the sender. *)
LEMMA InvCloseBegin == Inv /\ CloseBegin => Inv' /\ Hist' = Hist
<1> SUFFICES ASSUME Inv, CloseBegin PROVE Inv' /\ Hist' = Hist
  OBVIOUS
<1>u. /\ UNCHANGED <<logvars, faults, syncer, synced_to, durable, opened>>
      /\ UNCHANGED <<queue, depth, uncounted, inflight, persister, next, expected, max_records>>
      /\ mode = "open" /\ mode' = "closing"
  BY Zenon DEF CloseBegin, fixed, taskvars
<1>1. Hist' = Hist
  BY <1>u, Zenon DEF logvars, Hist
<1>2. LogTypeOK'
  BY <1>u, Zenon DEF Inv, TypeOK, LogTypeOK, logvars
<1>3. TypeOK'
  BY <1>u, <1>2, Zenon DEF Inv, TypeOK
<1>4. DurableIsStable' /\ Published'
  BY <1>u, Zenon DEF Inv, DurableIsStable, Published, Sound, logvars
<1> QED
  BY <1>u, <1>1, <1>3, <1>4
 , Zenon DEF Inv, Idle, Ended, Closed, Down, HistoryIsComplete, DepthIsAccurate

(* close flushes and syncs once the persister has ended. *)
LEMMA InvCloseEnd == Inv /\ CloseEnd => Inv' /\ Hist' = Hist
<1> SUFFICES ASSUME Inv, CloseEnd PROVE Inv' /\ Hist' = Hist
  OBVIOUS
<1>t. TypeOK /\ LogTypeOK /\ mode = "closing"
  BY Zenon DEF Inv, CloseEnd, TypeOK
<1>u. /\ UNCHANGED <<queue, depth, uncounted, inflight, persister, syncer, synced_to, durable>>
      /\ UNCHANGED <<next, expected, max_records, opened>>
  BY Zenon DEF CloseEnd, taskvars, fixed
<1>1. CASE persister = "gone" /\ mode' = "close_failed" /\ UNCHANGED <<logvars, faults>>
  <2>1. LogTypeOK' /\ Hist' = Hist
    BY <1>t, <1>u, <1>1, Zenon DEF LogTypeOK, Hist, logvars
  <2>2. TypeOK'
    BY <1>t, <1>u, <1>1, <2>1, Zenon DEF TypeOK
  <2>3. DurableIsStable' /\ Published'
    BY <1>t, <1>u, <1>1, Zenon DEF Inv, DurableIsStable, Published, Sound, logvars
  <2> QED
    BY <1>t, <1>u, <1>1, <2>1, <2>2, <2>3
   , Zenon DEF Inv, Idle, Ended, Closed, Down, HistoryIsComplete, DepthIsAccurate
<1>2. ASSUME persister = "exited", NEW res \in CommitResults, FlushAndSync(res),
             mode' = IF res = "ok" THEN "closed" ELSE "close_failed"
      PROVE  Inv' /\ Hist' = Hist
  <2>f. /\ res \in Results /\ LogTypeOK' /\ LogGrows
        /\ committed' \o buf' = committed \o buf
        /\ res = "ok" => buf' = <<>> /\ (Sound' => stable' = Len(committed'))
    BY <1>t, <1>2, FlushFacts, Zenon
  <2>n. /\ Len(committed) \in Nat /\ Len(committed') \in Nat /\ Len(committed) <= Len(committed')
        /\ stable \in Int /\ stable' \in Int /\ stable <= stable' /\ (Sound' => Sound)
        /\ durable \in Int /\ synced_to \in Int /\ opened \in Nat
    BY <1>t, <2>f DEF TypeOK, LogTypeOK, LogGrows
  <2>1. mode' \in {"closed", "close_failed"} /\ (mode' = "closed" => res = "ok")
    BY <1>2, Zenon
  <2>2. TypeOK'
    BY <1>t, <1>u, <2>f, <2>1, Zenon DEF TypeOK
  <2>3. Hist' = Hist
    BY <1>t, <1>u, <2>f, <2>2, FlushKeeps, Zenon
  <2>4. DurableIsStable'
    BY <1>t, <1>u, <2>n DEF Inv, DurableIsStable
  <2>5. Published'
    BY <1>t, <1>u, <2>n DEF Inv, Published
  <2>6. Closed'
    BY <1>u, <1>2, <2>f, <2>1, Zenon DEF Closed
  <2> QED
    BY <1>t, <1>u, <1>2, <2>1, <2>2, <2>3, <2>4, <2>5, <2>6
   , Zenon DEF Inv, Idle, Ended, Down, HistoryIsComplete, DepthIsAccurate
<1> QED BY <1>1, <1>2, Zenon DEF CloseEnd, PersisterDone

(* A crash leaves a prefix of the history, and all that is stable of it. *)
LEMMA CrashFacts ==
  ASSUME TypeOK, Crash
  PROVE  /\ committed' \in Seq(Tx) /\ Len(committed') <= Len(Hist) /\ Len(committed') \in Nat
         /\ committed' = SubSeq(Hist, 1, Len(committed'))
         /\ stable <= Len(committed') /\ stable' \in 0..Len(committed') /\ gap' \in BOOLEAN
<1>t. /\ committed \in Seq(Tx) /\ buf \in Seq(Tx) /\ readable \in 0..Len(committed)
      /\ stable \in 0..readable /\ left \subseteq 1..Len(buf)
      /\ Len(committed) \in Nat /\ Len(buf) \in Nat
  BY LenProperties, Zenon DEF TypeOK, LogTypeOK
<1>h. /\ Hist \in Seq(Tx) /\ Hist = (committed \o buf) \o (inflight \o queue)
      /\ Hist = committed \o (buf \o (inflight \o queue))
      /\ committed \o buf \in Seq(Tx) /\ inflight \o queue \in Seq(Tx)
      /\ buf \o (inflight \o queue) \in Seq(Tx) /\ Len(Hist) \in Nat
      /\ Len(committed) <= Len(committed \o buf) /\ Len(committed \o buf) <= Len(Hist)
      /\ Len(committed \o buf) \in Nat
  BY HistParts, LenProperties, Zenon DEF Hist
<1>0. PICK kind \in Crashes : \E s \in Surviving(kind) :
        /\ committed' = SubSeq(committed, 1, s.kept) \o SubSeq(buf, 1, s.more)
        /\ stable' = IF kind = "power" THEN Len(committed') ELSE stable
        /\ gap' = (gap /\ kind # "power")
  BY Zenon DEF Crash
<1>1. PICK s \in Surviving(kind) :
        /\ committed' = SubSeq(committed, 1, s.kept) \o SubSeq(buf, 1, s.more)
        /\ stable' = IF kind = "power" THEN Len(committed') ELSE stable
        /\ gap' = (gap /\ kind # "power")
  BY <1>0, Zenon
<1>g. gap' \in BOOLEAN
  BY <1>1, Zenon
<1>2. \/ s.kept \in stable..readable /\ s.more = 0
      \/ s.kept = Len(committed) /\ readable = Len(committed) /\ s.more \in {Len(buf)} \cup left
  <2>1. stable..readable \subseteq stable..readable /\ readable \in stable..readable
    BY <1>t
  <2> QED BY <1>t, <2>1 DEF Surviving
<1>5. PICK k \in 0..Len(committed), m \in 0..Len(buf) :
        /\ committed' = SubSeq(committed, 1, k) \o SubSeq(buf, 1, m)
        /\ stable <= k /\ (m = 0 \/ k = Len(committed))
  <2>1. /\ s.kept \in 0..Len(committed) /\ s.more \in 0..Len(buf)
        /\ stable <= s.kept /\ (s.more = 0 \/ s.kept = Len(committed))
    <3>1. s.more = 0 \/ s.more = Len(buf) \/ s.more \in 1..Len(buf)
      BY <1>t, <1>2, Zenon
    <3>2. s.kept \in stable..readable \/ (s.kept = Len(committed) /\ readable = Len(committed))
      BY <1>2, Zenon
    <3>3. s.more = 0 \/ s.kept = Len(committed)
      BY <1>2, Zenon
    <3>4. s.more \in 0..Len(buf)
      BY <1>t, <3>1
    <3>5. s.kept \in 0..Len(committed) /\ stable <= s.kept
      BY <1>t, <3>2
    <3> QED BY <3>3, <3>4, <3>5
  <2> QED BY <1>1, <2>1, Zenon
<1>s. \/ stable' = Len(committed') \/ stable' = stable
  BY <1>1, Zenon
<1>6. /\ SubSeq(Hist, 1, k) = SubSeq(committed, 1, k)
      /\ SubSeq(committed, 1, k) \in Seq(Tx) /\ Len(SubSeq(committed, 1, k)) = k
  BY <1>t, <1>h, <1>5, CutOfConcat
<1>7. SubSeq(committed, 1, Len(committed)) = committed
  <2>1. SubSeq(committed \o <<>>, 1, Len(committed)) = committed
    BY <1>t, EmptySeq, PrefixOfConcat
  <2> QED BY <1>t, <2>1, ConcatEmptySeq
<1>8. /\ committed' \in Seq(Tx) /\ Len(committed') <= Len(Hist) /\ Len(committed') \in Nat
      /\ committed' = SubSeq(Hist, 1, Len(committed')) /\ stable <= Len(committed')
  <2>1. CASE m = 0
    <3>1. SubSeq(buf, 1, 0) = <<>>
      <4>1. /\ SubSeq(buf \o <<>>, 1, 0) = SubSeq(buf, 1, 0)
            /\ SubSeq(buf, 1, 0) \in Seq(Tx) /\ Len(SubSeq(buf, 1, 0)) = 0
        BY <1>t, EmptySeq, CutOfConcat
      <4> QED BY <4>1, EmptySeq
    <3>2. committed' = SubSeq(committed, 1, k) \o <<>>
      BY <1>5, <2>1, <3>1
    <3>3. committed' = SubSeq(committed, 1, k)
      BY <1>6, <3>2, ConcatEmptySeq
    <3>4. committed' \in Seq(Tx) /\ Len(committed') = k /\ committed' = SubSeq(Hist, 1, k)
      BY <1>6, <3>3
    <3>5. k \in Nat /\ k <= Len(committed) /\ Len(committed) <= Len(Hist)
      <4> DEFINE n == Len(committed \o buf)
      <4>1. n \in Nat /\ Len(committed) <= n /\ n <= Len(Hist)
        BY <1>h
      <4> HIDE DEF n
      <4> QED BY <1>t, <1>h, <4>1
    <3> QED BY <1>t, <1>h, <1>5, <3>4, <3>5
  <2>2. CASE k = Len(committed)
    <3>1. committed' = committed \o SubSeq(buf, 1, m)
      BY <1>5, <1>7, <2>2, Zenon
    <3>2. /\ SubSeq(committed \o buf, 1, Len(committed) + m) = committed \o SubSeq(buf, 1, m)
          /\ committed \o SubSeq(buf, 1, m) \in Seq(Tx)
          /\ Len(committed \o SubSeq(buf, 1, m)) = Len(committed) + m
      <4>1. committed \in Seq(Tx) /\ buf \in Seq(Tx) /\ m \in 0..Len(buf)
        BY <1>t
      <4> QED BY ONLY <4>1, CutInSecond
    <3>3. /\ committed' \in Seq(Tx) /\ Len(committed') = Len(committed) + m
          /\ committed' = SubSeq(committed \o buf, 1, Len(committed'))
      BY <3>1, <3>2, Zenon
    <3>4. Len(committed \o buf) = Len(committed) + Len(buf)
      BY <1>t, ConcatProperties, Zenon
    <3>5. /\ Len(committed') \in 0..Len(committed \o buf) /\ Len(committed') \in Nat
          /\ stable <= Len(committed') /\ Len(committed') <= Len(Hist)
      <4> DEFINE n == Len(committed \o buf)  l == Len(committed')
      <4>1. /\ n = Len(committed) + Len(buf) /\ l = Len(committed) + m /\ n <= Len(Hist)
        BY <1>h, <3>3, <3>4, Zenon
      <4> HIDE DEF n, l
      <4>2. l \in 0..n /\ l \in Nat /\ stable <= l /\ l <= Len(Hist)
        BY <1>t, <1>h, <4>1
      <4> QED BY <4>2, Zenon DEF n, l
    <3>6. SubSeq(Hist, 1, Len(committed')) = SubSeq(committed \o buf, 1, Len(committed'))
      <4>1. SubSeq((committed \o buf) \o (inflight \o queue), 1, Len(committed'))
              = SubSeq(committed \o buf, 1, Len(committed'))
        <5> DEFINE l == Len(committed')  a == committed \o buf  b == inflight \o queue
        <5>1. l \in 0..Len(a) /\ a \in Seq(Tx) /\ b \in Seq(Tx)
          BY <1>h, <3>5
        <5> HIDE DEF l, a, b
        <5>2. SubSeq(a \o b, 1, l) = SubSeq(a, 1, l)
          BY <5>1, CutOfConcat
        <5> QED BY <5>2, Zenon DEF l, a, b
      <4> QED BY <1>h, <4>1, Zenon
    <3> QED BY <3>3, <3>5, <3>6, Zenon
  <2> QED BY <1>5, <2>1, <2>2, Zenon
<1>9. stable' \in 0..Len(committed')
  BY <1>t, <1>8, <1>s
<1> QED BY <1>8, <1>9, <1>g, Zenon

(* A crash keeps the invariant, and the history becomes what the log holds. *)
LEMMA InvCrash == Inv /\ Crash => Inv' /\ Hist' = committed'
<1> SUFFICES ASSUME Inv, Crash PROVE Inv' /\ Hist' = committed'
  OBVIOUS
<1>t. TypeOK /\ <<>> \in Seq(Tx) /\ 0 \in 0..(DepthMod - 1) /\ Len(<<>>) = 0
  BY EmptySeq, LocalDurabilityAssumption DEF Inv
<1>c. /\ committed' \in Seq(Tx) /\ stable' \in 0..Len(committed') /\ gap' \in BOOLEAN
      /\ Len(committed') \in Nat
  BY <1>t, CrashFacts, Zenon
<1>u. /\ mode' = "down" /\ buf' = <<>> /\ queue' = <<>> /\ inflight' = <<>>
      /\ uncounted' = 0 /\ depth' = 0 /\ persister' = "gone" /\ syncer' = "gone"
      /\ log' = "ok" /\ readable' = Len(committed') /\ torn' = FALSE /\ left' = {}
      /\ UNCHANGED <<synced_to, durable, next, expected, max_records, opened>>
      /\ faults > 0 /\ faults' = faults - 1
  BY Zenon DEF Crash, fixed
<1>1. TypeOK'
  <2>1. faults' \in 0..MaxFaults
    BY <1>t, <1>u, LocalDurabilityAssumption DEF TypeOK, LogTypeOK
  <2>2. readable' \in 0..Len(committed') /\ stable' \in 0..readable'
    BY <1>c, <1>u
  <2>3. LogTypeOK'
    BY <1>t, <1>c, <1>u, <2>1, <2>2, Zenon DEF LogTypeOK
  <2> QED BY <1>t, <1>u, <2>3, Zenon DEF TypeOK
<1>2. Hist' = committed'
  <2>1. Hist' = Cat(committed', Cat(<<>>, Cat(<<>>, <<>>)))
    BY <1>u DEF Hist, Cat
  <2>2. committed' \in Txs
    BY <1>c, Zenon DEF Txs
  <2> QED BY <2>1, <2>2, CatLaws
<1> QED
  BY <1>u, <1>1, <1>2
 , Zenon DEF Inv, Idle, Ended, Closed, Down, HistoryIsComplete, DepthIsAccurate,
      DurableIsStable, Published

(* Opening the log makes what it holds the history. *)
LEMMA InvReopen == Inv /\ Reopen => Inv' /\ Hist' = Hist /\ Hist = committed
<1> SUFFICES ASSUME Inv, Reopen PROVE Inv' /\ Hist' = Hist /\ Hist = committed
  BY Zenon
<1>t. /\ TypeOK /\ LogTypeOK
      /\ buf = <<>> /\ inflight = <<>> /\ queue = <<>> /\ uncounted = 0 /\ depth = 0
  BY Zenon DEF Inv, Reopen, Restart, Down, TypeOK
<1>u. /\ mode = "down" /\ mode' = "open" /\ persister' = "recv" /\ syncer' = "tick"
      /\ expected' = committed /\ durable' = Len(committed) - 1 /\ opened' = Len(committed)
      /\ UNCHANGED <<queue, depth, uncounted, buf, committed, readable, stable, torn, left, log>>
      /\ UNCHANGED <<inflight, synced_to, next, faults, max_records>>
  BY DEF Reopen, Restart
<1>g. gap' \in BOOLEAN
  <2>1. gap' \in {gap, gap \/ stable < Len(committed)}
    BY Zenon DEF Reopen, Restart
  <2> QED BY <1>t, <2>1, Zenon DEF LogTypeOK
<1>n. Len(committed) \in Nat /\ Len(queue) = 0 /\ committed \in Seq(Tx)
  BY <1>t, LenProperties, EmptySeq, Zenon DEF LogTypeOK
<1>1. TypeOK'
  <2>1. LogTypeOK'
    BY <1>t, <1>u, <1>g, Zenon DEF LogTypeOK
  <2> QED BY <1>t, <1>u, <1>n, <2>1 DEF TypeOK
<1>2. Hist' = Hist /\ Hist = committed
  <2>1. Hist = Cat(committed, Cat(<<>>, Cat(<<>>, <<>>))) /\ Hist' = Hist
    BY <1>t, <1>u DEF Hist, Cat
  <2>2. committed \in Txs
    BY <1>n, Zenon DEF Txs
  <2> QED BY <2>1, <2>2, CatLaws
<1>3. DepthIsAccurate'
  BY <1>t, <1>u, <1>n DEF DepthIsAccurate
<1>4. DurableIsStable' /\ Published'
  BY <1>u, <1>n DEF DurableIsStable, Published
<1> QED
  BY <1>t, <1>u, <1>1, <1>2, <1>3, <1>4
 , Zenon DEF Inv, Idle, Ended, Closed, Down, HistoryIsComplete

----------------------------------------------------------------------------
(* The theorems *)

LEMMA InvStep == Inv /\ [Next]_vars => Inv'
<1> SUFFICES ASSUME Inv, [Next]_vars PROVE Inv'
  BY Zenon
<1>1. CASE UNCHANGED vars
  <2>1. /\ UNCHANGED <<logvars, faults, syncer, synced_to, durable, mode, opened>>
        /\ UNCHANGED <<queue, depth, uncounted, inflight, persister, next, expected, max_records>>
    BY <1>1, Zenon DEF vars, taskvars, fixed
  <2>2. LogTypeOK' /\ DurableIsStable' /\ Published'
    BY <2>1, SameLog, Zenon
  <2>3. TypeOK' /\ Hist' = Hist
    BY <2>1, <2>2, Zenon DEF Inv, TypeOK, Hist, logvars
  <2> QED
    BY <2>1, <2>2, <2>3
   , Zenon DEF Inv, Idle, Ended, Closed, Down, Sound, HistoryIsComplete, DepthIsAccurate, logvars
<1>2. CASE Next
  BY <1>2, InvAppendTx, InvCountTx, InvPersisterRecv, InvPersisterCount, InvPersisterExit,
     InvPersisterAppend, InvPersisterFlushAppend, InvPersisterFlush, InvPersisterPanic,
     InvSyncerTick, InvSyncerSync, InvSyncerAbort, InvSyncerStore, InvCloseBegin, InvCloseEnd,
     InvCrash, InvReopen
 , Zenon DEF Next
<1> QED BY <1>1, <1>2

(* The inductive invariant holds in every state of every behaviour. *)
THEOREM Invariance == Spec => []Inv
BY InvInit, InvStep, PTL DEF Spec

(* The variables of durability::Local keep their types; in particular what   *)
(* is stable can be read, and what can be read was committed.                *)
THEOREM TypeCorrect == Spec => []TypeOK
<1>1. Inv => TypeOK
  BY DEF Inv
<1> QED BY <1>1, Invariance, PTL

(* Until the persister panics, no transaction is lost, repeated or reordered *)
(* on its way from append_tx through the queue, the PersisterTask and the    *)
(* buffer into the log, whatever the FlushAndSyncTask does to the log        *)
(* meanwhile and whichever commits fail.                                     *)
THEOREM HistoryComplete == Spec => []HistoryIsComplete
<1>1. Inv => HistoryIsComplete
  BY DEF Inv
<1> QED BY <1>1, Invariance, PTL

(* While no write error has abandoned unsynced records and the log can be    *)
(* read to its end, the durable offset the FlushAndSyncTask has published,   *)
(* or is about to, is on stable storage.                                     *)
THEOREM DurableStable == Spec => []DurableIsStable
<1>1. Inv => DurableIsStable
  BY Zenon DEF Inv
<1> QED BY <1>1, Invariance, PTL

(* When close returned Ok, everything submitted is committed, and, unless    *)
(* the log was damaged by a write error, on stable storage.                  *)
THEOREM CloseComplete == Spec => []CloseIsComplete
<1>1. Inv => CloseIsComplete
  <2> SUFFICES ASSUME Inv, mode = "closed"
               PROVE  Hist = committed /\ (Sound => stable = Len(committed))
    BY DEF CloseIsComplete
  <2>1. /\ buf = <<>> /\ inflight = <<>> /\ queue = <<>>
        /\ Sound => stable = Len(committed)
    BY Zenon DEF Inv, Closed, Idle, Ended
  <2>2. Hist = Cat(committed, Cat(<<>>, Cat(<<>>, <<>>))) /\ committed \in Txs
    BY <2>1 DEF Hist, Cat, Inv, TypeOK, LogTypeOK, Txs
  <2> QED BY <2>1, <2>2, CatLaws
<1> QED BY <1>1, Invariance, PTL

(* queue_depth accounts for the queue, modulo its width, once the send and   *)
(* the receipt in progress are counted.                                      *)
THEOREM DepthAccurate == Spec => []DepthIsAccurate
<1>1. Inv => DepthIsAccurate
  BY DEF Inv
<1> QED BY <1>1, Invariance, PTL

----------------------------------------------------------------------------
(* Refinement *)

(* Losing the end of the history, but nothing that was reported durable *)
LEMMA LoseStep ==
  ASSUME Inv, mode # "down", Kept, UNCHANGED durable
  PROVE  [History!Next]_(History!hvars)
<1>1. CASE Hist' = Hist
  BY <1>1 DEF History!hvars
<1>2. CASE Hist' = committed \o buf
  <2> DEFINE n == Len(committed \o buf)
  <2>1. /\ committed \o buf \in Seq(Tx) /\ inflight \o queue \in Seq(Tx) /\ Hist \in Seq(Tx)
        /\ Len(committed) <= n /\ n <= Len(Hist) /\ committed \in Seq(Tx)
        /\ Hist = (committed \o buf) \o (inflight \o queue)
    BY HistParts, Zenon DEF Inv, TypeOK, LogTypeOK
  <2>2. n \in 0..Len(Hist) /\ durable < n
    <3>1. n \in Nat /\ Len(Hist) \in Nat /\ Len(committed) \in Nat
      BY <2>1, LenProperties
    <3>2. durable \in Int /\ durable < Len(committed)
      BY DEF Inv, TypeOK, Published
    <3> HIDE DEF n
    <3> QED BY <2>1, <3>1, <3>2
  <2>3. SubSeq(Hist, 1, n) = committed \o buf
    BY <2>1, PrefixOfConcat, Zenon
  <2>4. Hist' = SubSeq(Hist, 1, n)
    BY <1>2, <2>3
  <2> HIDE DEF n
  <2>5. History!Lose
    BY <2>2, <2>4 DEF History!Lose
  <2> QED BY <2>5, Zenon DEF History!Next
<1> QED BY <1>1, <1>2 DEF Kept

(* Reporting a larger offset as durable *)
LEMMA PersistStep ==
  ASSUME Inv, Hist' = Hist, durable' \in Int, durable <= durable', durable' < Len(committed)
  PROVE  [History!Next]_(History!hvars)
<1>1. /\ Len(committed) <= Len(committed \o buf) /\ Len(committed \o buf) <= Len(Hist)
      /\ committed \in Seq(Tx) /\ committed \o buf \in Seq(Tx) /\ Hist \in Seq(Tx)
  BY HistParts DEF Inv, TypeOK, LogTypeOK
<1>2. Len(committed) \in Nat /\ Len(committed \o buf) \in Nat /\ Len(Hist) \in Nat
  BY <1>1, LenProperties
<1>3. durable' < Len(Hist)
  <2> DEFINE n == Len(committed \o buf)
  <2>1. Len(committed) <= n /\ n <= Len(Hist) /\ n \in Nat
    BY <1>1, <1>2
  <2> HIDE DEF n
  <2> QED BY <1>2, <2>1
<1>4. History!Persist
  BY <1>3 DEF History!Persist
<1> QED BY <1>4, Zenon DEF History!Next

(* Tasks only work while the process runs. *)
LEMMA Running ==
  ASSUME Inv, \/ PersisterAppend \/ PersisterFlushAppend \/ PersisterFlush \/ PersisterPanic
              \/ SyncerAbort \/ SyncerStore
  PROVE  mode # "down"
BY DEF Inv, Down, PersisterAppend, PersisterFlushAppend, PersisterFlush, PersisterPanic,
       SyncerAbort, SyncerStore

LEMMA NextRefines ==
  ASSUME Inv, [Next]_vars, durable < stable \/ "down" \notin {mode, mode'}
  PROVE  [History!Next]_(History!hvars)
<1>1. CASE UNCHANGED vars
  BY <1>1 DEF vars, logvars, taskvars, History!hvars, Hist
<1>2. CASE AppendTx
  <2>1. Hist' = Append(Hist, next) /\ next \in Tx /\ durable' = durable
    BY <1>2, AppendKeeps DEF Inv
  <2>2. History!Submit
    BY <2>1, Zenon DEF History!Submit
  <2> QED BY <2>2 DEF History!Next
<1>3. CASE CountTx
  BY <1>3 DEF CountTx, logvars, taskvars, Hist, History!hvars
<1>4. CASE \/ PersisterRecv \/ PersisterCount \/ PersisterExit \/ SyncerTick \/ SyncerSync
           \/ CloseBegin \/ CloseEnd
  <2>1. Hist' = Hist
    BY <1>4, InvPersisterRecv, InvPersisterCount, InvPersisterExit, InvSyncerTick, InvSyncerSync,
       InvCloseBegin, InvCloseEnd, Zenon
  <2>2. durable' = durable
    BY <1>4
    DEF PersisterRecv, PersisterCount, PersisterExit, SyncerTick, SyncerSync, CloseBegin, CloseEnd
  <2> QED BY <2>1, <2>2, Zenon DEF History!hvars
<1>5. CASE \/ PersisterAppend \/ PersisterFlushAppend \/ PersisterFlush \/ PersisterPanic
           \/ SyncerAbort
  <2>1. Kept
    BY <1>5, InvPersisterAppend, InvPersisterFlushAppend, InvPersisterFlush, InvPersisterPanic,
       InvSyncerAbort, Zenon
  <2>2. durable' = durable
    BY <1>5
    DEF PersisterAppend, PersisterFlushAppend, PersisterFlush, PersisterPanic, SyncerAbort
  <2>3. mode # "down"
    BY <1>5, Running, Zenon
  <2> QED BY <2>1, <2>2, <2>3, LoseStep, Zenon
<1>6. CASE SyncerStore
  <2>1. Hist' = Hist
    BY <1>6, InvSyncerStore
  <2>2. mode # "down"
    BY <1>6, Running, Zenon
  <2>3. /\ durable' = synced_to /\ synced_to \in Int /\ durable <= synced_to
        /\ synced_to < Len(committed)
    BY <1>6, <2>2, Zenon DEF SyncerStore, Inv, TypeOK, Published
  <2> QED BY <2>1, <2>3, PersistStep, Zenon
<1>7. CASE Crash
  <2>1. /\ committed' \in Seq(Tx) /\ Len(committed') <= Len(Hist) /\ Len(committed') \in Nat
        /\ committed' = SubSeq(Hist, 1, Len(committed')) /\ Hist \in Seq(Tx)
        /\ stable <= Len(committed')
    BY <1>7, CrashFacts, HistParts DEF Inv
  <2>2. Hist' = committed'
    BY <1>7, InvCrash, Zenon
  <2>3. durable' = durable /\ mode' = "down"
    BY <1>7 DEF Crash
  <2>4. durable < Len(committed')
    <3>1. durable < stable /\ durable \in Int /\ stable \in Int
      BY <2>3 DEF Inv, TypeOK, LogTypeOK
    <3> QED BY <2>1, <3>1
  <2>5. Len(committed') \in 0..Len(Hist)
    BY <2>1, LenProperties
  <2>6. History!Lose
    BY <2>1, <2>2, <2>3, <2>4, <2>5, Zenon DEF History!Lose
  <2> QED BY <2>6 DEF History!Next
<1>8. CASE Reopen
  <2>1. Hist' = Hist
    BY <1>8, InvReopen, Zenon
  <2>2. /\ durable' = Len(committed) - 1 /\ Len(committed) \in Nat /\ durable \in Int
        /\ stable \in 0..readable /\ readable \in 0..Len(committed) /\ mode = "down"
    BY <1>8, LenProperties, Zenon DEF Reopen, Restart, Inv, TypeOK, LogTypeOK
  <2>3. durable < Len(committed)
    BY <2>2
  <2> QED BY <2>1, <2>2, <2>3, PersistStep
<1> QED BY <1>1, <1>2, <1>3, <1>4, <1>5, <1>6, <1>7, <1>8, Zenon DEF Next

(* durability::Local implements what the Durability and History traits       *)
(* promise: the history only grows at its end, what is reported durable      *)
(* never shrinks, and no panic takes any of it.  Nor does a crash of either  *)
(* kind, as long as what is reported is on stable storage.  By DurableStable *)
(* that is so for what the FlushAndSyncTask reports about a sound log; it is *)
(* not for what open reports of records that were never synced, nor after a  *)
(* write error that abandoned such records.                                  *)
THEOREM Refinement == Spec => ImplementsHistory
<1>1. Init => History!Init
  <2> SUFFICES ASSUME Init PROVE Hist = <<>> /\ durable = -1
    BY Zenon DEF History!Init
  <2>1. Hist = Cat(<<>>, Cat(<<>>, Cat(<<>>, <<>>))) /\ durable = -1
    BY DEF Init, Hist, Cat
  <2>2. <<>> \in Txs
    BY EmptySeq DEF Txs
  <2> QED BY <2>1, <2>2, CatLaws
<1>2. Inv /\ [Next]_vars =>
        [durable < stable \/ "down" \notin {mode, mode'} => History!Next]_(History!hvars)
  BY NextRefines
<1> QED BY <1>1, <1>2, Invariance, PTL DEF Spec, ImplementsHistory
=============================================================================
