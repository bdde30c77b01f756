-------------------------- MODULE StatusReadProofs --------------------------
(* Proofs about StatusRead for any number of tries, requests and pages.    *)
EXTENDS StatusRead, SequenceTheorems, TLAPS

(* A packet by its fragments.                                              *)
LEMMA Packet ==
    ASSUME NEW k \in Kinds, NEW n \in Nat
    PROVE  /\ Split(k, n) \in Seq(Fragments) /\ Len(Split(k, n)) = 2
           /\ Split(k, n)[1].head /\ ~Split(k, n)[2].head
           /\ \A i \in 1 .. 2 : Split(k, n)[i].of = n /\ Split(k, n)[i].kind = k
  BY DEF Split, Fragments

(* Two sequences of fragments, one after the other.                        *)
LEMMA Joined ==
    ASSUME NEW s \in Seq(Fragments), NEW t \in Seq(Fragments)
    PROVE  /\ s \o t \in Seq(Fragments) /\ Len(s \o t) = Len(s) + Len(t)
           /\ \A i \in 1 .. Len(s) + Len(t) :
                 (s \o t)[i] = IF i <= Len(s) THEN s[i] ELSE t[i - Len(s)]
  BY ConcatProperties

(* What a read takes and what it leaves.                                   *)
LEMMA Reading ==
    ASSUME TypeOK, NEW n \in Nat, Consume(n)
    PROVE  LET p == packet \o Received(n)
               m == Smaller(n, Len(wire))
           IN /\ m \in 0 .. Len(wire) /\ m <= n /\ (m = n \/ m = Len(wire))
              /\ p \in Seq(Fragments) /\ Len(p) = Len(packet) + m
              /\ \A i \in 1 .. Len(packet) : p[i] = packet[i]
              /\ \A i \in 1 .. m : p[Len(packet) + i] = wire[i]
              /\ wire' \in Seq(Fragments) /\ Len(wire') = Len(wire) - m
              /\ \A i \in 1 .. Len(wire') : wire'[i] = wire[i + m]
<1> DEFINE m == Smaller(n, Len(wire))
           r == Received(n)
<1>1. Len(wire) \in Nat /\ m \in 0 .. Len(wire) /\ m <= n /\ (m = n \/ m = Len(wire))
  BY DEF TypeOK, Smaller
<1>2. \A i \in 1 .. Len(wire) : wire[i] \in Fragments
  BY ElementOfSeq DEF TypeOK
<1>3. r \in Seq(Fragments) /\ Len(r) = m /\ \A i \in 1 .. m : r[i] = wire[i]
  <2>1. r = SubSeq(wire, 1, m)
    BY DEF Received
  <2> HIDE DEF r
  <2>2. /\ SubSeq(wire, 1, m) \in Seq(Fragments)
        /\ Len(SubSeq(wire, 1, m)) = IF 1 <= m THEN m - 1 + 1 ELSE 0
        /\ \A i \in 1 .. m - 1 + 1 : SubSeq(wire, 1, m)[i] = wire[1 + i - 1]
    BY <1>1, <1>2, SubSeqProperties
  <2> QED
    BY <1>1, <2>1, <2>2
<1>4. /\ wire' \in Seq(Fragments) /\ Len(wire') = Len(wire) - m
      /\ \A i \in 1 .. Len(wire') : wire'[i] = wire[i + m]
  <2>1. wire' = SubSeq(wire, m + 1, Len(wire))
    BY DEF Consume
  <2>2. /\ SubSeq(wire, m + 1, Len(wire)) \in Seq(Fragments)
        /\ Len(SubSeq(wire, m + 1, Len(wire))) =
              IF m + 1 <= Len(wire) THEN Len(wire) - (m + 1) + 1 ELSE 0
        /\ \A i \in 1 .. Len(wire) - (m + 1) + 1 :
              SubSeq(wire, m + 1, Len(wire))[i] = wire[m + 1 + i - 1]
    BY <1>1, <1>2, SubSeqProperties
  <2> HIDE DEF m
  <2> QED
    BY <1>1, <2>1, <2>2
<1>5. /\ packet \o r \in Seq(Fragments) /\ Len(packet \o r) = Len(packet) + m
      /\ \A i \in 1 .. Len(packet) : (packet \o r)[i] = packet[i]
      /\ \A i \in 1 .. m : (packet \o r)[Len(packet) + i] = wire[i]
  BY <1>1, <1>3, ConcatProperties DEF TypeOK
<1> QED
  BY <1>1, <1>4, <1>5

(* What a delivery moves.                                                  *)
LEMMA Delivering ==
    ASSUME TypeOK, Deliver
    PROVE  /\ wire' \in Seq(Fragments) /\ owed' \in Seq(Fragments)
           /\ Len(wire') = Len(wire) + 1 /\ Len(owed') = Len(owed) - 1
           /\ Len(owed) \in Nat \ {0} /\ wire'[Len(wire) + 1] = owed[1]
           /\ \A i \in 1 .. Len(wire) : wire'[i] = wire[i]
           /\ \A i \in 1 .. Len(owed') : owed'[i] = owed[i + 1]
<1>1. owed \in Seq(Fragments) /\ owed # <<>> /\ wire \in Seq(Fragments)
  BY DEF TypeOK, Deliver
<1>2. Head(owed) = owed[1] /\ Head(owed) \in Fragments
  BY <1>1, HeadTailProperties
<1> QED
  BY <1>1, <1>2, HeadTailProperties, AppendProperties DEF Deliver

(* A report is whole packets of its page, the last one the ready one.      *)
LEMMA Reporting ==
    ASSUME NEW n \in Nat, NEW r \in Reports(n)
    PROVE  /\ r \in Seq(Fragments) /\ Len(r) % 2 = 0
           /\ \A i \in 1 .. Len(r) :
                 /\ r[i].head <=> (Len(r) - i) % 2 = 1
                 /\ r[i].of = n
                 /\ r[i].kind = "ready" => Len(r) - i <= 1
<1>1. CASE r = <<>>
  BY <1>1
<1>2. CASE r = Split("printing", n)
  <2>1. "printing" \in Kinds
    BY DEF Kinds
  <2>2. /\ r \in Seq(Fragments) /\ Len(r) = 2 /\ r[1].head /\ ~r[2].head
        /\ \A i \in 1 .. 2 : r[i].of = n /\ r[i].kind = "printing"
    BY <1>2, <2>1, Packet
  <2>3. ASSUME NEW i \in 1 .. 2
        PROVE  /\ r[i].head <=> (2 - i) % 2 = 1
               /\ r[i].of = n
               /\ r[i].kind = "ready" => 2 - i <= 1
    <3>1. i \in {1, 2}
      OBVIOUS
    <3>2. (2 - i) % 2 = 1 <=> i = 1
      BY <3>1
    <3>3. r[i].head <=> i = 1
      BY <2>2, <3>1
    <3> QED
      BY <2>2, <3>2, <3>3
  <2> QED
    BY <2>2, <2>3
<1>3. ASSUME NEW k \in {"completed", "error"},
             r = Split("printing", n) \o Split(k, n) \o Split("ready", n)
      PROVE  /\ r \in Seq(Fragments) /\ Len(r) % 2 = 0
             /\ \A i \in 1 .. Len(r) :
                   /\ r[i].head <=> (Len(r) - i) % 2 = 1
                   /\ r[i].of = n
                   /\ r[i].kind = "ready" => Len(r) - i <= 1
  <2> DEFINE a == Split("printing", n)
             b == Split(k, n)
             c == Split("ready", n)
  <2>1. "printing" \in Kinds /\ k \in Kinds /\ "ready" \in Kinds
    BY DEF Kinds
  <2>2. /\ a \in Seq(Fragments) /\ Len(a) = 2 /\ a[1].head /\ ~a[2].head
        /\ \A i \in 1 .. 2 : a[i].of = n /\ a[i].kind = "printing"
    BY <2>1, Packet
  <2>3. /\ b \in Seq(Fragments) /\ Len(b) = 2 /\ b[1].head /\ ~b[2].head
        /\ \A i \in 1 .. 2 : b[i].of = n /\ b[i].kind = k
    BY <2>1, Packet
  <2>4. /\ c \in Seq(Fragments) /\ Len(c) = 2 /\ c[1].head /\ ~c[2].head
        /\ \A i \in 1 .. 2 : c[i].of = n /\ c[i].kind = "ready"
    BY <2>1, Packet
  <2>5. r = (a \o b) \o c
    BY <1>3
  <2> HIDE DEF a, b, c
  <2>6. /\ a \o b \in Seq(Fragments) /\ Len(a \o b) = Len(a) + Len(b)
        /\ \A i \in 1 .. Len(a) + Len(b) :
              (a \o b)[i] = IF i <= Len(a) THEN a[i] ELSE b[i - Len(a)]
    BY <2>2, <2>3, Joined
  <2>7. /\ r \in Seq(Fragments) /\ Len(r) = Len(a \o b) + Len(c)
        /\ \A i \in 1 .. Len(a \o b) + Len(c) :
              r[i] = IF i <= Len(a \o b) THEN (a \o b)[i] ELSE c[i - Len(a \o b)]
    BY <2>4, <2>5, <2>6, Joined
  <2>8. Len(r) = 6 /\ r[1] = a[1] /\ r[2] = a[2] /\ r[3] = b[1] /\ r[4] = b[2]
        /\ r[5] = c[1] /\ r[6] = c[2]
    BY <2>2, <2>3, <2>4, <2>6, <2>7
  <2>9. ASSUME NEW i \in 1 .. 6
        PROVE  /\ r[i].head <=> (6 - i) % 2 = 1
               /\ r[i].of = n
               /\ r[i].kind = "ready" => 6 - i <= 1
    <3>1. i \in {1, 2, 3, 4, 5, 6}
      OBVIOUS
    <3>2. r[i].head <=> i \in {1, 3, 5}
      BY <2>2, <2>3, <2>4, <2>8, <3>1
    <3>3. (6 - i) % 2 = 1 <=> i \in {1, 3, 5}
      BY <3>1
    <3>4. r[i].of = n /\ (r[i].kind = "ready" => i \in {5, 6})
      BY <2>2, <2>3, <2>4, <2>8, <3>1
    <3> QED
      BY <3>2, <3>3, <3>4
  <2>10. Len(r) = 6
    BY <2>8
  <2>11. r \in Seq(Fragments)
    BY <2>7
  <2>12. Len(r) % 2 = 0
    BY <2>10
  <2> QED
    BY <2>9, <2>10, <2>11, <2>12
<1> QED
  BY <1>1, <1>2, <1>3 DEF Reports

(* Whole packets more do not change which fragments begin a packet.        *)
LEMMA EvenAdded ==
    \A x, y \in Nat : y % 2 = 0 => (x + y) % 2 = x % 2
  OBVIOUS

(* The end of a paired sequence is paired.                                 *)
LEMMA PairedSuffix ==
    ASSUME NEW s \in Seq(Fragments), NEW t \in Seq(Fragments), NEW k \in Nat,
           NEW a \in Nat, Len(t) = Len(s) - k,
           \A i \in 1 .. Len(t) : t[i] = s[i + k], Paired(s, a)
    PROVE  Paired(t, a)
<1> SUFFICES ASSUME NEW i \in 1 .. Len(t)
    PROVE  t[i].head <=> (Len(t) - i + a) % 2 = 1
  BY DEF Paired
<1>1. i + k \in 1 .. Len(s) /\ Len(s) - (i + k) + a = Len(t) - i + a
  OBVIOUS
<1>2. s[i + k].head <=> (Len(s) - (i + k) + a) % 2 = 1
  BY <1>1 DEF Paired
<1> QED
  BY <1>1, <1>2

LEMMA PairedTail ==
    ASSUME NEW s \in Seq(Fragments), NEW t \in Seq(Fragments), Len(t) = Len(s) - 1,
           \A i \in 1 .. Len(t) : t[i] = s[i + 1], Paired(s, 0)
    PROVE  Paired(t, 0)
<1>1. 1 \in Nat /\ 0 \in Nat
  OBVIOUS
<1> QED
  BY <1>1, PairedSuffix

(* Whole packets after it keep a sequence paired.                          *)
LEMMA PairedBefore ==
    ASSUME NEW s \in Seq(Fragments), NEW a \in Nat, NEW y \in Nat, y % 2 = 0,
           Paired(s, a)
    PROVE  Paired(s, a + y)
<1> SUFFICES ASSUME NEW i \in 1 .. Len(s)
    PROVE  s[i].head <=> (Len(s) - i + (a + y)) % 2 = 1
  BY DEF Paired
<1>1. Len(s) - i + a \in Nat /\ Len(s) - i + (a + y) = (Len(s) - i + a) + y
  OBVIOUS
<1>2. (Len(s) - i + (a + y)) % 2 = (Len(s) - i + a) % 2
  BY <1>1, EvenAdded
<1> QED
  BY <1>2 DEF Paired

(* Whole packets appended to a paired sequence leave it paired.            *)
LEMMA PairedJoined ==
    ASSUME NEW s \in Seq(Fragments), NEW t \in Seq(Fragments),
           NEW r \in Seq(Fragments), Len(r) % 2 = 0, Len(t) = Len(s) + Len(r),
           \A i \in 1 .. Len(s) + Len(r) :
              t[i] = IF i <= Len(s) THEN s[i] ELSE r[i - Len(s)],
           Paired(s, 0), Paired(r, 0)
    PROVE  Paired(t, 0)
<1> SUFFICES ASSUME NEW i \in 1 .. Len(t)
    PROVE  t[i].head <=> (Len(t) - i + 0) % 2 = 1
  BY DEF Paired
<1>1. CASE i <= Len(s)
  <2>1. i \in 1 .. Len(s) /\ Len(s) - i \in Nat /\ Len(r) \in Nat
    BY <1>1
  <2>2. i \in 1 .. Len(s) /\ Len(s) - i \in Nat /\ Len(r) \in Nat /\ t[i] = s[i]
    BY <1>1, <2>1
  <2>3. ((Len(s) - i) + Len(r)) % 2 = (Len(s) - i) % 2
    BY <2>2, EvenAdded
  <2>4. Len(t) - i + 0 = (Len(s) - i) + Len(r) /\ Len(s) - i + 0 = Len(s) - i
    BY <1>1
  <2>5. s[i].head <=> (Len(s) - i + 0) % 2 = 1
    BY <2>2 DEF Paired
  <2> QED
    BY <2>2, <2>3, <2>5, <2>4
<1>2. CASE i > Len(s)
  <2>1. i - Len(s) \in 1 .. Len(r) /\ t[i] = r[i - Len(s)]
        /\ Len(r) - (i - Len(s)) + 0 = Len(t) - i + 0
    BY <1>2
  <2>2. r[i - Len(s)].head <=> (Len(r) - (i - Len(s)) + 0) % 2 = 1
    BY <2>1 DEF Paired
  <2> QED
    BY <2>1, <2>2
<1> QED
  BY <1>1, <1>2

(* A read takes the beginning of a paired stream.                          *)
LEMMA PairedRead ==
    ASSUME TypeOK, PairInv, NEW n \in Nat, Consume(n)
    PROVE  /\ Paired(packet \o Received(n), Len(wire') + Len(owed))
           /\ Paired(wire', Len(owed))
<1> DEFINE a == packet
           w == wire
           p == packet \o Received(n)
           v == wire'
           m == Smaller(n, Len(wire))
           o == Len(owed)
<1>1. /\ m \in 0 .. Len(w)
      /\ p \in Seq(Fragments) /\ Len(p) = Len(a) + m
      /\ \A i \in 1 .. Len(a) : p[i] = a[i]
      /\ \A i \in 1 .. m : p[Len(a) + i] = w[i]
      /\ v \in Seq(Fragments) /\ Len(v) = Len(w) - m
      /\ \A i \in 1 .. Len(v) : v[i] = w[i + m]
  BY Reading
<1>2. a \in Seq(Fragments) /\ w \in Seq(Fragments) /\ o \in Nat
      /\ Len(a) \in Nat /\ Len(w) \in Nat
  BY DEF TypeOK
<1>3. Paired(a, Len(w) + o) /\ Paired(w, o)
  BY DEF PairInv
<1> HIDE DEF a, w, p, v, m, o
<1>4. Paired(v, o)
  <2>1. m \in Nat /\ Len(v) = Len(w) - m /\ v \in Seq(Fragments)
        /\ \A i \in 1 .. Len(v) : v[i] = w[i + m]
    BY <1>1
  <2> QED
    BY <1>2, <1>3, <2>1, PairedSuffix
<1>5. ASSUME NEW i \in 1 .. Len(p)
      PROVE  p[i].head <=> (Len(p) - i + (Len(v) + o)) % 2 = 1
  <2>1. CASE i <= Len(a)
    <3>1. i \in 1 .. Len(a) /\ p[i] = a[i]
          /\ Len(a) - i + (Len(w) + o) = Len(p) - i + (Len(v) + o)
      BY <1>1, <1>2, <2>1
    <3>2. a[i].head <=> (Len(a) - i + (Len(w) + o)) % 2 = 1
      BY <1>3, <3>1 DEF Paired
    <3> QED
      BY <3>1, <3>2
  <2>2. CASE i > Len(a)
    <3> DEFINE j == i - Len(a)
    <3>1. j \in 1 .. m /\ Len(a) + j = i
          /\ Len(w) - j + o = Len(p) - i + (Len(v) + o)
      BY <1>1, <1>2, <2>2
    <3>2. p[i] = w[j]
      <4>1. p[Len(a) + j] = w[j]
        BY <1>1, <3>1
      <4> QED
        BY <3>1, <4>1
    <3>3. w[j].head <=> (Len(w) - j + o) % 2 = 1
      <4>1. j \in 1 .. Len(w)
        BY <1>1, <1>2, <3>1
      <4> QED
        BY <1>3, <4>1 DEF Paired
    <3> QED
      BY <3>1, <3>2, <3>3
  <2> QED
    BY <2>1, <2>2
<1> QED
  BY <1>4, <1>5 DEF Paired, p, v, o

(* A read takes the beginning of a page's notices.                         *)
LEMMA OfPageRead ==
    ASSUME TypeOK, NoticeInv, pc = "await", NEW n \in Nat, Consume(n)
    PROVE  /\ OfPage(packet \o Received(n), Len(wire') + Len(owed))
           /\ OfPage(wire', Len(owed))
<1> DEFINE a == packet
           w == wire
           p == packet \o Received(n)
           v == wire'
           m == Smaller(n, Len(wire))
           o == Len(owed)
<1>1. /\ m \in 0 .. Len(w)
      /\ p \in Seq(Fragments) /\ Len(p) = Len(a) + m
      /\ \A i \in 1 .. Len(a) : p[i] = a[i]
      /\ \A i \in 1 .. m : p[Len(a) + i] = w[i]
      /\ v \in Seq(Fragments) /\ Len(v) = Len(w) - m
      /\ \A i \in 1 .. Len(v) : v[i] = w[i + m]
  BY Reading
<1>2. a \in Seq(Fragments) /\ w \in Seq(Fragments) /\ o \in Nat
      /\ Len(a) \in Nat /\ Len(w) \in Nat
  BY DEF TypeOK
<1>3. OfPage(a, Len(w) + o) /\ OfPage(w, o)
  BY DEF NoticeInv
<1> HIDE DEF a, w, p, v, m, o
<1>4. ASSUME NEW i \in 1 .. Len(v), v[i].kind # "reply"
      PROVE  v[i].of = pages /\ (v[i].kind = "ready" => Len(v) - i + o <= 1)
  <2>1. i + m \in 1 .. Len(w) /\ v[i] = w[i + m]
    BY <1>1, <1>2
  <2>2. w[i + m].of = pages
        /\ (w[i + m].kind = "ready" => Len(w) - (i + m) + o <= 1)
    BY <1>3, <1>4, <2>1 DEF OfPage
  <2>3. Len(w) - (i + m) + o = Len(v) - i + o
    BY <1>1, <1>2
  <2> QED
    BY <2>1, <2>2, <2>3
<1>5. ASSUME NEW i \in 1 .. Len(p), p[i].kind # "reply"
      PROVE  p[i].of = pages
             /\ (p[i].kind = "ready" => Len(p) - i + (Len(v) + o) <= 1)
  <2>1. CASE i <= Len(a)
    <3>1. i \in 1 .. Len(a) /\ p[i] = a[i]
          /\ Len(a) - i + (Len(w) + o) = Len(p) - i + (Len(v) + o)
      BY <1>1, <1>2, <2>1
    <3> QED
      BY <1>3, <1>5, <3>1 DEF OfPage
  <2>2. CASE i > Len(a)
    <3> DEFINE j == i - Len(a)
    <3>1. j \in 1 .. m /\ Len(a) + j = i
          /\ Len(w) - j + o = Len(p) - i + (Len(v) + o)
      BY <1>1, <1>2, <2>2
    <3>2. p[i] = w[j]
      <4>1. p[Len(a) + j] = w[j]
        BY <1>1, <3>1
      <4> QED
        BY <3>1, <4>1
    <3>3. j \in 1 .. Len(w)
      BY <1>1, <1>2, <3>1
    <3> QED
      BY <1>3, <1>5, <3>1, <3>2, <3>3 DEF OfPage
  <2> QED
    BY <2>1, <2>2
<1> QED
  BY <1>4, <1>5 DEF OfPage, p, v, o

(* One step of the reader, the printer, the connection or an owner.        *)
LEMMA InvStep ==
    ASSUME TypeOK, StepInv, PairInv, NoticeInv, SnapshotInv, [Next]_vars
    PROVE  TypeOK' /\ StepInv' /\ PairInv' /\ NoticeInv' /\ SnapshotInv'
<1> USE TriesAssumption, BoundsAssumption
<1>1. CASE BeginExchange
  <2>1. TypeOK' /\ StepInv'
    BY <1>1 DEF BeginExchange, TypeOK, StepInv
  <2>2. PairInv'
    <3> USE DEF PairInv
    <3>1. UNCHANGED <<wire, owed>> /\ (packet' = packet \/ packet' = <<>>)
      BY <1>1 DEF BeginExchange
    <3>2. Paired(packet', Len(wire') + Len(owed'))
      <4>1. CASE packet' = packet
        BY <3>1, <4>1
      <4>2. CASE packet' = <<>>
        BY <4>2 DEF Paired
      <4> QED
        BY <3>1, <4>1, <4>2
    <3>3. pc' # "await" /\ (result' \in {"parsed", "ready"} => result' = result)
      BY <1>1 DEF BeginExchange
    <3>4. pc # "idle" => result = "none"
      BY DEF StepInv
    <3> QED
      BY <1>1, <3>1, <3>2, <3>3, <3>4 DEF PairInv, BeginExchange
  <2>3. NoticeInv'
    BY <1>1 DEF BeginExchange, Replies, NoticeInv
  <2>4. SnapshotInv'
    BY <1>1 DEF BeginExchange, SnapshotInv
  <2> QED
    BY <2>1, <2>2, <2>3, <2>4
<1>2. CASE DrainRead
  <2> DEFINE n == 2
             p == packet \o Received(n)
             m == Smaller(n, Len(wire))
  <2>1. n \in Nat /\ Consume(n)
    BY <1>2 DEF DrainRead, TypeOK
  <2>2. /\ m \in 0 .. Len(wire) /\ m <= n /\ (m = n \/ m = Len(wire))
        /\ p \in Seq(Fragments) /\ Len(p) = Len(packet) + m
        /\ \A i \in 1 .. Len(packet) : p[i] = packet[i]
        /\ \A i \in 1 .. m : p[Len(packet) + i] = wire[i]
        /\ wire' \in Seq(Fragments) /\ Len(wire') = Len(wire) - m
        /\ \A i \in 1 .. Len(wire') : wire'[i] = wire[i + m]
    BY <2>1, Reading
  <2> HIDE DEF n, p, m
  <2>3. TypeOK' /\ StepInv'
    <3> USE DEF TypeOK, StepInv
    <3> QED
      BY <1>2, <2>2 DEF DrainRead
  <2>4. PairInv'
    <3> USE DEF PairInv
    <3>1. UNCHANGED <<pc, packet, result, owed>> /\ pc = "drain"
      BY <1>2 DEF DrainRead
    <3>2. packet = <<>> /\ result = "none"
      BY <3>1 DEF StepInv
    <3>3. wire \in Seq(Fragments) /\ Len(owed) \in Nat /\ m \in Nat
      BY <2>2 DEF TypeOK
    <3>4. Paired(wire', Len(owed))
      <4>1. Paired(wire, Len(owed))
        OBVIOUS
      <4>2. /\ wire' \in Seq(Fragments) /\ Len(wire') = Len(wire) - m
            /\ \A i \in 1 .. Len(wire') : wire'[i] = wire[i + m]
        BY <2>2
      <4> HIDE DEF PairInv
      <4> QED
        BY <3>3, <4>1, <4>2, PairedSuffix
    <3>5. Paired(packet', Len(wire') + Len(owed'))
      BY <3>1, <3>2 DEF Paired
    <3> QED
      BY <3>1, <3>2, <3>4, <3>5
  <2>5. NoticeInv'
    <3> USE DEF NoticeInv
    <3>1. UNCHANGED <<pc, packet, result, owed>> /\ pc = "drain"
      BY <1>2 DEF DrainRead
    <3>2. packet = <<>> /\ result = "none"
      BY <3>1 DEF StepInv
    <3>3. wire \in Seq(Fragments) /\ Len(wire) \in Nat
      BY DEF TypeOK
    <3>4. ASSUME NEW i \in 1 .. Len(wire'), NEW j \in 1 .. Len(wire'), i <= j,
                 wire'[i].kind = "reply"
          PROVE  wire'[j].kind = "reply"
      <4>1. i + m \in 1 .. Len(wire) /\ j + m \in 1 .. Len(wire) /\ i + m <= j + m
        BY <2>2, <3>3, <3>4
      <4>2. wire'[i] = wire[i + m] /\ wire'[j] = wire[j + m]
        BY <2>2
      <4> QED
        BY <3>1, <3>2, <3>4, <4>1, <4>2
    <3> QED
      BY <3>1, <3>2, <3>4
  <2>6. SnapshotInv'
    <3> USE DEF SnapshotInv
    <3>1. pc' = "drain" /\ result' = "none" /\ settled' = settled
      BY <1>2 DEF DrainRead, StepInv
    <3> QED
      BY <3>1
  <2> QED
    BY <2>3, <2>4, <2>5, <2>6
<1>3. CASE DrainEmpty
  <2>1. TypeOK' /\ StepInv'
    BY <1>3 DEF DrainEmpty, TypeOK, StepInv
  <2>2. PairInv'
    <3> USE DEF PairInv
    <3>1. UNCHANGED <<wire, owed>> /\ (packet' = packet \/ packet' = <<>>)
      BY <1>3 DEF DrainEmpty
    <3>2. Paired(packet', Len(wire') + Len(owed'))
      <4>1. CASE packet' = packet
        BY <3>1, <4>1
      <4>2. CASE packet' = <<>>
        BY <4>2 DEF Paired
      <4> QED
        BY <3>1, <4>1, <4>2
    <3>3. pc' # "await" /\ (result' \in {"parsed", "ready"} => result' = result)
      BY <1>3 DEF DrainEmpty
    <3>4. pc # "idle" => result = "none"
      BY DEF StepInv
    <3> QED
      BY <1>3, <3>1, <3>2, <3>3, <3>4 DEF PairInv, DrainEmpty
  <2>3. NoticeInv'
    BY <1>3 DEF DrainEmpty, StepInv, Replies, NoticeInv
  <2>4. SnapshotInv'
    <3> USE DEF SnapshotInv
    <3>1. pc' = "request" /\ result' = "none" /\ settled' = (owed = <<>>)
          /\ wire' = <<>> /\ owed' = owed
      BY <1>3 DEF DrainEmpty, StepInv
    <3> QED
      BY <3>1
  <2> QED
    BY <2>1, <2>2, <2>3, <2>4
<1>4. CASE SendRequest
  <2> DEFINE r == Split("reply", requests + 1)
  <2>1. owed' = owed \o r \/ owed' = owed
    BY <1>4 DEF SendRequest
  <2>2. /\ r \in Seq(Fragments) /\ Len(r) = 2 /\ r[1].head /\ ~r[2].head
        /\ \A i \in 1 .. 2 : r[i].of = requests + 1 /\ r[i].kind = "reply"
    <3>1. requests + 1 \in Nat
      BY BoundsAssumption DEF TypeOK
    <3>2. "reply" \in Kinds
      BY DEF Kinds
    <3> QED
      BY <3>1, <3>2, Packet
  <2> HIDE DEF r
  <2>3. \/ owed' = owed
        \/ /\ owed' \in Seq(Fragments) /\ Len(owed') = Len(owed) + 2
           /\ \A i \in 1 .. Len(owed) + 2 :
                 owed'[i] = IF i <= Len(owed) THEN owed[i] ELSE r[i - Len(owed)]
    <3>1. CASE owed' = owed \o r
      <4>1. owed \in Seq(Fragments)
        BY DEF TypeOK
      <4>2. /\ owed \o r \in Seq(Fragments) /\ Len(owed \o r) = Len(owed) + Len(r)
            /\ \A i \in 1 .. Len(owed) + Len(r) :
                  (owed \o r)[i] = IF i <= Len(owed) THEN owed[i]
                                   ELSE r[i - Len(owed)]
        BY <2>2, <4>1, Joined
      <4>3. Len(r) = 2
        BY <2>2
      <4> QED
        BY <3>1, <4>2, <4>3
    <3> QED
      BY <2>1, <3>1
  <2>4. /\ pc = "request" /\ requests' = requests + 1 /\ pc' = "collect"
        /\ UNCHANGED <<tries, packet, result, answered, pages, wire, settled>>
    BY <1>4 DEF SendRequest
  <2>5. TypeOK' /\ StepInv'
    <3> USE DEF TypeOK, StepInv
    <3> QED
      BY <2>3, <2>4
  <2>6. PairInv'
    <3> USE DEF PairInv
    <3>1. /\ Len(wire) \in Nat /\ Len(owed) \in Nat /\ packet = <<>> /\ result = "none"
          /\ wire \in Seq(Fragments) /\ owed \in Seq(Fragments)
      BY <2>4 DEF TypeOK, StepInv
    <3>2. Paired(packet', Len(wire') + Len(owed'))
      BY <2>4, <3>1 DEF Paired
    <3>3. CASE owed' = owed
      BY <2>4, <3>1, <3>2, <3>3
    <3>4. CASE /\ owed' \in Seq(Fragments) /\ Len(owed') = Len(owed) + 2
               /\ \A i \in 1 .. Len(owed) + 2 :
                     owed'[i] = IF i <= Len(owed) THEN owed[i] ELSE r[i - Len(owed)]
      <4>1. ASSUME NEW i \in 1 .. Len(r)
            PROVE  r[i].head <=> (Len(r) - i + 0) % 2 = 1
        <5>1. i \in {1, 2} /\ Len(r) - i + 0 = 2 - i
          BY <2>2
        <5>2. (2 - i) % 2 = 1 <=> i = 1
          BY <5>1
        <5>3. r[i].head <=> i = 1
          BY <2>2, <5>1
        <5> QED
          BY <5>1, <5>2, <5>3
      <4>2. Paired(r, 0)
        BY <4>1 DEF Paired
      <4>3. r \in Seq(Fragments) /\ Len(r) = 2 /\ Len(r) % 2 = 0
        <5>1. Len(r) = 2 /\ r \in Seq(Fragments)
          BY <2>2
        <5> QED
          BY <5>1
      <4>4. Len(owed') = Len(owed) + Len(r)
            /\ \A i \in 1 .. Len(owed) + Len(r) :
                  owed'[i] = IF i <= Len(owed) THEN owed[i] ELSE r[i - Len(owed)]
        BY <3>4, <4>3
      <4>5. Paired(owed', 0)
        BY <3>1, <3>4, <4>2, <4>3, <4>4, PairedJoined
      <4>6. Paired(wire, Len(owed) + Len(r))
        BY <3>1, <4>3, PairedBefore
      <4>7. Paired(wire', Len(owed'))
        BY <2>4, <4>4, <4>6
      <4> QED
        BY <2>4, <3>1, <3>2, <4>5, <4>7
    <3> QED
      BY <2>3, <3>3, <3>4
  <2>7. NoticeInv'
    <3> USE DEF NoticeInv
    <3>1. result = "none" /\ Len(owed) \in Nat
      BY <2>4 DEF TypeOK, StepInv
    <3>2. Replies(owed')
      <4>1. CASE owed' = owed
        BY <2>4, <3>1, <4>1
      <4>2. CASE /\ owed' \in Seq(Fragments) /\ Len(owed') = Len(owed) + 2
                 /\ \A i \in 1 .. Len(owed) + 2 :
                       owed'[i] = IF i <= Len(owed) THEN owed[i]
                                  ELSE r[i - Len(owed)]
        <5>1. ASSUME NEW i \in 1 .. Len(owed') PROVE owed'[i].kind = "reply"
          <6>1. CASE i <= Len(owed)
            BY <2>4, <3>1, <4>2, <6>1 DEF Replies
          <6>2. CASE i > Len(owed)
            <7>1. i - Len(owed) \in 1 .. 2 /\ owed'[i] = r[i - Len(owed)]
              BY <3>1, <4>2, <6>2
            <7> QED
              BY <2>2, <7>1
          <6> QED
            BY <3>1, <4>2, <6>1, <6>2
        <5> QED
          BY <5>1 DEF Replies
      <4> QED
        BY <2>3, <4>1, <4>2
    <3> QED
      BY <2>4, <3>1, <3>2 DEF Replies
  <2>8. SnapshotInv'
    <3> USE DEF SnapshotInv
    <3>1. result' = "none" /\ packet' = <<>> /\ Len(packet') = 0
      BY <2>4 DEF StepInv
    <3>2. ASSUME settled' PROVE OfRequest(packet)' /\ OfRequest(wire)' /\ OfRequest(owed)'
      <4>1. wire = <<>> /\ owed = <<>> /\ wire' = <<>>
        BY <2>4, <3>2
      <4>2. OfRequest(packet)' /\ OfRequest(wire)'
        BY <3>1, <4>1 DEF OfRequest
      <4>3. CASE owed' = owed
        BY <4>1, <4>2, <4>3 DEF OfRequest
      <4>4. CASE /\ owed' \in Seq(Fragments) /\ Len(owed') = Len(owed) + 2
                 /\ \A i \in 1 .. Len(owed) + 2 :
                       owed'[i] = IF i <= Len(owed) THEN owed[i]
                                  ELSE r[i - Len(owed)]
        <5>1. ASSUME NEW i \in 1 .. Len(owed') PROVE owed'[i].of = requests'
          <6>1. i \in 1 .. 2 /\ Len(owed) = 0 /\ i - 0 = i
            BY <4>1, <4>4
          <6>2. owed'[i] = r[i]
            BY <4>4, <6>1
          <6> QED
            BY <2>2, <2>4, <6>1, <6>2
        <5> QED
          BY <4>2, <5>1 DEF OfRequest
      <4> QED
        BY <2>3, <4>3, <4>4
    <3> QED
      BY <2>4, <3>1, <3>2
  <2> QED
    BY <2>5, <2>6, <2>7, <2>8
<1>5. CASE CollectRead
  <2> DEFINE n == 2 - Len(packet)
             p == packet \o Received(n)
             m == Smaller(n, Len(wire))
  <2>1. n \in Nat /\ Consume(n)
    BY <1>5 DEF CollectRead, TypeOK
  <2>2. /\ m \in 0 .. Len(wire) /\ m <= n /\ (m = n \/ m = Len(wire))
        /\ p \in Seq(Fragments) /\ Len(p) = Len(packet) + m
        /\ \A i \in 1 .. Len(packet) : p[i] = packet[i]
        /\ \A i \in 1 .. m : p[Len(packet) + i] = wire[i]
        /\ wire' \in Seq(Fragments) /\ Len(wire') = Len(wire) - m
        /\ \A i \in 1 .. Len(wire') : wire'[i] = wire[i + m]
    BY <2>1, Reading
  <2>3. /\ pc = "collect" /\ tries > 0 /\ tries' = tries - 1
        /\ UNCHANGED <<requests, pages, owed, settled>>
        /\ \/ Len(p) < 2 /\ packet' = p /\ UNCHANGED <<pc, result, answered>>
           \/ /\ Len(p) = 2 /\ Parses(p) /\ p[1].kind = "reply"
              /\ End("parsed", p[1].of)
           \/ Len(p) = 2 /\ End("partial", 0)
           \/ /\ Len(p) = 2 /\ packet' = <<>>
              /\ UNCHANGED <<pc, result, answered>>
    BY <1>5 DEF CollectRead
  <2> HIDE DEF n, p, m
  <2>4. TypeOK' /\ StepInv'
    <3> USE DEF TypeOK, StepInv
    <3>1. Len(p) >= 1 => p[1] \in Fragments
      BY <2>2, ElementOfSeq
    <3>2. p[1].of \in Nat \/ Len(p) = 0
      BY <2>2, <3>1 DEF Fragments
    <3>3. wire' \in Seq(Fragments) /\ p \in Seq(Fragments) /\ Len(p) \in Nat
      BY <2>2
    <3>4. Len(p) < 2 => Len(p) <= 1
      BY <3>3
    <3>5. packet' \in Seq(Fragments) /\ Len(packet') <= 1
      <4>1. CASE packet' = p /\ Len(p) < 2
        BY <3>3, <3>4, <4>1
      <4>2. CASE packet' = <<>>
        BY <4>2
      <4> QED
        BY <2>3, <4>1, <4>2 DEF End
    <3>6. answered' \in Nat /\ pc' \in {"collect", "await", "idle"}
      BY <2>3, <3>2 DEF End
    <3>7. /\ result' \in {"none", "uncertain", "ready", "partial", "parsed"}
          /\ pc' = "idle" => packet' = <<>>
          /\ pc' # "idle" => result' = "none"
      BY <2>3 DEF End
    <3>8. /\ tries' \in 0 .. Tries /\ requests' \in 0 .. MaxRequests
          /\ pages' \in 0 .. MaxPages /\ owed' \in Seq(Fragments)
          /\ settled' \in BOOLEAN
      BY <2>3, TriesAssumption
    <3>9. TypeOK'
      BY <3>3, <3>5, <3>6, <3>7, <3>8
    <3>10. StepInv'
      BY <3>6, <3>7
    <3> QED
      BY <3>9, <3>10
  <2>5. PairInv'
    <3> USE DEF PairInv
    <3>1. /\ Len(packet) \in Nat /\ Len(wire) \in Nat /\ Len(owed) \in Nat
          /\ packet \in Seq(Fragments) /\ wire \in Seq(Fragments)
          /\ owed \in Seq(Fragments)
          /\ Paired(packet, Len(wire) + Len(owed)) /\ Paired(wire, Len(owed))
      BY DEF TypeOK
    <3>2. Paired(p, Len(wire') + Len(owed)) /\ Paired(wire', Len(owed))
      BY <2>1, PairedRead DEF p
    <3>3. Len(packet) + Len(wire) = Len(p) + Len(wire')
      BY <2>2, <3>1
    <3>4. Len(p) \in Nat /\ Len(wire') \in Nat
      BY <2>2
    <3>5. Paired(packet', Len(wire') + Len(owed'))
      <4>1. CASE packet' = p
        BY <2>3, <3>2, <4>1
      <4>2. CASE packet' = <<>>
        BY <4>2 DEF Paired
      <4> QED
        BY <2>3, <4>1, <4>2 DEF End
    <3>6. result = "none"
      BY <2>3 DEF StepInv
    <3>7. ASSUME Len(p) = 2, p[1].head, packet' = <<>>
          PROVE  (Len(packet') + Len(wire') + Len(owed')) % 2 = 0
      <4>1. (2 - 1 + (Len(wire') + Len(owed))) % 2 = 1
        BY <3>2, <3>7 DEF Paired
      <4>2. (Len(wire') + Len(owed)) % 2 = 0
        BY <3>1, <3>4, <4>1
      <4>3. Len(packet') + Len(wire') + Len(owed') = Len(wire') + Len(owed)
        BY <2>3, <3>1, <3>4, <3>7
      <4> QED
        BY <4>2, <4>3
    <3>8. pc' # "await" /\ (result' \in {"parsed", "ready"} =>
                               Len(p) = 2 /\ p[1].head /\ packet' = <<>>)
      BY <2>3, <3>6 DEF End, Parses
    <3>9. Paired(owed', 0)
      BY <2>3
    <3>10. Paired(wire', Len(owed'))
      BY <2>3, <3>2
    <3> QED
      BY <3>5, <3>7, <3>8, <3>9, <3>10
  <2>6. NoticeInv'
    <3> USE DEF NoticeInv
    <3>1. result = "none" /\ packet \in Seq(Fragments) /\ Len(packet) \in Nat
          /\ Len(wire) \in Nat
      BY <2>3 DEF TypeOK, StepInv
    <3>2. /\ Replies(owed)
          /\ \A i, j \in 1 .. Len(wire) :
                i <= j /\ wire[i].kind = "reply" => wire[j].kind = "reply"
          /\ \A i \in 1 .. Len(packet) : packet[i].kind = "reply" => Replies(wire)
      BY <2>3, <3>1
    <3>3. ASSUME NEW i \in 1 .. Len(wire'), NEW j \in 1 .. Len(wire'), i <= j,
                 wire'[i].kind = "reply"
          PROVE  wire'[j].kind = "reply"
      <4>1. i + m \in 1 .. Len(wire) /\ j + m \in 1 .. Len(wire) /\ i + m <= j + m
        BY <2>2, <3>1, <3>3
      <4>2. wire'[i] = wire[i + m] /\ wire'[j] = wire[j + m]
        BY <2>2
      <4> QED
        BY <3>2, <3>3, <4>1, <4>2
    <3>4. ASSUME NEW i \in 1 .. Len(p), p[i].kind = "reply" PROVE Replies(wire')
      <4>1. CASE i <= Len(packet)
        <5>1. packet[i].kind = "reply" /\ i \in 1 .. Len(packet)
          BY <2>2, <3>1, <3>4, <4>1
        <5>2. Replies(wire)
          BY <3>2, <5>1
        <5>3. \A k \in 1 .. Len(wire') : k + m \in 1 .. Len(wire)
          BY <2>2, <3>1
        <5> QED
          BY <2>2, <5>2, <5>3 DEF Replies
      <4>2. CASE i > Len(packet)
        <5> DEFINE j == i - Len(packet)
        <5>1. j \in 1 .. m /\ Len(packet) + j = i
          BY <2>2, <3>1, <4>2
        <5>2. p[Len(packet) + j] = wire[j]
          BY <2>2, <5>1
        <5>3. j \in 1 .. Len(wire) /\ wire[j].kind = "reply"
          BY <2>2, <3>1, <3>4, <5>1, <5>2
        <5> HIDE DEF j
        <5>4. ASSUME NEW k \in 1 .. Len(wire') PROVE wire'[k].kind = "reply"
          <6>1. k + m \in 1 .. Len(wire) /\ j <= k + m /\ wire'[k] = wire[k + m]
            BY <2>2, <3>1, <5>1
          <6> QED
            BY <3>2, <5>3, <6>1
        <5> QED
          BY <5>4 DEF Replies
      <4> QED
        BY <3>1, <4>1, <4>2
    <3>5. /\ pc' # "await" /\ result' # "ready"
          /\ packet' = p \/ packet' = <<>>
          /\ result' = "parsed" => Len(p) = 2 /\ p[1].kind = "reply"
      BY <2>3, <3>1 DEF End
    <3>6. \A i \in 1 .. Len(packet') : packet'[i].kind = "reply" => Replies(wire')
      <4>1. CASE packet' = p
        BY <3>4, <4>1
      <4>2. CASE packet' = <<>>
        BY <4>2
      <4> QED
        BY <3>5, <4>1, <4>2
    <3>7. result' = "parsed" => Replies(wire')
      BY <3>4, <3>5
    <3>8. Replies(owed')
      BY <2>3, <3>2
    <3> QED
      BY <3>3, <3>5, <3>6, <3>7, <3>8 DEF Replies
  <2>7. SnapshotInv'
    <3> USE DEF SnapshotInv
    <3>1. result = "none" /\ packet \in Seq(Fragments) /\ Len(packet) \in Nat
          /\ Len(wire) \in Nat
      BY <2>3 DEF TypeOK, StepInv
    <3>2. ASSUME settled'
          PROVE  /\ \A i \in 1 .. Len(p) : p[i].of = requests
                 /\ OfRequest(wire)' /\ OfRequest(owed)'
      <4>1. OfRequest(packet) /\ OfRequest(wire) /\ OfRequest(owed)
        BY <2>3, <3>2
      <4>2. OfRequest(owed)'
        BY <2>3, <4>1 DEF OfRequest
      <4>3. \A i \in 1 .. Len(wire') : i + m \in 1 .. Len(wire)
        BY <2>2, <3>1
      <4>4. OfRequest(wire)'
        BY <2>2, <2>3, <4>1, <4>3 DEF OfRequest
      <4>5. ASSUME NEW i \in 1 .. Len(p) PROVE p[i].of = requests
        <5>1. CASE i <= Len(packet)
          <6>1. i \in 1 .. Len(packet) /\ p[i] = packet[i]
            BY <2>2, <3>1, <5>1
          <6> QED
            BY <4>1, <6>1 DEF OfRequest
        <5>2. CASE i > Len(packet)
          <6> DEFINE j == i - Len(packet)
          <6>1. j \in 1 .. m /\ Len(packet) + j = i
            BY <2>2, <3>1, <5>2
          <6>2. p[Len(packet) + j] = wire[j] /\ j \in 1 .. Len(wire)
            BY <2>2, <3>1, <6>1
          <6> QED
            BY <4>1, <6>1, <6>2 DEF OfRequest
        <5> QED
          BY <3>1, <5>1, <5>2
      <4> QED
        BY <4>2, <4>4, <4>5
    <3>3. /\ pc' # "request" /\ requests' = requests
          /\ packet' = p \/ packet' = <<>>
          /\ result' = "parsed" => Len(p) = 2 /\ answered' = p[1].of
      BY <2>3, <3>1 DEF End
    <3>4. settled' => OfRequest(packet)'
      <4>1. CASE packet' = p
        BY <3>2, <3>3, <4>1 DEF OfRequest
      <4>2. CASE packet' = <<>>
        BY <4>2 DEF OfRequest
      <4> QED
        BY <3>3, <4>1, <4>2
    <3> QED
      BY <3>2, <3>3, <3>4
  <2> QED
    BY <2>4, <2>5, <2>6, <2>7
<1>6. CASE ExchangeExhausted
  <2>1. TypeOK' /\ StepInv'
    BY <1>6 DEF ExchangeExhausted, End, TypeOK, StepInv
  <2>2. PairInv'
    <3> USE DEF PairInv
    <3>1. UNCHANGED <<wire, owed>> /\ (packet' = packet \/ packet' = <<>>)
      BY <1>6 DEF ExchangeExhausted, End
    <3>2. Paired(packet', Len(wire') + Len(owed'))
      <4>1. CASE packet' = packet
        BY <3>1, <4>1
      <4>2. CASE packet' = <<>>
        BY <4>2 DEF Paired
      <4> QED
        BY <3>1, <4>1, <4>2
    <3>3. pc' # "await" /\ (result' \in {"parsed", "ready"} => result' = result)
      BY <1>6 DEF ExchangeExhausted, End
    <3>4. pc # "idle" => result = "none"
      BY DEF StepInv
    <3> QED
      BY <1>6, <3>1, <3>2, <3>3, <3>4 DEF PairInv, ExchangeExhausted, End
  <2>3. NoticeInv'
    BY <1>6 DEF ExchangeExhausted, End, StepInv, Replies, NoticeInv
  <2>4. SnapshotInv'
    BY <1>6 DEF ExchangeExhausted, End, SnapshotInv
  <2> QED
    BY <2>1, <2>2, <2>3, <2>4
<1>7. CASE ExchangeFails
  <2>1. TypeOK' /\ StepInv'
    BY <1>7 DEF ExchangeFails, End, TypeOK, StepInv
  <2>2. PairInv'
    <3> USE DEF PairInv
    <3>1. UNCHANGED <<wire, owed>> /\ (packet' = packet \/ packet' = <<>>)
      BY <1>7 DEF ExchangeFails, End
    <3>2. Paired(packet', Len(wire') + Len(owed'))
      <4>1. CASE packet' = packet
        BY <3>1, <4>1
      <4>2. CASE packet' = <<>>
        BY <4>2 DEF Paired
      <4> QED
        BY <3>1, <4>1, <4>2
    <3>3. pc' # "await" /\ (result' \in {"parsed", "ready"} => result' = result)
      BY <1>7 DEF ExchangeFails, End
    <3>4. pc # "idle" => result = "none"
      BY DEF StepInv
    <3> QED
      BY <1>7, <3>1, <3>2, <3>3, <3>4 DEF PairInv, ExchangeFails, End
  <2>3. NoticeInv'
    BY <1>7 DEF ExchangeFails, End, StepInv, Replies, NoticeInv
  <2>4. SnapshotInv'
    BY <1>7 DEF ExchangeFails, End, SnapshotInv
  <2> QED
    BY <2>1, <2>2, <2>3, <2>4
<1>8. CASE ReleasePage
  <2>1. PICK r \in Reports(pages + 1) : owed' = owed \o r
    BY <1>8 DEF ReleasePage
  <2>2. /\ r \in Seq(Fragments) /\ Len(r) \in Nat /\ Len(r) % 2 = 0
        /\ \A i \in 1 .. Len(r) :
              /\ r[i].head <=> (Len(r) - i) % 2 = 1
              /\ r[i].of = pages + 1
              /\ r[i].kind = "ready" => Len(r) - i <= 1
    <3>1. pages + 1 \in Nat
      BY BoundsAssumption DEF TypeOK
    <3>2. r \in Seq(Fragments)
      BY <2>1, <3>1, Reporting
    <3>3. Len(r) \in Nat
      BY <3>2
    <3> QED
      BY <2>1, <3>1, <3>3, Reporting
  <2>3. /\ owed' \in Seq(Fragments) /\ Len(owed') = Len(owed) + Len(r)
        /\ \A i \in 1 .. Len(owed) + Len(r) :
              owed'[i] = IF i <= Len(owed) THEN owed[i] ELSE r[i - Len(owed)]
    BY <2>1, <2>2, Joined DEF TypeOK
  <2>4. /\ result \in {"parsed", "ready"} /\ pages < MaxPages
        /\ pages' = pages + 1 /\ pc = "idle" /\ pc' = "await"
        /\ packet' = <<>> /\ result' = "none" /\ answered' = 0
        /\ UNCHANGED <<tries, requests, wire, settled>>
    BY <1>8 DEF ReleasePage
  <2>5. TypeOK' /\ StepInv'
    <3> USE DEF TypeOK, StepInv
    <3> QED
      BY <2>3, <2>4
  <2>6. PairInv'
    <3> USE DEF PairInv
    <3>1. /\ Len(wire) \in Nat /\ Len(owed) \in Nat /\ packet = <<>>
          /\ wire \in Seq(Fragments) /\ owed \in Seq(Fragments)
      BY <2>4 DEF TypeOK, StepInv
    <3>2. \A i \in 1 .. Len(r) : Len(r) - i + 0 = Len(r) - i
      BY <2>2
    <3>3. Paired(r, 0)
      BY <2>2, <3>2 DEF Paired
    <3>4. Paired(owed', 0)
      BY <2>2, <2>3, <3>1, <3>3, PairedJoined
    <3>5. Paired(wire', Len(owed'))
      BY <2>2, <2>3, <2>4, <3>1, PairedBefore
    <3>6. Paired(packet', Len(wire') + Len(owed'))
      BY <2>4 DEF Paired
    <3>7. (Len(wire) + Len(owed)) % 2 = 0
      <4>1. (Len(packet) + Len(wire) + Len(owed)) % 2 = 0
        BY <2>4
      <4>2. Len(packet) + Len(wire) + Len(owed) = Len(wire) + Len(owed)
        BY <3>1
      <4> QED
        BY <4>1, <4>2
    <3>8. Len(packet') + Len(wire') + Len(owed') = (Len(wire) + Len(owed)) + Len(r)
      BY <2>2, <2>3, <2>4, <3>1
    <3>9. ((Len(wire) + Len(owed)) + Len(r)) % 2 = (Len(wire) + Len(owed)) % 2
      <4>1. Len(wire) + Len(owed) \in Nat
        BY <3>1
      <4> QED
        BY <2>2, <4>1, EvenAdded
    <3> QED
      BY <3>4, <3>5, <3>6, <3>7, <3>8, <3>9
  <2>7. NoticeInv'
    <3> USE DEF NoticeInv
    <3>1. /\ Len(wire) \in Nat /\ Len(owed) \in Nat /\ pages \in Nat
          /\ \A i \in 1 .. Len(wire) : wire[i].kind = "reply"
          /\ \A i \in 1 .. Len(owed) : owed[i].kind = "reply"
      <4>1. CASE result = "parsed"
        BY <2>4, <4>1 DEF TypeOK, Replies
      <4>2. CASE result = "ready"
        BY <2>4, <4>2 DEF TypeOK
      <4> QED
        BY <2>4, <4>1, <4>2
    <3>2. ASSUME NEW i \in 1 .. Len(owed'), owed'[i].kind # "reply"
          PROVE  owed'[i].of = pages'
                 /\ (owed'[i].kind = "ready" => Len(owed') - i + 0 <= 1)
      <4>1. i > Len(owed)
        BY <2>2, <2>3, <3>1, <3>2
      <4>2. i - Len(owed) \in 1 .. Len(r) /\ owed'[i] = r[i - Len(owed)]
            /\ Len(r) - (i - Len(owed)) = Len(owed') - i + 0
        BY <2>2, <2>3, <3>1, <4>1
      <4> QED
        BY <2>2, <2>4, <4>2
    <3>3. OfPage(wire, Len(owed))' /\ OfPage(packet, Len(wire) + Len(owed))'
      BY <2>4, <3>1 DEF OfPage
    <3> QED
      BY <2>4, <3>2, <3>3 DEF OfPage
  <2>8. SnapshotInv'
    BY <1>8 DEF ReleasePage, SnapshotInv
  <2> QED
    BY <2>5, <2>6, <2>7, <2>8
<1>9. CASE AwaitRead
  <2> DEFINE n == 2 - Len(packet)
             p == packet \o Received(n)
             m == Smaller(n, Len(wire))
  <2>1. n \in Nat /\ Consume(n)
    BY <1>9 DEF AwaitRead, TypeOK
  <2>2. /\ m \in 0 .. Len(wire) /\ m <= n /\ (m = n \/ m = Len(wire))
        /\ p \in Seq(Fragments) /\ Len(p) = Len(packet) + m
        /\ \A i \in 1 .. Len(packet) : p[i] = packet[i]
        /\ \A i \in 1 .. m : p[Len(packet) + i] = wire[i]
        /\ wire' \in Seq(Fragments) /\ Len(wire') = Len(wire) - m
        /\ \A i \in 1 .. Len(wire') : wire'[i] = wire[i + m]
    BY <2>1, Reading
  <2>3. /\ pc = "await" /\ UNCHANGED <<tries, requests, pages, owed, settled>>
        /\ \/ Len(p) < 2 /\ packet' = p /\ UNCHANGED <<pc, result, answered>>
           \/ Len(p) = 2 /\ End("uncertain", 0)
           \/ /\ Len(p) = 2 /\ p[1].kind = "ready"
              /\ End("ready", p[1].of)
           \/ /\ Len(p) = 2 /\ packet' = <<>>
              /\ UNCHANGED <<pc, result, answered>>
    BY <1>9 DEF AwaitRead, IsReady
  <2> HIDE DEF n, p, m
  <2>4. TypeOK' /\ StepInv'
    <3> USE DEF TypeOK, StepInv
    <3>1. Len(p) >= 1 => p[1] \in Fragments
      BY <2>2, ElementOfSeq
    <3>2. p[1].of \in Nat \/ Len(p) = 0
      BY <2>2, <3>1 DEF Fragments
    <3>3. wire' \in Seq(Fragments) /\ p \in Seq(Fragments) /\ Len(p) \in Nat
      BY <2>2
    <3>4. Len(p) < 2 => Len(p) <= 1
      BY <3>3
    <3>5. packet' \in Seq(Fragments) /\ Len(packet') <= 1
      <4>1. CASE packet' = p /\ Len(p) < 2
        BY <3>3, <3>4, <4>1
      <4>2. CASE packet' = <<>>
        BY <4>2
      <4> QED
        BY <2>3, <4>1, <4>2 DEF End
    <3>6. answered' \in Nat /\ pc' \in {"collect", "await", "idle"}
      BY <2>3, <3>2 DEF End
    <3>7. /\ result' \in {"none", "uncertain", "ready", "partial", "parsed"}
          /\ pc' = "idle" => packet' = <<>>
          /\ pc' # "idle" => result' = "none"
      BY <2>3 DEF End
    <3>8. /\ tries' \in 0 .. Tries /\ requests' \in 0 .. MaxRequests
          /\ pages' \in 0 .. MaxPages /\ owed' \in Seq(Fragments)
          /\ settled' \in BOOLEAN
      BY <2>3, TriesAssumption
    <3>9. TypeOK'
      BY <3>3, <3>5, <3>6, <3>7, <3>8
    <3>10. StepInv'
      BY <3>6, <3>7
    <3> QED
      BY <3>9, <3>10
  <2>5. PairInv'
    <3> USE DEF PairInv
    <3>1. /\ Len(packet) \in Nat /\ Len(wire) \in Nat /\ Len(owed) \in Nat
          /\ packet \in Seq(Fragments) /\ wire \in Seq(Fragments)
          /\ owed \in Seq(Fragments)
          /\ Paired(packet, Len(wire) + Len(owed)) /\ Paired(wire, Len(owed))
      BY DEF TypeOK
    <3>2. Paired(p, Len(wire') + Len(owed)) /\ Paired(wire', Len(owed))
      BY <2>1, PairedRead DEF p
    <3>3. Len(packet) + Len(wire) = Len(p) + Len(wire')
      BY <2>2, <3>1
    <3>4. Len(p) \in Nat /\ Len(wire') \in Nat
      BY <2>2
    <3>5. Paired(packet', Len(wire') + Len(owed'))
      <4>1. CASE packet' = p
        BY <2>3, <3>2, <4>1
      <4>2. CASE packet' = <<>>
        BY <4>2 DEF Paired
      <4> QED
        BY <2>3, <4>1, <4>2 DEF End
    <3>6. (Len(p) + Len(wire') + Len(owed)) % 2 = 0
      BY <2>3, <3>1, <3>3, <3>4
    <3>7. (Len(packet') + Len(wire') + Len(owed')) % 2 = 0
      <4>1. CASE packet' = p
        BY <2>3, <3>6, <4>1
      <4>2. CASE packet' = <<>> /\ Len(p) = 2
        <5>1. Len(packet') + Len(wire') + Len(owed') = Len(wire') + Len(owed)
          BY <2>3, <3>1, <3>4, <4>2
        <5>2. (2 + Len(wire') + Len(owed)) % 2 = 0
          BY <3>6, <4>2
        <5>3. (Len(wire') + Len(owed)) % 2 = 0
          BY <3>1, <3>4, <5>2
        <5> QED
          BY <5>1, <5>3
      <4> QED
        BY <2>3, <4>1, <4>2 DEF End
    <3>8. Paired(owed', 0)
      BY <2>3
    <3>9. Paired(wire', Len(owed'))
      BY <2>3, <3>2
    <3> QED
      BY <3>5, <3>7, <3>8, <3>9
  <2>6. NoticeInv'
    <3> USE DEF NoticeInv
    <3>1. OfPage(p, Len(wire') + Len(owed)) /\ OfPage(wire', Len(owed))
          /\ OfPage(owed, 0)
      BY <2>1, <2>3, OfPageRead DEF p
    <3>2. Len(wire') \in Nat /\ Len(owed) \in Nat /\ result = "none"
          /\ wire' \in Seq(Fragments) /\ owed \in Seq(Fragments)
      BY <2>2, <2>3 DEF TypeOK, StepInv
    <3>3. CASE pc' = "await"
      <4>1. result' = "none" /\ UNCHANGED <<pages, owed>>
            /\ (packet' = p \/ packet' = <<>>)
        BY <2>3, <3>2, <3>3 DEF End
      <4>2. OfPage(wire, Len(owed))' /\ OfPage(owed, 0)'
        BY <3>1, <4>1 DEF OfPage
      <4>3. OfPage(packet, Len(wire) + Len(owed))'
        <5>1. CASE packet' = p
          BY <3>1, <4>1, <5>1 DEF OfPage
        <5>2. CASE packet' = <<>>
          BY <5>2 DEF OfPage
        <5> QED
          BY <4>1, <5>1, <5>2
      <4> QED
        BY <3>3, <4>1, <4>2, <4>3
    <3>4. CASE pc' # "await"
      <4>1. pc' = "idle" /\ packet' = <<>> /\ UNCHANGED <<pages, owed>>
            /\ \/ result' = "uncertain"
               \/ /\ result' = "ready" /\ answered' = p[1].of
                  /\ Len(p) = 2 /\ p[1].kind = "ready"
        BY <2>3, <3>4 DEF End
      <4>2. CASE result' = "uncertain"
        BY <4>1, <4>2
      <4>3. CASE /\ result' = "ready" /\ answered' = p[1].of
                 /\ Len(p) = 2 /\ p[1].kind = "ready"
        <5>1. p[1].of = pages /\ 2 - 1 + (Len(wire') + Len(owed)) <= 1
          BY <3>1, <4>3 DEF OfPage
        <5>2. Len(wire') = 0 /\ Len(owed) = 0
          BY <3>2, <5>1
        <5>3. wire' = <<>> /\ owed' = <<>>
          BY <3>2, <4>1, <5>2
        <5> QED
          BY <4>1, <4>3, <5>1, <5>3 DEF Replies
      <4> QED
        BY <4>1, <4>2, <4>3
    <3> QED
      BY <3>3, <3>4
  <2>7. SnapshotInv'
    <3> USE DEF SnapshotInv
    <3>1. result = "none"
      BY <2>3 DEF StepInv
    <3>2. pc' \in {"await", "idle"} /\ result' # "parsed"
      BY <2>3, <3>1 DEF End
    <3> QED
      BY <3>2
  <2> QED
    BY <2>4, <2>5, <2>6, <2>7
<1>10. CASE AwaitFails
  <2>1. TypeOK' /\ StepInv'
    BY <1>10 DEF AwaitFails, End, TypeOK, StepInv
  <2>2. PairInv'
    <3> USE DEF PairInv
    <3>1. UNCHANGED <<wire, owed>> /\ (packet' = packet \/ packet' = <<>>)
      BY <1>10 DEF AwaitFails, End
    <3>2. Paired(packet', Len(wire') + Len(owed'))
      <4>1. CASE packet' = packet
        BY <3>1, <4>1
      <4>2. CASE packet' = <<>>
        BY <4>2 DEF Paired
      <4> QED
        BY <3>1, <4>1, <4>2
    <3>3. pc' # "await" /\ (result' \in {"parsed", "ready"} => result' = result)
      BY <1>10 DEF AwaitFails, End
    <3>4. pc # "idle" => result = "none"
      BY DEF StepInv
    <3> QED
      BY <1>10, <3>1, <3>2, <3>3, <3>4 DEF PairInv, AwaitFails, End
  <2>3. NoticeInv'
    BY <1>10 DEF AwaitFails, End, NoticeInv
  <2>4. SnapshotInv'
    BY <1>10 DEF AwaitFails, End, SnapshotInv
  <2> QED
    BY <2>1, <2>2, <2>3, <2>4
<1>11. CASE Deliver
  <2>1. /\ wire' \in Seq(Fragments) /\ owed' \in Seq(Fragments)
        /\ Len(wire') = Len(wire) + 1 /\ Len(owed') = Len(owed) - 1
        /\ Len(owed) \in Nat \ {0} /\ wire'[Len(wire) + 1] = owed[1]
        /\ \A i \in 1 .. Len(wire) : wire'[i] = wire[i]
        /\ \A i \in 1 .. Len(owed') : owed'[i] = owed[i + 1]
    BY <1>11, Delivering
  <2>2. UNCHANGED <<pc, tries, packet, result, answered, requests, pages, settled>>
    BY <1>11 DEF Deliver
  <2>3. TypeOK' /\ StepInv'
    <3> USE DEF TypeOK, StepInv
    <3> QED
      BY <2>1, <2>2
  <2>4. PairInv'
    <3> USE DEF PairInv
    <3>1. /\ Len(packet) \in Nat /\ Len(wire) \in Nat
          /\ packet \in Seq(Fragments) /\ owed \in Seq(Fragments)
      BY DEF TypeOK
    <3>2. Len(wire') + Len(owed') = Len(wire) + Len(owed)
      BY <2>1, <3>1
    <3>3. Paired(packet', Len(wire') + Len(owed'))
      BY <2>2, <3>2
    <3>4. Paired(owed', 0)
      <4>1. Paired(owed, 0)
        OBVIOUS
      <4>2. /\ owed' \in Seq(Fragments) /\ Len(owed') = Len(owed) - 1
            /\ \A i \in 1 .. Len(owed') : owed'[i] = owed[i + 1]
        BY <2>1
      <4> HIDE DEF PairInv
      <4> QED
        BY <3>1, <4>1, <4>2, PairedTail
    <3>5. ASSUME NEW i \in 1 .. Len(wire')
          PROVE  wire'[i].head <=> (Len(wire') - i + Len(owed')) % 2 = 1
      <4>1. CASE i <= Len(wire)
        <5>1. i \in 1 .. Len(wire) /\ wire'[i] = wire[i]
          BY <2>1, <3>1, <4>1
        <5>2. Len(wire) - i + Len(owed) = Len(wire') - i + Len(owed')
          BY <2>1, <3>1, <5>1
        <5>3. wire[i].head <=> (Len(wire) - i + Len(owed)) % 2 = 1
          BY <5>1 DEF Paired
        <5> QED
          BY <5>1, <5>3, <5>2
      <4>2. CASE i = Len(wire) + 1
        <5>1. wire'[i] = owed[1] /\ Len(owed) - 1 + 0 = Len(wire') - i + Len(owed')
          BY <2>1, <3>1, <4>2
        <5>2. owed[1].head <=> (Len(owed) - 1 + 0) % 2 = 1
          BY <2>1 DEF Paired
        <5> QED
          BY <5>1, <5>2
      <4> QED
        BY <2>1, <3>1, <4>1, <4>2
    <3>6. Len(packet') + Len(wire') + Len(owed') = Len(packet) + Len(wire) + Len(owed)
      BY <2>1, <2>2, <3>1
    <3>7. Paired(wire', Len(owed'))
      BY <3>5 DEF Paired
    <3> QED
      BY <2>2, <3>3, <3>4, <3>6, <3>7
  <2>5. NoticeInv'
    <3> USE DEF NoticeInv
    <3>1. Len(packet) \in Nat /\ Len(wire) \in Nat /\ owed # <<>>
          /\ owed \in Seq(Fragments)
      BY <1>11 DEF TypeOK, Deliver
    <3>2. result # "ready" /\ result' # "ready"
      BY <2>2, <3>1
    <3>3. CASE pc = "await"
      <4>1. result = "none" /\ OfPage(packet, Len(wire) + Len(owed))
            /\ OfPage(wire, Len(owed)) /\ OfPage(owed, 0)
        BY <3>3 DEF StepInv
      <4>2. Len(wire') + Len(owed') = Len(wire) + Len(owed)
        BY <2>1, <3>1
      <4>3. OfPage(packet, Len(wire) + Len(owed))'
        BY <2>2, <4>1, <4>2 DEF OfPage
      <4>4. ASSUME NEW i \in 1 .. Len(owed'), owed'[i].kind # "reply"
            PROVE  owed'[i].of = pages
                   /\ (owed'[i].kind = "ready" => Len(owed') - i + 0 <= 1)
        <5>1. i + 1 \in 1 .. Len(owed) /\ owed'[i] = owed[i + 1]
              /\ Len(owed) - (i + 1) + 0 = Len(owed') - i + 0
          BY <2>1
        <5> QED
          BY <4>1, <4>4, <5>1 DEF OfPage
      <4>5. ASSUME NEW i \in 1 .. Len(wire'), wire'[i].kind # "reply"
            PROVE  wire'[i].of = pages
                   /\ (wire'[i].kind = "ready" => Len(wire') - i + Len(owed') <= 1)
        <5>1. CASE i <= Len(wire)
          <6>1. i \in 1 .. Len(wire) /\ wire'[i] = wire[i]
            BY <2>1, <3>1, <5>1
          <6>2. Len(wire) - i + Len(owed) = Len(wire') - i + Len(owed')
            BY <2>1, <3>1, <6>1
          <6> QED
            BY <4>1, <4>5, <6>1, <6>2 DEF OfPage
        <5>2. CASE i = Len(wire) + 1
          <6>1. wire'[i] = owed[1] /\ 1 \in 1 .. Len(owed)
            BY <2>1, <5>2
          <6>2. Len(owed) - 1 + 0 = Len(wire') - i + Len(owed')
            BY <2>1, <3>1, <5>2
          <6> QED
            BY <4>1, <4>5, <6>1, <6>2 DEF OfPage
        <5> QED
          BY <2>1, <3>1, <5>1, <5>2
      <4>6. OfPage(owed, 0)' /\ OfPage(wire, Len(owed))'
        BY <2>2, <4>4, <4>5 DEF OfPage
      <4> QED
        BY <2>2, <3>2, <3>3, <4>3, <4>6
    <3>4. CASE pc # "await" /\ result # "uncertain"
      <4>1. /\ Replies(owed)
            /\ \A i, j \in 1 .. Len(wire) :
                  i <= j /\ wire[i].kind = "reply" => wire[j].kind = "reply"
            /\ \A i \in 1 .. Len(packet) : packet[i].kind = "reply" => Replies(wire)
            /\ result = "parsed" => Replies(wire)
        BY <3>4
      <4>2. wire'[Len(wire) + 1].kind = "reply"
        BY <2>1, <4>1 DEF Replies
      <4>3. Replies(owed')
        <5>1. \A i \in 1 .. Len(owed') : i + 1 \in 1 .. Len(owed)
          BY <2>1
        <5> QED
          BY <2>1, <4>1, <5>1 DEF Replies
      <4>4. \A i \in 1 .. Len(wire') : i \in 1 .. Len(wire) \/ i = Len(wire) + 1
        BY <2>1, <3>1
      <4>5. Replies(wire) => Replies(wire')
        BY <2>1, <4>2, <4>4 DEF Replies
      <4>6. ASSUME NEW i \in 1 .. Len(wire'), NEW j \in 1 .. Len(wire'), i <= j,
                   wire'[i].kind = "reply"
            PROVE  wire'[j].kind = "reply"
        <5>1. CASE j = Len(wire) + 1
          BY <4>2, <5>1
        <5>2. CASE j \in 1 .. Len(wire)
          <6>1. i \in 1 .. Len(wire)
            BY <3>1, <4>6, <5>2
          <6> QED
            BY <2>1, <4>1, <4>6, <5>2, <6>1
        <5> QED
          BY <4>4, <5>1, <5>2
      <4>7. \A i \in 1 .. Len(packet') : packet'[i].kind = "reply" => Replies(wire')
        BY <2>2, <4>1, <4>5
      <4>8. result' = "parsed" => Replies(wire')
        BY <2>2, <4>1, <4>5
      <4> QED
        BY <2>2, <3>2, <3>4, <4>3, <4>6, <4>7, <4>8 DEF Replies
    <3>5. CASE pc # "await" /\ result = "uncertain"
      BY <2>2, <3>5
    <3> QED
      BY <3>3, <3>4, <3>5
  <2>6. SnapshotInv'
    <3> USE DEF SnapshotInv
    <3>1. Len(packet) \in Nat /\ Len(wire) \in Nat /\ owed # <<>>
      BY <1>11 DEF TypeOK, Deliver
    <3>2. CASE pc = "collect" /\ settled
      <4>1. OfRequest(packet) /\ OfRequest(wire) /\ OfRequest(owed)
        BY <3>2
      <4>2. OfRequest(packet)'
        BY <2>2, <4>1 DEF OfRequest
      <4>3. \A i \in 1 .. Len(owed') : i + 1 \in 1 .. Len(owed)
        BY <2>1
      <4>4. OfRequest(owed)'
        BY <2>1, <2>2, <4>1, <4>3 DEF OfRequest
      <4>5. \A i \in 1 .. Len(wire') : i \in 1 .. Len(wire) \/ i = Len(wire) + 1
        BY <2>1, <3>1
      <4>6. wire'[Len(wire) + 1].of = requests
        BY <2>1, <4>1 DEF OfRequest
      <4>7. OfRequest(wire)'
        BY <2>1, <2>2, <4>1, <4>5, <4>6 DEF OfRequest
      <4> QED
        BY <2>2, <3>2, <4>2, <4>4, <4>7, <3>1
    <3>3. CASE ~(pc = "collect" /\ settled)
      BY <2>2, <3>1, <3>3
    <3> QED
      BY <3>2, <3>3
  <2> QED
    BY <2>3, <2>4, <2>5, <2>6
<1>12. CASE Reopen
  <2>1. TypeOK' /\ StepInv'
    BY <1>12 DEF Reopen, TypeOK, StepInv
  <2>2. PairInv'
    <3> USE DEF PairInv
    <3>1. packet' = packet /\ packet = <<>> /\ pc' = "idle" /\ result' = "none"
      BY <1>12 DEF Reopen, StepInv
    <3>2. (wire' = wire /\ owed' = owed) \/ (wire' = <<>> /\ owed' = <<>>)
      BY <1>12 DEF Reopen
    <3>3. CASE wire' = <<>> /\ owed' = <<>>
      BY <3>1, <3>3 DEF Paired
    <3> QED
      BY <3>1, <3>2, <3>3
  <2>3. NoticeInv'
    <3> USE DEF NoticeInv
    <3>1. packet' = packet /\ packet = <<>> /\ pc' = "idle" /\ result' = "none"
          /\ pc = "idle" /\ result # "uncertain"
      BY <1>12 DEF Reopen, StepInv
    <3>2. (wire' = wire /\ owed' = owed) \/ (wire' = <<>> /\ owed' = <<>>)
      BY <1>12 DEF Reopen
    <3>3. CASE wire' = wire /\ owed' = owed
      BY <3>1, <3>3 DEF Replies
    <3>4. CASE wire' = <<>> /\ owed' = <<>>
      BY <3>1, <3>4 DEF Replies
    <3> QED
      BY <3>2, <3>3, <3>4
  <2>4. SnapshotInv'
    BY <1>12 DEF Reopen, SnapshotInv
  <2> QED
    BY <2>1, <2>2, <2>3, <2>4
<1>13. CASE Recover
  <2>1. TypeOK' /\ StepInv'
    BY <1>13 DEF Recover, TypeOK, StepInv
  <2>2. PairInv'
    <3> USE DEF PairInv
    <3>1. packet' = packet /\ packet = <<>> /\ pc' = "idle" /\ result' = "none"
      BY <1>13 DEF Recover, StepInv
    <3>2. wire' = <<>> /\ owed' = <<>>
      BY <1>13 DEF Recover
    <3>3. CASE wire' = <<>> /\ owed' = <<>>
      BY <3>1, <3>3 DEF Paired
    <3> QED
      BY <3>1, <3>2, <3>3
  <2>3. NoticeInv'
    <3> USE DEF NoticeInv
    <3>1. packet' = packet /\ packet = <<>> /\ pc' = "idle" /\ result' = "none"
          /\ wire' = <<>> /\ owed' = <<>>
      BY <1>13 DEF Recover, StepInv
    <3> QED
      BY <3>1 DEF Replies
  <2>4. SnapshotInv'
    <3> USE DEF SnapshotInv
    <3>1. pc' = "idle" /\ result' = "none"
      BY <1>13 DEF Recover, StepInv
    <3> QED
      BY <3>1
  <2> QED
    BY <2>1, <2>2, <2>3, <2>4
<1>14. CASE UNCHANGED vars
  BY <1>14 DEF vars, TypeOK, StepInv, PairInv, Paired, NoticeInv, Replies,
     OfPage, SnapshotInv, OfRequest
<1> QED
  BY <1>1, <1>2, <1>3, <1>4, <1>5, <1>6, <1>7, <1>8, <1>9, <1>10, <1>11,
     <1>12, <1>13, <1>14
     DEF Next, ReaderStep

(* The inductive invariant: the types, and what every step leaves in the   *)
(* stream.                                                                 *)
IInv == TypeOK /\ StepInv /\ PairInv /\ NoticeInv /\ SnapshotInv

(* What a USB endpoint may have kept is whole packets, or the second half  *)
(* of one, and no reply is before a notification.                          *)
LEMMA Kept ==
    ASSUME NEW s \in Leftovers
    PROVE  /\ s \in Seq(Fragments) /\ Paired(s, 0)
           /\ \A i, j \in 1 .. Len(s) :
                 i <= j /\ s[i].kind = "reply" => s[j].kind = "reply"
<1> USE DEF Paired
<1>1. CASE s = <<>>
  BY <1>1
<1>2. CASE s = Tail(Split("reply", 0))
  <2> DEFINE r == Split("reply", 0)
  <2>1. r \in Seq(Fragments) /\ Len(r) = 2 /\ ~r[2].head /\ r # <<>>
    <3>1. "reply" \in Kinds
      BY DEF Kinds
    <3> QED
      BY <3>1, Packet
  <2>2. s = Tail(r)
    BY <1>2
  <2> HIDE DEF r
  <2>3. /\ s \in Seq(Fragments) /\ Len(s) = Len(r) - 1
        /\ \A i \in 1 .. Len(s) : s[i] = r[i + 1]
    BY <2>1, <2>2, HeadTailProperties
  <2>4. Len(s) = 1 /\ s[1] = r[2]
    BY <2>1, <2>3
  <2>5. Len(s) = 1 /\ s \in Seq(Fragments) /\ ~s[1].head
    BY <2>1, <2>3, <2>4
  <2>6. ASSUME NEW i \in 1 .. Len(s) PROVE i = 1 /\ (Len(s) - i + 0) % 2 # 1
    BY <2>5
  <2> QED
    BY <2>5, <2>6
<1>3. CASE s = Split("completed", 0) \o Split("ready", 0)
  <2> DEFINE a == Split("completed", 0)
             b == Split("ready", 0)
  <2>1. "completed" \in Kinds /\ "ready" \in Kinds
    BY DEF Kinds
  <2>2. /\ a \in Seq(Fragments) /\ Len(a) = 2 /\ a[1].head /\ ~a[2].head
        /\ \A i \in 1 .. 2 : a[i].kind = "completed"
    BY <2>1, Packet
  <2>3. /\ b \in Seq(Fragments) /\ Len(b) = 2 /\ b[1].head /\ ~b[2].head
        /\ \A i \in 1 .. 2 : b[i].kind = "ready"
    BY <2>1, Packet
  <2>4. s = a \o b
    BY <1>3
  <2> HIDE DEF a, b
  <2>5. /\ s \in Seq(Fragments) /\ Len(s) = Len(a) + Len(b)
        /\ \A i \in 1 .. Len(a) + Len(b) :
              s[i] = IF i <= Len(a) THEN a[i] ELSE b[i - Len(a)]
    BY <2>2, <2>3, <2>4, Joined
  <2>6. Len(s) = 4 /\ s[1] = a[1] /\ s[2] = a[2] /\ s[3] = b[1] /\ s[4] = b[2]
    BY <2>2, <2>3, <2>5
  <2>7. ASSUME NEW i \in 1 .. Len(s)
        PROVE  /\ s[i].head <=> (Len(s) - i + 0) % 2 = 1
               /\ s[i].kind # "reply"
    <3>1. i \in {1, 2, 3, 4}
      BY <2>6
    <3>2. (Len(s) - i + 0) % 2 = 1 <=> i \in {1, 3}
      BY <2>6, <3>1
    <3>3. s[i].head <=> i \in {1, 3}
      BY <2>2, <2>3, <2>6, <3>1
    <3>4. s[i].kind \in {"completed", "ready"}
      BY <2>2, <2>3, <2>6, <3>1
    <3> QED
      BY <3>2, <3>3, <3>4
  <2> QED
    BY <2>5, <2>7
<1> QED
  BY <1>1, <1>2, <1>3 DEF Leftovers

(* The inductive invariant holds of every reachable state.                 *)
THEOREM IInvCorrect == Spec => []IInv
<1>1. Init => IInv
  <2> SUFFICES ASSUME Init PROVE IInv
    OBVIOUS
  <2>1. /\ wire \in Seq(Fragments) /\ Paired(wire, 0)
        /\ \A i, j \in 1 .. Len(wire) :
              i <= j /\ wire[i].kind = "reply" => wire[j].kind = "reply"
    BY Kept DEF Init
  <2>2. TypeOK
    <3>1. packet = <<>> /\ owed = <<>> /\ <<>> \in Seq(Fragments) /\ Len(<<>>) = 0
      BY DEF Init
    <3>2. tries = 0 /\ 0 \in 0 .. Tries /\ 0 \in 0 .. MaxRequests /\ 0 \in 0 .. MaxPages
      BY TriesAssumption, BoundsAssumption DEF Init
    <3>3. pc \in {"idle"} /\ result = "none" /\ answered = 0 /\ requests = 0
          /\ pages = 0 /\ settled \in BOOLEAN
      BY DEF Init
    <3>4. packet \in Seq(Fragments) /\ owed \in Seq(Fragments) /\ Len(packet) <= 1
      BY <3>1
    <3> QED
      BY <2>1, <3>2, <3>3, <3>4 DEF TypeOK
  <2>3. StepInv /\ SnapshotInv
    BY DEF Init, StepInv, SnapshotInv
  <2>4. PairInv
    <3>1. packet = <<>> /\ owed = <<>> /\ Len(owed) = 0
      BY DEF Init
    <3> QED
      BY <2>1, <3>1 DEF Init, PairInv, Paired
  <2>5. NoticeInv
    BY <2>1 DEF Init, NoticeInv, Replies
  <2> QED
    BY <2>2, <2>3, <2>4, <2>5 DEF IInv
<1>2. IInv /\ [Next]_vars => IInv'
  BY InvStep DEF IInv
<1> QED
  BY <1>1, <1>2, PTL DEF Spec

(* Every variable keeps its type, the counters their bounds.               *)
THEOREM TypeCorrect == Spec => []TypeOK
<1>1. IInv => TypeOK
  BY DEF IInv
<1> QED
  BY <1>1, IInvCorrect, PTL

(* pt_await_ready reports the readiness of the page just released, and     *)
(* leaves none of its notifications for the next wait.                     *)
THEOREM ReadinessIsThePages == Spec => []ReadyIsCurrent
<1>1. IInv => ReadyIsCurrent
  <2> SUFFICES ASSUME IInv, result = "ready"
      PROVE  answered = pages /\ Notices(pages) = {}
    BY DEF ReadyIsCurrent
  <2>1. answered = pages /\ Coming = <<>> \o <<>>
    BY DEF IInv, NoticeInv, Coming
  <2>2. Len(Coming) = 0
    BY <2>1
  <2> QED
    BY <2>1, <2>2 DEF Notices
<1> QED
  BY <1>1, IInvCorrect, PTL

(* A page's wait starts with a whole packet, whatever the exchange before  *)
(* it took or left.                                                        *)
THEOREM WaitsInStep == Spec => []AwaitInStep
<1>1. IInv => AwaitInStep
  <2> DEFINE rest == packet \o Coming
  <2> SUFFICES ASSUME IInv, pc = "await", rest # <<>> PROVE rest[1].head
    BY DEF AwaitInStep
  <2>1. /\ packet \in Seq(Fragments) /\ wire \in Seq(Fragments)
        /\ owed \in Seq(Fragments)
        /\ Len(packet) \in Nat /\ Len(wire) \in Nat /\ Len(owed) \in Nat
    BY DEF IInv, TypeOK
  <2>2. /\ Coming \in Seq(Fragments) /\ Len(Coming) = Len(wire) + Len(owed)
        /\ \A i \in 1 .. Len(wire) + Len(owed) :
              Coming[i] = IF i <= Len(wire) THEN wire[i] ELSE owed[i - Len(wire)]
    BY <2>1, Joined DEF Coming
  <2>3. /\ rest \in Seq(Fragments) /\ Len(rest) = Len(packet) + Len(Coming)
        /\ \A i \in 1 .. Len(packet) + Len(Coming) :
              rest[i] = IF i <= Len(packet) THEN packet[i]
                        ELSE Coming[i - Len(packet)]
    BY <2>1, <2>2, Joined
  <2>4. (Len(packet) + Len(wire) + Len(owed)) % 2 = 0
        /\ Paired(packet, Len(wire) + Len(owed)) /\ Paired(wire, Len(owed))
        /\ Paired(owed, 0)
    BY DEF IInv, PairInv
  <2>5. Len(rest) # 0
    BY <2>3
  <2> HIDE DEF rest
  <2>6. CASE Len(packet) > 0
    <3>1. rest[1] = packet[1] /\ 1 \in 1 .. Len(packet)
      BY <2>1, <2>2, <2>3, <2>6
    <3>2. (Len(packet) - 1 + (Len(wire) + Len(owed))) % 2 = 1
      BY <2>1, <2>4, <2>6
    <3> QED
      BY <2>4, <3>1, <3>2 DEF Paired
  <2>7. CASE Len(packet) = 0 /\ Len(wire) > 0
    <3>1. rest[1] = Coming[1] /\ Coming[1] = wire[1] /\ 1 \in 1 .. Len(wire)
      BY <2>1, <2>2, <2>3, <2>7
    <3>2. (Len(wire) - 1 + Len(owed)) % 2 = 1
      BY <2>1, <2>4, <2>7
    <3> QED
      BY <2>4, <3>1, <3>2 DEF Paired
  <2>8. CASE Len(packet) = 0 /\ Len(wire) = 0
    <3>1. Len(owed) > 0
      BY <2>1, <2>2, <2>3, <2>5, <2>8
    <3>2. rest[1] = Coming[1] /\ Coming[1] = owed[1] /\ 1 \in 1 .. Len(owed)
      BY <2>1, <2>2, <2>3, <2>8, <3>1
    <3>3. (Len(owed) - 1 + 0) % 2 = 1
      BY <2>1, <2>4, <2>8, <3>1
    <3> QED
      BY <2>4, <3>2, <3>3 DEF Paired
  <2> QED
    BY <2>1, <2>6, <2>7, <2>8
<1> QED
  BY <1>1, IInvCorrect, PTL

(* The status pt_read_live_tape returns answers its own request, unless an *)
(* earlier answer was still under way when the drain ended.                *)
THEOREM StatusAnswersRequest == Spec => []SnapshotIsRequested
<1>1. IInv => SnapshotIsRequested
  BY DEF IInv, SnapshotInv, SnapshotIsRequested
<1> QED
  BY <1>1, IInvCorrect, PTL
==============================================================================
