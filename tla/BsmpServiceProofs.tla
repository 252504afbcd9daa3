-------------------------- MODULE BsmpServiceProofs --------------------------
(***************************************************************************)
(* BsmpClient implements BsmpService: every step of the client, the link,  *)
(* the server and those who disturb them is a step of the service, or      *)
(* nothing to it.  Command by command it is shown what a request does to   *)
(* the entities (Outcome); the invariant RefInv ties the history of a call *)
(* to the exchange it has come to.                                         *)
(***************************************************************************)
EXTENDS BsmpClientProofs

----------------------------------------------------------------------------
(* The values of a group, and what writing it leaves there.                *)

\* The values of a group are read one variable after the other.
Reads(s, ids) ==
    /\ s \in ServerType /\ Fits(s.vars, s.data) /\ ids \in Seq(Nat)
    /\ \A k \in DOMAIN ids : ids[k] < Len(s.vars)

\* What has been read after each of them.
ValuesRead(s, ids, g, h) ==
    /\ h \in [0 .. Len(ids) -> Seq(Bit)] /\ h[0] = <<>> /\ Values(s, ids) = h[Len(ids)]
    /\ \A k \in 1 .. Len(ids) :
          /\ h[k] = h[k - 1] \o s.data[ids[k] + 1]
          /\ s.data[ids[k] + 1] \in [1 .. s.vars[ids[k] + 1].size -> Bit]
    /\ \A k \in 0 .. Len(ids) : Len(h[k]) = g[k]

LEMMA GroupValues ==
    ASSUME NEW s, NEW ids, Reads(s, ids), NEW g, Places(s, ids, g)
    PROVE  \E h : ValuesRead(s, ids, g, h)
<1>0. /\ s \in ServerType /\ Fits(s.vars, s.data) /\ ids \in Seq(Nat)
      /\ \A k \in DOMAIN ids : ids[k] < Len(s.vars)
  BY DEF Reads
<1> USE <1>0
<1> DEFINE n == Len(ids)
           seqs == [k \in DOMAIN ids |-> s.data[ids[k] + 1]]
           size(k) == s.vars[ids[k] + 1].size
<1>1. n \in Nat /\ DOMAIN ids = 1 .. n
  OBVIOUS
<1>2. /\ g \in [0 .. n -> Nat] /\ g[0] = 0
      /\ \A k \in 1 .. n : g[k] = g[k - 1] + size(k) /\ size(k) \in Nat
  BY DEF Places
<1>3. \A k \in 1 .. n : s.data[ids[k] + 1] \in [1 .. size(k) -> Bit]
  <2> TAKE k \in 1 .. n
  <2>1. ids[k] \in Nat /\ ids[k] < Len(s.vars)
    BY <1>1
  <2>2. ids[k] + 1 \in DOMAIN s.vars
    BY <2>1 DEF ServerType
  <2> QED BY <2>2 DEF Fits
<1>4. \A k \in 1 .. n : s.data[ids[k] + 1] \in Seq(Bit) /\ Len(s.data[ids[k] + 1]) = size(k)
  BY <1>2, <1>3, BitsSeq
<1>5. seqs \in [1 .. n -> Seq(Bit)]
  BY <1>1, <1>4
<1>6. seqs \in Seq(Seq(Bit)) /\ Len(seqs) = n
  BY <1>1, <1>5, SeqDef
<1>7. \A k \in 1 .. n : seqs[k] = s.data[ids[k] + 1]
  BY <1>1
<1>8. Values(s, ids) = FlattenSeq(seqs)
  BY DEF Values
<1> HIDE DEF n, seqs, size
<1>9. PICK h \in [0 .. n -> Seq(Bit)] :
          /\ h[0] = <<>> /\ FlattenSeq(seqs) = h[n]
          /\ \A k \in 1 .. n : h[k] = h[k - 1] \o seqs[k]
  <2>1. CASE n = 0
    <3>1. FlattenSeq(seqs) = <<>>
      BY <1>6, <2>1 DEF FlattenSeq
    <3> DEFINE h == [k \in 0 .. n |-> <<>>]
    <3>2. h \in [0 .. n -> Seq(Bit)] /\ h[0] = <<>> /\ h[n] = <<>>
      BY <1>1
    <3>3. 1 .. n = {}
      BY <2>1
    <3> HIDE DEF h
    <3> QED BY <3>1, <3>2, <3>3
  <2>2. CASE n # 0
    <3>1. PICK q \in [1 .. n -> Seq(Bit)] :
              /\ FlattenSeq(seqs) = q[n] /\ q[1] = seqs[1]
              /\ \A i \in 2 .. n : q[i] = q[i - 1] \o seqs[i]
      BY <1>6, <2>2, FlattenUnfold
    <3> DEFINE h == [k \in 0 .. n |-> IF k = 0 THEN <<>> ELSE q[k]]
    <3>2. h \in [0 .. n -> Seq(Bit)]
      BY <1>1
    <3>3. h[0] = <<>> /\ h[n] = q[n]
      BY <1>1, <2>2
    <3>4. ASSUME NEW k \in 1 .. n PROVE h[k] = h[k - 1] \o seqs[k]
      <4>1. CASE k = 1
        <5>1. h[1] = seqs[1] /\ h[0] = <<>> /\ seqs[1] \in Seq(Bit)
          BY <1>1, <1>5, <2>2, <3>1
        <5>2. <<>> \o seqs[1] = seqs[1] /\ k - 1 = 0
          BY <4>1, <5>1
        <5> HIDE DEF h
        <5> QED BY <4>1, <5>1, <5>2
      <4>2. CASE k # 1
        <5>1. k \in 2 .. n /\ k - 1 # 0 /\ k - 1 \in 0 .. n /\ k \in 0 .. n /\ k # 0
          BY <1>1, <4>2
        <5> QED BY <3>1, <5>1
      <4> QED BY <4>1, <4>2
    <3> HIDE DEF h
    <3> QED BY <3>1, <3>2, <3>3, <3>4
  <2> QED BY <2>1, <2>2
<1>10. 0 .. n \subseteq {k \in 0 .. n : Len(h[k]) = g[k]}
  <2> DEFINE G == {k \in 0 .. n : Len(h[k]) = g[k]}
  <2>1. 0 \in G
    BY <1>1, <1>2, <1>9
  <2>2. ASSUME NEW k \in 1 .. n, k - 1 \in G PROVE k \in G
    <3>0. k - 1 \in 0 .. n /\ k \in 0 .. n
      BY <1>1
    <3>1. h[k] = h[k - 1] \o seqs[k] /\ h[k - 1] \in Seq(Bit) /\ seqs[k] \in Seq(Bit)
      BY <1>5, <1>9, <3>0
    <3>2. Len(seqs[k]) = size(k) /\ Len(h[k - 1]) = g[k - 1] /\ g[k] = g[k - 1] + size(k)
      BY <1>2, <1>4, <1>7, <2>2
    <3>3. Len(h[k]) = Len(h[k - 1]) + Len(seqs[k])
      BY <3>1
    <3> QED BY <3>0, <3>2, <3>3
  <2> HIDE DEF G
  <2>3. 0 .. n \subseteq G
    BY <1>1, <2>1, <2>2, TurnInduction
  <2> QED BY <2>3 DEF G
<1>11. \A k \in 1 .. n : h[k] = h[k - 1] \o s.data[ids[k] + 1]
  BY <1>7, <1>9
<1>12. \A k \in 0 .. n : Len(h[k]) = g[k]
  BY <1>10
<1> QED BY <1>3, <1>8, <1>9, <1>11, <1>12 DEF n, size, ValuesRead

\* A variable of the group takes its own part of the bytes.
NewPart(s, ids, bytes, op, g, k) == NewValue(s, ids[k], SubSeq(bytes, g[k - 1] + 1, g[k]), op)

LEMMA NewPartTyped ==
    ASSUME NEW s \in ServerType, Fits(s.vars, s.data), NEW ids \in Seq(Nat),
           \A k \in DOMAIN ids : ids[k] < Len(s.vars),
           NEW bytes \in Seq(Bit), Len(bytes) = SizesOf(s.vars, ids),
           NEW op \in BinOps \cup {Assign}, NEW g, Places(s, ids, g), NEW k \in 1 .. Len(ids)
    PROVE  /\ SubSeq(bytes, g[k - 1] + 1, g[k]) \in [1 .. s.vars[ids[k] + 1].size -> Bit]
           /\ NewPart(s, ids, bytes, op, g, k) \in [1 .. s.vars[ids[k] + 1].size -> Bit]
<1> DEFINE size == s.vars[ids[k] + 1].size
           part == SubSeq(bytes, g[k - 1] + 1, g[k])
<1>1. k - 1 \in 0 .. Len(ids) /\ k \in 0 .. Len(ids)
  OBVIOUS
<1>2. /\ g[k - 1] \in Nat /\ size \in Nat /\ g[k] = g[k - 1] + size /\ g[k] <= Len(bytes)
  BY <1>1 DEF Places
<1> HIDE DEF size
<1>3. part \in [1 .. size -> Bit]
  BY <1>2, SubSeqBits
<1> HIDE DEF part
<1>4. CASE op = Assign
  BY <1>3, <1>4 DEF NewPart, NewValue, part, size
<1>5. CASE op \in BinOps
  <2>1. op # Assign
    BY <1>5 DEF BinOps, Assign
  <2>2. s.data[ids[k] + 1] \in [1 .. size -> Bit]
    <3>1. ids[k] \in Nat /\ ids[k] < Len(s.vars)
      OBVIOUS
    <3>2. ids[k] + 1 \in DOMAIN s.vars
      BY <3>1 DEF ServerType
    <3> QED BY <3>2 DEF Fits, size
  <2>3. BinOp(op, s.data[ids[k] + 1], part) \in [1 .. size -> Bit]
    BY <1>2, <1>3, <1>5, <2>2, BinOpFacts
  <2> QED BY <1>3, <2>1, <2>3 DEF NewPart, NewValue, part, size
<1> QED BY <1>4, <1>5

\* An operation on the variables of a group: bytes for all of them, and each
\* of them once.
OnGroup(s, ids, bytes, op) ==
    /\ s \in ServerType /\ Fits(s.vars, s.data) /\ ids \in Seq(Nat)
    /\ \A k \in DOMAIN ids : ids[k] < Len(s.vars)
    /\ \A j, k \in DOMAIN ids : ids[j] = ids[k] => j = k
    /\ bytes \in Seq(Bit) /\ Len(bytes) = SizesOf(s.vars, ids)
    /\ op \in BinOps \cup {Assign}

LEMMA GroupParts ==
    ASSUME NEW s, NEW ids, NEW bytes, NEW op, OnGroup(s, ids, bytes, op), NEW g, NEW f,
           Places(s, ids, g), GroupLoop(s, ids, bytes, op, g, f)
    PROVE  \A k \in 1 .. Len(ids) :
              f[Len(ids)].srv.data[ids[k] + 1] = NewPart(s, ids, bytes, op, g, k)
<1>0. /\ s \in ServerType /\ Fits(s.vars, s.data) /\ ids \in Seq(Nat)
      /\ \A k \in DOMAIN ids : ids[k] < Len(s.vars)
      /\ \A j, k \in DOMAIN ids : ids[j] = ids[k] => j = k
      /\ bytes \in Seq(Bit) /\ Len(bytes) = SizesOf(s.vars, ids)
      /\ op \in BinOps \cup {Assign}
  BY DEF OnGroup
<1> USE <1>0
<1> DEFINE n == Len(ids)
           Part(k) == NewPart(s, ids, bytes, op, g, k)
           G == {m \in 0 .. n : \A k \in 1 .. m : f[m].srv.data[ids[k] + 1] = Part(k)}
<1>1. n \in Nat /\ DOMAIN ids = 1 .. n
  OBVIOUS
<1>2. 0 \in G
  BY <1>1
<1>3. ASSUME NEW m \in 1 .. n, m - 1 \in G PROVE m \in G
  <2> DEFINE old == f[m - 1].srv
  <2>1. m - 1 \in 0 .. n /\ m \in 0 .. n /\ m \in DOMAIN ids
    BY <1>1
  <2>2. /\ f[m] = Turn(s, ids, bytes, op, m, f[m - 1]) /\ f[m - 1].payloadp = g[m - 1]
        /\ Rewritten(s, old, ids)
    BY <2>1 DEF GroupLoop
  <2>3. g[m] = g[m - 1] + s.vars[ids[m] + 1].size
    BY <2>1 DEF Places
  <2>4. f[m].srv = SetVar(old, ids[m], Part(m))
    BY <2>2, <2>3 DEF Turn, NewPart
  <2>5. old \in ServerType /\ Len(old.data) = Len(s.vars) /\ ids[m] \in Nat /\ ids[m] < Len(old.data)
    BY <2>1, <2>2 DEF Rewritten, Fits
  <2>6. Part(m) \in Seq(Bit)
    <3>1. Part(m) \in [1 .. s.vars[ids[m] + 1].size -> Bit]
      BY <2>1, NewPartTyped
    <3>2. s.vars[ids[m] + 1].size \in Nat
      BY <2>1 DEF Places
    <3> QED BY <3>1, <3>2, BitsSeq
  <2>7. /\ f[m].srv.data[ids[m] + 1] = Part(m)
        /\ \A k \in DOMAIN old.data : k # ids[m] + 1 => f[m].srv.data[k] = old.data[k]
    <3> HIDE DEF Part, old
    <3> QED BY <2>4, <2>5, <2>6, SetVarFacts
  <2>8. ASSUME NEW k \in 1 .. m PROVE f[m].srv.data[ids[k] + 1] = Part(k)
    <3>1. CASE k = m
      BY <2>7, <3>1
    <3>2. CASE k # m
      <4>1. k \in 1 .. m - 1 /\ k \in DOMAIN ids /\ ids[k] \in Nat /\ ids[k] < Len(s.vars)
        BY <1>1, <2>1, <3>2
      <4>2. old.data[ids[k] + 1] = Part(k)
        BY <1>3, <4>1
      <4>3. ids[k] + 1 # ids[m] + 1
        BY <2>1, <2>5, <3>2, <4>1
      <4>4. ids[k] + 1 \in DOMAIN old.data
        <5>1. DOMAIN old.data = 1 .. Len(old.data)
          BY <2>5 DEF ServerType
        <5>2. ids[k] + 1 \in 1 .. Len(s.vars)
          <6>1. Len(s.vars) \in Nat
            BY DEF ServerType
          <6> QED BY <4>1, <6>1
        <5> HIDE DEF old
        <5> QED BY <2>5, <5>1, <5>2
      <4> QED BY <2>7, <4>2, <4>3, <4>4
    <3> QED BY <3>1, <3>2
  <2> QED BY <2>1, <2>8
<1> HIDE DEF G
<1>4. 0 .. n \subseteq G
  BY <1>1, <1>2, <1>3, TurnInduction
<1>5. n \in G
  BY <1>1, <1>4
<1> QED BY <1>5 DEF G

LEMMA Joined ==
    ASSUME NEW T, NEW p \in Seq(T), NEW q \in Seq(T)
    PROVE  /\ p \o q \in Seq(T) /\ Len(p \o q) = Len(p) + Len(q)
           /\ \A k \in 1 .. Len(p) : (p \o q)[k] = p[k]
           /\ \A k \in 1 .. Len(q) : (p \o q)[Len(p) + k] = q[k]
OBVIOUS

\* Two sequences of one length that agree everywhere.
LEMMA SameSeq ==
    ASSUME NEW T, NEW p \in Seq(T), NEW q \in Seq(T), Len(p) = Len(q),
           \A k \in 1 .. Len(p) : p[k] = q[k]
    PROVE  p = q
OBVIOUS

\* The parts of the bytes put together are the bytes.
LEMMA PartsJoin ==
    ASSUME NEW bytes \in Seq(Bit), NEW a \in Nat, NEW b \in Nat, a <= b, b <= Len(bytes)
    PROVE  /\ SubSeq(bytes, 1, a) \o SubSeq(bytes, a + 1, b) = SubSeq(bytes, 1, b)
           /\ SubSeq(bytes, 1, a) \in Seq(Bit) /\ Len(SubSeq(bytes, 1, a)) = a
           /\ SubSeq(bytes, a + 1, b) \in Seq(Bit) /\ Len(SubSeq(bytes, a + 1, b)) = b - a
<1> DEFINE p == SubSeq(bytes, 1, a)
           q == SubSeq(bytes, a + 1, b)
           r == SubSeq(bytes, 1, b)
<1>1. p = [k \in 1 .. a |-> bytes[k]] /\ r = [k \in 1 .. b |-> bytes[k]]
  OBVIOUS
<1>2. q = [k \in 1 .. b - a |-> bytes[a + k]]
  <2>1. b - (a + 1) + 1 = b - a /\ \A k \in 1 .. b - a : a + 1 + k - 1 = a + k
    OBVIOUS
  <2>2. q = [k \in 1 .. b - (a + 1) + 1 |-> bytes[a + 1 + k - 1]]
    OBVIOUS
  <2> QED BY <2>1, <2>2
<1>3. /\ \A k \in 1 .. a : bytes[k] \in Bit
      /\ \A k \in 1 .. b : bytes[k] \in Bit
      /\ \A k \in 1 .. b - a : bytes[a + k] \in Bit
  <2>1. /\ \A k \in 1 .. b : k \in 1 .. Len(bytes)
        /\ \A k \in 1 .. a : k \in 1 .. Len(bytes)
        /\ \A k \in 1 .. b - a : a + k \in 1 .. Len(bytes)
    OBVIOUS
  <2> QED BY <2>1
<1> HIDE DEF p, q, r
<1>4. p \in Seq(Bit) /\ Len(p) = a /\ \A k \in 1 .. a : p[k] = bytes[k]
  BY <1>1, <1>3
<1>5. r \in Seq(Bit) /\ Len(r) = b /\ \A k \in 1 .. b : r[k] = bytes[k]
  BY <1>1, <1>3
<1>6. q \in Seq(Bit) /\ Len(q) = b - a /\ \A k \in 1 .. b - a : q[k] = bytes[a + k]
  <2>1. b - a \in Nat
    OBVIOUS
  <2> QED BY <1>2, <1>3, <2>1
<1>7. p \o q = r
  <2>1. p \o q \in Seq(Bit) /\ Len(p \o q) = b
    <3>1. p \o q \in Seq(Bit) /\ Len(p \o q) = Len(p) + Len(q)
      BY <1>4, <1>6, Joined, Zenon
    <3>2. a + (b - a) = b
      OBVIOUS
    <3> QED BY <1>4, <1>6, <3>1, <3>2
  <2>2. ASSUME NEW k \in 1 .. b PROVE (p \o q)[k] = r[k]
    <3>1. CASE k <= a
      <4>1. (p \o q)[k] = p[k]
        BY <1>4, <1>6, <3>1
      <4> QED BY <1>4, <1>5, <3>1, <4>1
    <3>2. CASE k > a
      <4>1. (p \o q)[k] = q[k - a] /\ k - a \in 1 .. b - a
        BY <1>4, <1>6, <3>2
      <4>2. a + (k - a) = k
        OBVIOUS
      <4>3. q[k - a] = bytes[a + (k - a)]
        BY <1>6, <4>1
      <4>4. q[k - a] = bytes[k]
        BY <4>2, <4>3, Zenon
      <4> QED BY <1>5, <4>1, <4>4
    <3>3. k <= a \/ k > a
      OBVIOUS
    <3> QED BY <3>1, <3>2, <3>3
  <2>3. p \o q \in Seq(Bit) /\ r \in Seq(Bit) /\ Len(p \o q) = Len(r)
        /\ \A k \in 1 .. Len(p \o q) : (p \o q)[k] = r[k]
    BY <1>5, <2>1, <2>2, Zenon
  <2> QED BY <2>3, SameSeq, Zenon
<1> QED BY <1>4, <1>6, <1>7 DEF p, q, r

\* An operation on two runs of bytes, one after the other.
OnBits(op) == \A x, y \in Bit : bin_op(op, x, y) \in Bit

Distributes(op, a, b, c, d) ==
    BinOp(op, a \o b, c \o d) = BinOp(op, a, c) \o BinOp(op, b, d)

LEMMA BinOpJoins ==
    ASSUME NEW op, NEW a \in Seq(Bit), NEW b \in Seq(Bit), NEW c \in Seq(Bit), NEW d \in Seq(Bit),
           Len(a) = Len(c), Len(b) = Len(d),
           OnBits(op)
    PROVE  Distributes(op, a, b, c, d)
<1> DEFINE m == Len(a)
           n == Len(b)
           p == BinOp(op, a, c)
           q == BinOp(op, b, d)
           r == BinOp(op, a \o b, c \o d)
<1>1. m \in Nat /\ n \in Nat /\ Len(a \o b) = m + n /\ a \o b \in Seq(Bit) /\ c \o d \in Seq(Bit)
      /\ Len(c \o d) = m + n
  BY SMTT(30)
<1>2. p = [k \in 1 .. m |-> bin_op(op, a[k], c[k])]
  BY DEF BinOp
<1>3. q = [k \in 1 .. n |-> bin_op(op, b[k], d[k])]
  BY DEF BinOp
<1>4. r = [k \in 1 .. m + n |-> bin_op(op, (a \o b)[k], (c \o d)[k])]
  BY <1>1 DEF BinOp
<1>5. \A k \in 1 .. m : a[k] \in Bit /\ c[k] \in Bit
  OBVIOUS
<1>6. \A k \in 1 .. n : b[k] \in Bit /\ d[k] \in Bit
  OBVIOUS
<1>7. \A k \in 1 .. m + n : (a \o b)[k] \in Bit /\ (c \o d)[k] \in Bit
  BY <1>1
<1>8. /\ \A k \in 1 .. m : (a \o b)[k] = a[k] /\ (c \o d)[k] = c[k]
      /\ \A k \in m + 1 .. m + n : (a \o b)[k] = b[k - m] /\ (c \o d)[k] = d[k - m]
  BY <1>1
<1> HIDE DEF m, n, p, q, r
<1>9. p \in Seq(Bit) /\ Len(p) = m /\ \A k \in 1 .. m : p[k] = bin_op(op, a[k], c[k])
  BY <1>1, <1>2, <1>5 DEF OnBits
<1>10. q \in Seq(Bit) /\ Len(q) = n /\ \A k \in 1 .. n : q[k] = bin_op(op, b[k], d[k])
  BY <1>1, <1>3, <1>6 DEF OnBits
<1>11. r \in Seq(Bit) /\ Len(r) = m + n
       /\ \A k \in 1 .. m + n : r[k] = bin_op(op, (a \o b)[k], (c \o d)[k])
  <2>1. m + n \in Nat
    BY <1>1
  <2>2. r \in [1 .. m + n -> Bit]
    BY <1>4, <1>7 DEF OnBits
  <2>3. r \in Seq(Bit) /\ Len(r) = m + n
    BY <2>1, <2>2, BitsSeq
  <2> QED BY <1>4, <2>3
<1>12. p \o q = r
  <2>1. p \o q \in Seq(Bit) /\ Len(p \o q) = m + n
    <3>1. p \in Seq(Bit) /\ q \in Seq(Bit) /\ Len(p) = m /\ Len(q) = n
      BY <1>9, <1>10
    <3>2. p \o q \in Seq(Bit) /\ Len(p \o q) = Len(p) + Len(q)
      BY <3>1, Joined, Zenon
    <3> QED BY <3>1, <3>2, Zenon
  <2>2. ASSUME NEW k \in 1 .. m + n PROVE (p \o q)[k] = r[k]
    <3>1. CASE k <= m
      <4>1. k \in 1 .. m
        BY <1>1, <3>1
      <4>2. (p \o q)[k] = p[k]
        BY <1>9, <1>10, <4>1
      <4> QED BY <1>8, <1>9, <1>11, <4>1, <4>2, ZenonT(60)
    <3>2. CASE k > m
      <4>1. k \in m + 1 .. m + n /\ k - m \in 1 .. n
        BY <1>1, <3>2
      <4>2. (p \o q)[k] = q[k - m]
        <5>1. p \in Seq(Bit) /\ q \in Seq(Bit) /\ Len(p) = m /\ Len(q) = n
          BY <1>9, <1>10
        <5>2. (p \o q)[m + (k - m)] = q[k - m]
          BY <4>1, <5>1, Joined
        <5>3. m + (k - m) = k
          BY <1>1
        <5> QED BY <5>2, <5>3, Zenon
      <4>3. q[k - m] = bin_op(op, b[k - m], d[k - m])
        BY <1>10, <4>1
      <4>4. (a \o b)[k] = b[k - m] /\ (c \o d)[k] = d[k - m]
        BY <1>8, <4>1
      <4>5. r[k] = bin_op(op, (a \o b)[k], (c \o d)[k])
        BY <1>11
      <4> QED BY <4>2, <4>3, <4>4, <4>5, Zenon
    <3>3. k <= m \/ k > m
      BY <1>1
    <3> QED BY <3>1, <3>2, <3>3
  <2>3. p \o q \in Seq(Bit) /\ r \in Seq(Bit) /\ Len(p \o q) = Len(r)
        /\ \A k \in 1 .. Len(p \o q) : (p \o q)[k] = r[k]
    BY <1>11, <2>1, <2>2, Zenon
  <2> QED BY <2>3, SameSeq, Zenon
<1> QED BY <1>12 DEF p, q, r, Distributes

\* What an operation on the variables of a group leaves in them.
NewValues(s, ids, bytes, op) == IF op = Assign THEN bytes ELSE BinOp(op, Values(s, ids), bytes)

\* The loop gives every variable of the group its part of the bytes, in order.
LEMMA ForGroupValues ==
    ASSUME NEW s, NEW ids, NEW bytes, NEW op, OnGroup(s, ids, bytes, op)
    PROVE  Values(ForGroup(s, ids, bytes, op), ids) = NewValues(s, ids, bytes, op)
<1>0. /\ s \in ServerType /\ Fits(s.vars, s.data) /\ ids \in Seq(Nat)
      /\ \A k \in DOMAIN ids : ids[k] < Len(s.vars)
      /\ bytes \in Seq(Bit) /\ Len(bytes) = SizesOf(s.vars, ids)
      /\ op \in BinOps \cup {Assign}
  BY DEF OnGroup
<1> DEFINE n == Len(ids)
           t == ForGroup(s, ids, bytes, op)
           size(k) == s.vars[ids[k] + 1].size
<1>1. PICK g, f : /\ Places(s, ids, g) /\ GroupLoop(s, ids, bytes, op, g, f)
                  /\ t = f[n].srv
  BY <1>0, ForGroupLoop
<1>2. n \in Nat /\ n \in 0 .. n /\ DOMAIN ids = 1 .. n
  OBVIOUS
<1>3. t \in ServerType /\ Fits(t.vars, t.data) /\ t.vars = s.vars
  BY <1>1, <1>2 DEF GroupLoop, Rewritten
<1>4. \A k \in 1 .. n : t.data[ids[k] + 1] = NewPart(s, ids, bytes, op, g, k)
  <2>1. \A k \in 1 .. Len(ids) :
            f[Len(ids)].srv.data[ids[k] + 1] = NewPart(s, ids, bytes, op, g, k)
    <3>1. Places(s, ids, g) /\ GroupLoop(s, ids, bytes, op, g, f)
      BY <1>1
    <3> HIDE DEF n, t
    <3> QED BY <3>1, GroupParts, ZenonT(60)
  <2> HIDE DEF t
  <2> QED BY <1>1, <2>1
<1>5. Places(t, ids, g)
  BY <1>1, <1>3 DEF Places
<1>6. PICK old : ValuesRead(s, ids, g, old)
  BY <1>0, <1>1, GroupValues DEF Reads
<1>13. /\ old \in [0 .. n -> Seq(Bit)] /\ old[0] = <<>> /\ Values(s, ids) = old[n]
       /\ \A k \in 1 .. n : old[k] = old[k - 1] \o s.data[ids[k] + 1]
                            /\ s.data[ids[k] + 1] \in [1 .. size(k) -> Bit]
       /\ \A k \in 0 .. n : Len(old[k]) = g[k]
  BY <1>6 DEF ValuesRead
<1>7. PICK new : ValuesRead(t, ids, g, new)
  <2>1. Reads(t, ids)
    BY <1>0, <1>3 DEF Reads
  <2> HIDE DEF t
  <2> QED BY <1>5, <2>1, GroupValues
<1>14. /\ new \in [0 .. n -> Seq(Bit)] /\ new[0] = <<>> /\ Values(t, ids) = new[n]
       /\ \A k \in 1 .. n : new[k] = new[k - 1] \o t.data[ids[k] + 1]
       /\ \A k \in 0 .. n : Len(new[k]) = g[k]
  <2> HIDE DEF t
  <2> QED BY <1>7 DEF ValuesRead
<1>8. /\ g \in [0 .. n -> Nat] /\ g[0] = 0 /\ g[n] = Len(bytes)
      /\ \A k \in 1 .. n : g[k] = g[k - 1] + size(k) /\ g[k] <= Len(bytes) /\ size(k) \in Nat
  BY <1>0, <1>1 DEF Places
<1>9. \A k \in 1 .. n : /\ k - 1 \in 0 .. n /\ k \in 0 .. n
                        /\ g[k - 1] \in Nat /\ g[k] \in Nat /\ g[k - 1] <= g[k]
  <2> TAKE k \in 1 .. n
  <2>1. k - 1 \in 0 .. n /\ k \in 0 .. n
    BY <1>2
  <2>2. g[k - 1] \in Nat /\ g[k] \in Nat
    BY <1>8, <2>1
  <2>3. g[k] = g[k - 1] + size(k) /\ size(k) \in Nat
    BY <1>8
  <2> HIDE DEF size
  <2> QED BY <2>1, <2>2, <2>3
<1> HIDE DEF n, t, size
<1>10. CASE op = Assign
  <2> DEFINE G == {k \in 0 .. n : new[k] = SubSeq(bytes, 1, g[k])}
  <2>1. 0 \in G
    <3>1. SubSeq(bytes, 1, 0) = <<>>
      OBVIOUS
    <3>2. 0 \in 0 .. n
      BY <1>2
    <3> QED BY <1>14, <1>8, <3>1, <3>2
  <2>2. ASSUME NEW k \in 1 .. n, k - 1 \in G PROVE k \in G
    <3>1. t.data[ids[k] + 1] = SubSeq(bytes, g[k - 1] + 1, g[k])
      BY <1>4, <1>10 DEF NewPart, NewValue
    <3>2. new[k] = SubSeq(bytes, 1, g[k - 1]) \o SubSeq(bytes, g[k - 1] + 1, g[k])
      BY <1>14, <2>2, <3>1
    <3>3. SubSeq(bytes, 1, g[k - 1]) \o SubSeq(bytes, g[k - 1] + 1, g[k]) = SubSeq(bytes, 1, g[k])
      <4>1. g[k - 1] \in Nat /\ g[k] \in Nat /\ g[k - 1] <= g[k] /\ g[k] <= Len(bytes)
        BY <1>8, <1>9
      <4> QED BY <1>0, <4>1, PartsJoin, Zenon
    <3> QED BY <1>9, <3>2, <3>3
  <2> HIDE DEF G
  <2>3. 0 .. n \subseteq G
    BY <1>2, <2>1, <2>2, TurnInduction
  <2>4. new[n] = SubSeq(bytes, 1, Len(bytes))
    BY <1>2, <1>8, <2>3 DEF G
  <2>5. SubSeq(bytes, 1, Len(bytes)) = bytes
    BY <1>0
  <2> QED BY <1>14, <1>10, <2>4, <2>5 DEF NewValues, t
<1>11. CASE op \in BinOps
  <2>0. op # Assign
    BY <1>11 DEF BinOps, Assign
  <2>1. OnBits(op)
    BY <1>11 DEF OnBits, bin_op, Bit, BinOps
  <2> DEFINE G == {k \in 0 .. n : new[k] = BinOp(op, old[k], SubSeq(bytes, 1, g[k]))}
  <2>2. 0 \in G
    <3>1. BinOp(op, <<>>, SubSeq(bytes, 1, g[0])) = <<>>
      BY DEF BinOp
    <3>2. 0 \in 0 .. n
      BY <1>2
    <3> QED BY <1>13, <1>14, <3>1, <3>2
  <2>3. ASSUME NEW k \in 1 .. n, k - 1 \in G PROVE k \in G
    <3> DEFINE a == old[k - 1]
               b == s.data[ids[k] + 1]
               c == SubSeq(bytes, 1, g[k - 1])
               d == SubSeq(bytes, g[k - 1] + 1, g[k])
    <3>1. t.data[ids[k] + 1] = BinOp(op, b, d)
      BY <1>4, <2>0 DEF NewPart, NewValue
    <3>2. new[k] = BinOp(op, a, c) \o BinOp(op, b, d)
      BY <1>14, <2>3, <3>1
    <3>3. /\ c \in Seq(Bit) /\ Len(c) = g[k - 1] /\ d \in Seq(Bit) /\ Len(d) = g[k] - g[k - 1]
          /\ c \o d = SubSeq(bytes, 1, g[k])
      <4>1. g[k - 1] \in Nat /\ g[k] \in Nat /\ g[k - 1] <= g[k] /\ g[k] <= Len(bytes)
        BY <1>8, <1>9
      <4> QED BY <1>0, <4>1, PartsJoin, Zenon
    <3>4. a \in Seq(Bit) /\ Len(a) = g[k - 1] /\ old[k] = a \o b
      BY <1>13, <1>9
    <3>5. b \in Seq(Bit) /\ Len(b) = g[k] - g[k - 1]
      <4>1. b \in Seq(Bit) /\ Len(b) = size(k)
        BY <1>13, <1>8, BitsSeq DEF size
      <4>2. g[k] = g[k - 1] + size(k) /\ g[k - 1] \in Nat /\ size(k) \in Nat
        BY <1>8, <1>9
      <4> HIDE DEF b
      <4> QED BY <4>1, <4>2
    <3> HIDE DEF a, b, c, d
    <3>6. Distributes(op, a, b, c, d)
      <4>1. Len(a) = Len(c) /\ Len(b) = Len(d)
        BY <3>3, <3>4, <3>5
      <4>2. a \in Seq(Bit) /\ b \in Seq(Bit) /\ c \in Seq(Bit) /\ d \in Seq(Bit)
        BY <3>3, <3>4, <3>5
      <4> QED BY <2>1, <4>1, <4>2, BinOpJoins
    <3> QED BY <1>9, <3>2, <3>3, <3>4, <3>6 DEF Distributes
  <2> HIDE DEF G
  <2>4. 0 .. n \subseteq G
    BY <1>2, <2>2, <2>3, TurnInduction
  <2>5. new[n] = BinOp(op, old[n], SubSeq(bytes, 1, Len(bytes)))
    BY <1>2, <1>8, <2>4 DEF G
  <2>6. SubSeq(bytes, 1, Len(bytes)) = bytes
    BY <1>0
  <2> QED BY <1>13, <1>14, <2>0, <2>5, <2>6 DEF NewValues, t
<1> QED BY <1>0, <1>10, <1>11

----------------------------------------------------------------------------
(* The entities of a world, and what one accepted request does to them.    *)

Ent(w) ==
    [data |-> w.srv.data,
     groups |-> [g \in 1 .. w.srv.count |-> w.srv.groups[g - 1].vars],
     mem |-> w.mem, ends |-> w.ends]

LEMMA EntFields ==
    ASSUME NEW w
    PROVE  /\ Ent(w).data = w.srv.data /\ Ent(w).mem = w.mem /\ Ent(w).ends = w.ends
           /\ Ent(w).groups = [g \in 1 .. w.srv.count |-> w.srv.groups[g - 1].vars]
           /\ DOMAIN Ent(w) = {"data", "groups", "mem", "ends"}
BY DEF Ent

\* Two worlds with the same entities.
LEMMA EntSame ==
    ASSUME NEW w, NEW v, v.srv.data = w.srv.data, v.mem = w.mem, v.ends = w.ends,
           v.srv.count = w.srv.count,
           \A g \in 1 .. w.srv.count : v.srv.groups[g - 1].vars = w.srv.groups[g - 1].vars
    PROVE  Ent(v) = Ent(w)
<1>1. [g \in 1 .. v.srv.count |-> v.srv.groups[g - 1].vars]
        = [g \in 1 .. w.srv.count |-> w.srv.groups[g - 1].vars]
  OBVIOUS
<1> QED BY <1>1 DEF Ent

\* The values of one variable.
LEMMA ValuesOfOne ==
    ASSUME NEW s, NEW id \in Nat, s.data[id + 1] \in Seq(Bit)
    PROVE  Values(s, <<id>>) = s.data[id + 1]
<1> DEFINE seqs == [k \in DOMAIN <<id>> |-> s.data[<<id>>[k] + 1]]
<1>1. DOMAIN <<id>> = 1 .. 1 /\ <<id>>[1] = id
  OBVIOUS
<1>2. seqs \in [1 .. 1 -> Seq(Bit)] /\ seqs[1] = s.data[id + 1]
  BY <1>1
<1>3. seqs \in Seq(Seq(Bit)) /\ Len(seqs) = 1
  BY <1>2, SeqOfLength
<1>4. Values(s, <<id>>) = FlattenSeq(seqs)
  BY DEF Values
<1> HIDE DEF seqs
<1>5. PICK g \in [1 .. 1 -> Seq(Bit)] : FlattenSeq(seqs) = g[1] /\ g[1] = seqs[1]
  <2>0. seqs \in Seq(Seq(Bit)) /\ Len(seqs) # 0
    BY <1>3
  <2>1. PICK g \in [1 .. Len(seqs) -> Seq(Bit)] :
            /\ FlattenSeq(seqs) = g[Len(seqs)] /\ g[1] = seqs[1]
            /\ \A i \in 2 .. Len(seqs) : g[i] = g[i - 1] \o seqs[i]
    BY <2>0, FlattenUnfold
  <2> QED BY <1>3, <2>1
<1> QED BY <1>2, <1>4, <1>5

\* The service counts the values of variables as the server does.
LEMMA ValuesOfEnt ==
    ASSUME NEW w, NEW ids
    PROVE  S!ValuesOf(Ent(w), ids) = Values(w.srv, ids)
<1>1. \A q : S!FlattenSeq(q) = FlattenSeq(q)
  BY Zenon DEF S!FlattenSeq, FlattenSeq
<1>2. Ent(w).data = w.srv.data
  BY EntFields
<1> QED BY <1>1, <1>2, Zenon DEF S!ValuesOf, Values

\* A server whose variables were rewritten has only those changed.
LEMMA RewrittenIsWritten ==
    ASSUME NEW w, WorldInv(w), NEW ids \in Seq(Nat), NEW t, Rewritten(w.srv, t, ids)
    PROVE  S!Written(Ent(w), Ent(WithServer(w, t)), ids, Values(t, ids))
<1> DEFINE v == WithServer(w, t)
           a == Ent(w)
           b == Ent(v)
<1>1. /\ w \in WorldType /\ w.srv \in ServerType /\ Fits(w.srv.vars, w.srv.data)
      /\ t \in ServerType /\ Fits(t.vars, t.data) /\ t.vars = w.srv.vars
      /\ t.count = w.srv.count /\ t.groups = w.srv.groups
  BY DEF WorldInv, ServerInv, Rewritten
<1>2. v.srv = t /\ v.mem = w.mem /\ v.ends = w.ends
  BY <1>1, WithServerFacts
<1> HIDE DEF v
<1>3. /\ a.data = w.srv.data /\ b.data = t.data
      /\ b = [data |-> t.data, groups |-> a.groups, mem |-> a.mem, ends |-> a.ends]
      /\ a = [data |-> w.srv.data, groups |-> a.groups, mem |-> a.mem, ends |-> a.ends]
  BY <1>1, <1>2 DEF Ent
<1>4. S!ValuesOf(b, ids) = Values(t, ids)
  BY <1>2, ValuesOfEnt
<1> HIDE DEF a, b
<1>5. [b EXCEPT !.data = a.data] = a
  BY <1>3
<1>6. DOMAIN w.srv.data = 1 .. Len(w.srv.vars) /\ DOMAIN w.srv.vars = 1 .. Len(w.srv.vars)
  BY <1>1 DEF Fits, ServerType
<1>7. ASSUME NEW k \in DOMAIN a.data PROVE Len(b.data[k]) = Len(a.data[k])
  <2>1. k \in DOMAIN w.srv.vars
    BY <1>3, <1>6
  <2>2. w.srv.vars[k].size \in Nat
    <3>1. w.srv.vars \in Seq(VarInfo)
      BY <1>1 DEF ServerType
    <3>2. w.srv.vars[k] \in VarInfo
      BY <2>1, <3>1
    <3> QED BY <3>2 DEF VarInfo
  <2>3. w.srv.data[k] \in [1 .. w.srv.vars[k].size -> Bit] /\ t.data[k] \in [1 .. w.srv.vars[k].size -> Bit]
    BY <1>1, <2>1 DEF Fits
  <2> QED BY <1>3, <2>2, <2>3, BitsSeq
<1>8. ASSUME NEW k \in DOMAIN a.data, b.data[k] # a.data[k] PROVE k - 1 \in S!Range(ids)
  <2>1. k \in DOMAIN w.srv.data /\ t.data[k] # w.srv.data[k]
    BY <1>3, <1>8
  <2>2. PICK j \in DOMAIN ids : k = ids[j] + 1
    BY <2>1 DEF Rewritten
  <2>3. ids[j] \in Nat
    OBVIOUS
  <2>4. k - 1 = ids[j]
    BY <2>2, <2>3
  <2> QED BY <2>4 DEF S!Range
<1>9. S!Written(a, b, ids, Values(t, ids))
  BY <1>4, <1>5, <1>7, <1>8 DEF S!Written
<1> QED BY <1>9 DEF a, b, v

LEMMA HeadAndBytes ==
    ASSUME NEW head \in Seq(Nat), NEW bytes \in Seq(Nat)
    PROVE  /\ head \o bytes \in Seq(Nat) /\ Len(head \o bytes) = Len(head) + Len(bytes)
           /\ \A k \in 1 .. Len(head) : (head \o bytes)[k] = head[k]
           /\ Rest(head \o bytes, Len(head)) = bytes
<1> DEFINE p == head \o bytes
           n == Len(head)
           m == Len(bytes)
           rest == Rest(p, n)
<1>1. n \in Nat /\ m \in Nat /\ p \in Seq(Nat) /\ Len(p) = n + m
      /\ (\A k \in 1 .. n : p[k] = head[k]) /\ \A k \in 1 .. m : p[n + k] = bytes[k]
  BY Joined
<1> HIDE DEF p
<1>2. rest = [k \in 1 .. m |-> p[n + k]]
  <2>1. n + m - (n + 1) + 1 = m /\ \A k \in 1 .. m : n + 1 + k - 1 = n + k
    BY <1>1
  <2>2. rest = [k \in 1 .. n + m - (n + 1) + 1 |-> p[n + 1 + k - 1]]
    BY <1>1, SMTT(30) DEF Rest
  <2> QED BY <2>1, <2>2
<1>3. bytes = [k \in 1 .. m |-> bytes[k]]
  OBVIOUS
<1>4. rest = bytes
  BY <1>1, <1>2, <1>3
<1> QED BY <1>1, <1>4 DEF p

\* How many effects a call has had before its next request, and what they showed.
Had(c) == IF c.op \in S!Blocks THEN c.i ELSE 0
HadSeen(c) == IF c.op = "read_curve" THEN c.bytes ELSE <<>>

\* From world w to world v the next effect of call c happens, and shows out.
HasEffect(w, v, c, out) ==
    /\ S!Effect(Ent(w), Ent(v), Plain(c), Had(c) + 1)
    /\ out = S!Shown(Ent(v), Plain(c), Had(c) + 1)
    /\ c.op \in S!Blocks => c.i < NBlocks

\* A request is executed, or refused and nothing happens.
Outcome(w, step, c) ==
    IF step.answer.code \in Ops[c.op].answer
    THEN HasEffect(w, step.world, c, Out(step.answer)) ELSE Ent(step.world) = Ent(w)

LEMMA PlainFields ==
    ASSUME NEW c \in CallType
    PROVE  /\ c # NoCall /\ Plain(c) # S!NoCall
           /\ Plain(c).op = c.op /\ Plain(c).id = c.id /\ Plain(c).arg = c.arg
           /\ c.op # "read_curve" => Plain(c).bytes = c.bytes
<1>1. c.op \in OpNames \cup {"client_init"}
  BY DEF CallType
<1>2. c.op # "none"
  BY <1>1 DEF OpNames
<1>3. c # NoCall
  BY <1>2 DEF NoCall
<1>4. Plain(c) = [op |-> c.op, id |-> c.id, arg |-> c.arg,
                  bytes |-> IF c.op = "read_curve" THEN <<>> ELSE c.bytes]
  BY <1>3 DEF Plain
<1>5. Plain(c).op = c.op
  BY <1>4
<1>6. Plain(c) # S!NoCall
  BY <1>2, <1>5 DEF S!NoCall
<1> QED BY <1>3, <1>4, <1>6

\* An operation with one effect that shows out.
LEMMA SingleEffect ==
    ASSUME NEW w, NEW v, NEW c \in CallType, c.op \in S!Single, NEW out,
           S!Effect(Ent(w), Ent(v), Plain(c), 1), out = S!Shown(Ent(v), Plain(c), 1)
    PROVE  HasEffect(w, v, c, out)
<1>1. c.op \notin S!Blocks
  BY DEF S!Single, S!Blocks
<1> QED BY <1>1 DEF HasEffect, Had

\* The effects of the service, by operation.
LEMMA WriteEffects ==
    ASSUME NEW s, NEW t, NEW c, NEW k
    PROVE  /\ c.op \in {"write_var", "write_read_vars"} /\ S!Written(s, t, <<c.id>>, c.bytes)
                 => S!Effect(s, t, c, k)
           /\ c.op = "write_group" /\ S!Written(s, t, s.groups[c.id + 1], c.bytes)
                 => S!Effect(s, t, c, k)
<1>1. /\ c.op \in {"write_var", "write_read_vars"} => S!Vars(s, c) = <<c.id>>
      /\ c.op = "write_group" => S!Vars(s, c) = s.groups[c.id + 1]
  BY DEF S!Vars
<1> QED BY <1>1 DEF S!Effect

LEMMA OpEffects ==
    ASSUME NEW s, NEW t, NEW c, NEW k
    PROVE  /\ c.op = "bin_op_var"
              /\ S!Written(s, t, <<c.id>>, Bits(c.arg, S!ValuesOf(s, <<c.id>>), c.bytes))
                 => S!Effect(s, t, c, k)
           /\ c.op = "bin_op_group"
              /\ S!Written(s, t, s.groups[c.id + 1], Bits(c.arg, S!ValuesOf(s, s.groups[c.id + 1]), c.bytes))
                 => S!Effect(s, t, c, k)
<1>1. /\ c.op = "bin_op_var" => S!Vars(s, c) = <<c.id>>
      /\ c.op = "bin_op_group" => S!Vars(s, c) = s.groups[c.id + 1]
  BY DEF S!Vars
<1> QED BY <1>1 DEF S!Effect

\* The other operations on variables, groups and functions.
LEMMA OtherEffects ==
    ASSUME NEW s, NEW t, NEW c, NEW k
    PROVE  /\ c.op \in {"read_var", "read_group", "func_execute", "request_curve_block", "read_curve"} /\ t = s
                 => S!Effect(s, t, c, k)
           /\ c.op = "create_group" /\ t = [s EXCEPT !.groups = Append(@, c.bytes)]
                 => S!Effect(s, t, c, k)
           /\ c.op = "remove_all_groups" /\ t = [s EXCEPT !.groups = SubSeq(@, 1, 3)]
                 => S!Effect(s, t, c, k)
           /\ c.op = "send_curve_block" /\ S!BlockTaken(s, t, c.id, c.arg, c.bytes)
                 => S!Effect(s, t, c, k)
           /\ c.op = "write_curve" /\ S!BlockTaken(s, t, c.id, k - 1, S!BlockOf(c.bytes, k - 1))
                 => S!Effect(s, t, c, k)
BY DEF S!Effect

LEMMA ShownBy ==
    ASSUME NEW t, NEW c, NEW k
    PROVE  /\ c.op = "read_var" => S!Shown(t, c, k) = t.data[c.id + 1]
           /\ c.op = "write_read_vars" => S!Shown(t, c, k) = t.data[c.arg + 1]
           /\ c.op = "read_group" => S!Shown(t, c, k) = S!ValuesOf(t, t.groups[c.id + 1])
           /\ c.op = "request_curve_block" => S!Shown(t, c, k) = t.mem[c.id * NBlocks + c.arg]
           /\ c.op = "read_curve" => S!Shown(t, c, k) = t.mem[c.id * NBlocks + k - 1]
           /\ c.op \in {"write_var", "bin_op_var", "write_group", "bin_op_group", "create_group",
                        "remove_all_groups", "send_curve_block", "write_curve", "func_execute"}
                 => S!Shown(t, c, k) = <<>>
BY DEF S!Shown

LEMMA OpsAnswers ==
    /\ Ops["read_var"].answer = {"VAR_VALUE"}
    /\ Ops["write_var"].answer = {"OK"}
    /\ Ops["write_read_vars"].answer = {"VAR_VALUE"}
    /\ Ops["bin_op_var"].answer = {"OK"}
    /\ Ops["read_group"].answer = {"GROUP_VALUES"}
    /\ Ops["write_group"].answer = {"OK"}
    /\ Ops["bin_op_group"].answer = {"OK"}
    /\ Ops["create_group"].answer = {"OK"}
    /\ Ops["remove_all_groups"].answer = {"OK"}
    /\ Ops["request_curve_block"].answer = {"CURVE_BLOCK"}
    /\ Ops["read_curve"].answer = {"CURVE_BLOCK"}
    /\ Ops["send_curve_block"].answer = {"OK"}
    /\ Ops["write_curve"].answer = {"OK"}
    /\ Ops["recalc_checksum"].answer = {"OK"}
    /\ Ops["func_execute"].answer = {"FUNC_RETURN", "FUNC_ERROR"}
BY DEF Ops, Op

----------------------------------------------------------------------------
(* The requests on variables.                                              *)

Refusals == {"INVALID_PAYLOAD_SIZE", "INVALID_ID", "READ_ONLY", "OP_NOT_SUPPORTED", "INVALID_VALUE",
             "RESOURCE_BUSY", "INSUFFICIENT_MEMORY", "MALFORMED_MESSAGE"}

Refused(w, step) == \E code \in Refusals : step = Refuse(w, code)

LEMMA SentFields ==
    ASSUME NEW w, NEW s, NEW code, NEW payload
    PROVE  /\ Send(w, s, code, payload).world = WithServer(w, s)
           /\ Send(w, s, code, payload).answer = Message(code, payload)
           /\ Send(w, s, code, payload).answer.code = code
BY DEF Send, Message, WithServer

\* A refused request leaves the world as it is.
LEMMA RefusedOutcome ==
    ASSUME NEW w, WorldInv(w), NEW c, c.op \in OpNames, NEW step, Refused(w, step)
    PROVE  Outcome(w, step, c)
<1>1. PICK code \in Refusals : step = Refuse(w, code)
  BY DEF Refused
<1>2. step.world = w
  BY <1>1, NothingServed
<1>3. step.answer.code = code
  BY <1>1, SentFields DEF Refuse
<1>4. code \notin Ops[c.op].answer
  BY <1>1, OpsAnswers DEF OpNames, Refusals
<1> QED BY <1>2, <1>3, <1>4 DEF Outcome

\* What a request that is sent does.
LEMMA SentOutcome ==
    ASSUME NEW w, NEW c, NEW s, NEW code, code \in Ops[c.op].answer, NEW payload,
           NEW step, step = Send(w, s, code, payload), NEW out, out = Out(Message(code, payload)),
           HasEffect(w, WithServer(w, s), c, out)
    PROVE  Outcome(w, step, c)
<1>1. step.world = WithServer(w, s) /\ step.answer = Message(code, payload) /\ step.answer.code = code
  BY SentFields
<1> QED BY <1>1, Zenon DEF Outcome

LEMMA OutOf ==
    ASSUME NEW x
    PROVE  /\ Out(Message("VAR_VALUE", x)) = x /\ Out(Message("GROUP_VALUES", x)) = x
           /\ Out(Message("OK", x)) = <<>> /\ Out(Message("FUNC_RETURN", x)) = <<>>
           /\ Out(Message("FUNC_ERROR", x)) = <<>>
           /\ Out(Message("CURVE_BLOCK", x)) = Rest(x, 3)
BY DEF Out, Message, BSMP_CURVE_BLOCK_INFO

LEMMA SameServer ==
    ASSUME NEW w, WorldInv(w)
    PROVE  WithServer(w, w.srv) = w
BY DEF WithServer, WorldInv, WorldType

\* The value of a variable.
LEMMA ValueTyped ==
    ASSUME NEW s, s \in ServerType, Fits(s.vars, s.data), NEW id \in Nat, id < Len(s.vars)
    PROVE  /\ id + 1 \in DOMAIN s.vars /\ s.vars[id + 1].size \in Nat
           /\ s.data[id + 1] \in [1 .. s.vars[id + 1].size -> Bit]
           /\ s.data[id + 1] \in Seq(Bit) /\ Len(s.data[id + 1]) = s.vars[id + 1].size
<1>1. s.vars \in Seq(VarInfo) /\ DOMAIN s.vars = 1 .. Len(s.vars)
  BY DEF ServerType
<1>2. id + 1 \in DOMAIN s.vars
  BY <1>1
<1>3. s.vars[id + 1].size \in Nat
  <2>1. s.vars[id + 1] \in VarInfo
    BY <1>1, <1>2
  <2> QED BY <2>1 DEF VarInfo
<1>4. s.data[id + 1] \in [1 .. s.vars[id + 1].size -> Bit]
  BY <1>2 DEF Fits
<1> QED BY <1>2, <1>3, <1>4, BitsSeq

\* A request with one effect that is executed.
LEMMA SingleSent ==
    ASSUME NEW w, NEW c \in CallType, c.op \in S!Single, NEW v, NEW s, NEW code,
           code \in Ops[c.op].answer, NEW payload, NEW step, step = Send(v, s, code, payload),
           S!Effect(Ent(w), Ent(WithServer(v, s)), Plain(c), 1),
           Out(Message(code, payload)) = S!Shown(Ent(WithServer(v, s)), Plain(c), 1)
    PROVE  Outcome(w, step, c)
<1> DEFINE out == Out(Message(code, payload))
<1>1. step.world = WithServer(v, s) /\ step.answer = Message(code, payload) /\ step.answer.code = code
  BY SentFields
<1> HIDE DEF out
<1>2. HasEffect(w, WithServer(v, s), c, out)
  BY SingleEffect DEF out
<1> QED BY <1>1, <1>2, Zenon DEF Outcome, out

LEMMA ReadVarDone ==
    ASSUME NEW w, WorldInv(w), NEW c \in CallType, c.op = "read_var", NEW p \in Seq(Nat), p[1] = c.id
    PROVE  Outcome(w, var_read(w, p), c)
<1>0. c.op \in OpNames /\ c.op \in S!Single /\ "VAR_VALUE" \in Ops[c.op].answer
  BY OpsAnswers DEF OpNames, S!Single
<1>1. CASE Len(p) # 1 \/ p[1] >= Len(w.srv.vars)
  <2>1. Refused(w, var_read(w, p))
    BY <1>1 DEF var_read, Refused, Refusals
  <2> QED BY <1>0, <2>1, RefusedOutcome
<1>2. CASE ~(Len(p) # 1 \/ p[1] >= Len(w.srv.vars))
  <2> DEFINE out == w.srv.data[c.id + 1]
  <2>1. var_read(w, p) = Send(w, w.srv, "VAR_VALUE", out)
    BY <1>2, Zenon DEF var_read
  <2>2. Plain(c).op = "read_var" /\ Plain(c).id = c.id
    BY PlainFields
  <2>3. S!Effect(Ent(w), Ent(w), Plain(c), 1)
    BY <2>2, OtherEffects
  <2>4. out = S!Shown(Ent(w), Plain(c), 1)
    <3>1. S!Shown(Ent(w), Plain(c), 1) = Ent(w).data[Plain(c).id + 1]
      BY <2>2, ShownBy
    <3> QED BY <2>2, <3>1, EntFields
  <2>5. out = Out(Message("VAR_VALUE", out)) /\ WithServer(w, w.srv) = w
    BY OutOf, SameServer
  <2> HIDE DEF out
  <2> QED BY <1>0, <2>1, <2>3, <2>4, <2>5, SingleSent
<1> QED BY <1>1, <1>2

\* A server with one new value.
LEMMA OneWritten ==
    ASSUME NEW w, WorldInv(w), NEW id \in Nat, id < Len(w.srv.vars),
           NEW v \in [1 .. w.srv.vars[id + 1].size -> Bit]
    PROVE  LET t == SetVar(w.srv, id, v)
           IN  /\ S!Written(Ent(w), Ent(WithServer(w, t)), <<id>>, v)
               /\ WithServer(w, t).srv = t
               /\ Values(w.srv, <<id>>) = w.srv.data[id + 1]
<1> DEFINE t == SetVar(w.srv, id, v)
<1>1. w \in WorldType /\ w.srv \in ServerType /\ Fits(w.srv.vars, w.srv.data)
  BY DEF WorldInv, ServerInv
<1>2. Rewritten(w.srv, t, <<id>>)
  BY <1>1, OneRewritten
<1>3. t \in ServerType /\ Fits(t.vars, t.data) /\ t.vars = w.srv.vars
  BY <1>2 DEF Rewritten
<1>4. v \in Seq(Bit) /\ t.data[id + 1] = v
  <2>1. w.srv.vars[id + 1].size \in Nat
    BY <1>1, ValueTyped
  <2>2. v \in Seq(Bit)
    BY <2>1, BitsSeq
  <2>3. id < Len(w.srv.data)
    BY <1>1 DEF Fits
  <2> QED BY <1>1, <2>2, <2>3, SetVarFacts
<1>5. WithServer(w, t).srv = t
  BY <1>1, <1>3, WithServerFacts
<1> HIDE DEF t
<1>6. Values(t, <<id>>) = v
  BY <1>4, ValuesOfOne
<1>7. S!Written(Ent(w), Ent(WithServer(w, t)), <<id>>, Values(t, <<id>>))
  BY <1>2, RewrittenIsWritten, Headers
<1>8. Values(w.srv, <<id>>) = w.srv.data[id + 1]
  BY <1>1, ValueTyped, ValuesOfOne
<1> QED BY <1>5, <1>6, <1>7, <1>8 DEF t

\* A payload of two numbers at most before the bytes.
AsksOne(p, a, bytes) == a \in Nat /\ bytes \in Seq(Bit) /\ p = <<a>> \o bytes
AsksTwo(p, a, b, bytes) == a \in Nat /\ b \in Nat /\ bytes \in Seq(Bit) /\ p = <<a, b>> \o bytes

LEMMA AskedOne ==
    ASSUME NEW a, NEW bytes, NEW p, AsksOne(p, a, bytes)
    PROVE  /\ p \in Seq(Nat) /\ Len(p) = 1 + Len(bytes) /\ p[1] = a /\ Rest(p, 1) = bytes
           /\ a \in Nat /\ bytes \in Seq(Bit)
<1>0. a \in Nat /\ bytes \in Seq(Bit) /\ p = <<a>> \o bytes
  BY DEF AsksOne
<1> USE <1>0
<1>1. <<a>> \in Seq(Nat) /\ Len(<<a>>) = 1 /\ <<a>>[1] = a /\ bytes \in Seq(Nat)
  BY DEF Bit
<1>2. /\ <<a>> \o bytes \in Seq(Nat) /\ Len(<<a>> \o bytes) = Len(<<a>>) + Len(bytes)
      /\ \A k \in 1 .. Len(<<a>>) : (<<a>> \o bytes)[k] = <<a>>[k]
      /\ Rest(<<a>> \o bytes, Len(<<a>>)) = bytes
  BY <1>1, HeadAndBytes, Zenon
<1>3. 1 \in 1 .. Len(<<a>>)
  BY <1>1
<1>4. p[1] = a
  BY <1>1, <1>2, <1>3, Zenon
<1> QED BY <1>1, <1>2, <1>4, Zenon

LEMMA AskedTwo ==
    ASSUME NEW a, NEW b, NEW bytes, NEW p, AsksTwo(p, a, b, bytes)
    PROVE  /\ p \in Seq(Nat) /\ Len(p) = 2 + Len(bytes) /\ p[1] = a /\ p[2] = b
           /\ Rest(p, 2) = bytes /\ a \in Nat /\ b \in Nat /\ bytes \in Seq(Bit)
<1>0. a \in Nat /\ b \in Nat /\ bytes \in Seq(Bit) /\ p = <<a, b>> \o bytes
  BY DEF AsksTwo
<1> USE <1>0
<1>1. <<a, b>> \in Seq(Nat) /\ Len(<<a, b>>) = 2 /\ <<a, b>>[1] = a /\ <<a, b>>[2] = b
      /\ bytes \in Seq(Nat)
  BY DEF Bit
<1>2. /\ <<a, b>> \o bytes \in Seq(Nat) /\ Len(<<a, b>> \o bytes) = Len(<<a, b>>) + Len(bytes)
      /\ \A k \in 1 .. Len(<<a, b>>) : (<<a, b>> \o bytes)[k] = <<a, b>>[k]
      /\ Rest(<<a, b>> \o bytes, Len(<<a, b>>)) = bytes
  BY <1>1, HeadAndBytes, Zenon
<1>3. 1 \in 1 .. Len(<<a, b>>) /\ 2 \in 1 .. Len(<<a, b>>)
  BY <1>1
<1>4. p[1] = a /\ p[2] = b
  BY <1>1, <1>2, <1>3, Zenon
<1> QED BY <1>1, <1>2, <1>4, Zenon

\* A request that names a variable and has as many bytes as the variable.
Whole(w, id, bytes, n, m) ==
    n \in Nat /\ m = n + Len(bytes) /\ m = n + w.srv.vars[id + 1].size

LEMMA VarNamed ==
    ASSUME NEW w, WorldInv(w), NEW id \in Nat, ~(id >= Len(w.srv.vars)), NEW bytes \in Seq(Bit),
           NEW n, NEW m, Whole(w, id, bytes, n, m)
    PROVE  id < Len(w.srv.vars) /\ bytes \in [1 .. w.srv.vars[id + 1].size -> Bit]
<1> DEFINE size == w.srv.vars[id + 1].size
           len == Len(bytes)
<1>1. w.srv \in ServerType /\ Fits(w.srv.vars, w.srv.data)
  BY DEF WorldInv, ServerInv
<1>2. id < Len(w.srv.vars)
  <2>1. Len(w.srv.vars) \in Nat
    BY <1>1 DEF ServerType
  <2> QED BY <2>1
<1>3. size \in Nat
  BY <1>1, <1>2, ValueTyped
<1>4. n \in Nat /\ len \in Nat /\ m = n + len /\ m = n + size
  BY DEF Whole
<1>5. bytes \in [1 .. len -> Bit]
  OBVIOUS
<1> HIDE DEF size, len
<1>6. size = len
  BY <1>3, <1>4
<1> QED BY <1>2, <1>5, <1>6 DEF size

\* A write to a variable is refused, or the variable takes the bytes.
LEMMA WriteVarDone ==
    ASSUME NEW w, WorldInv(w), NEW c \in CallType, c.op = "write_var",
           NEW p, AsksOne(p, c.id, c.bytes)
    PROVE  Outcome(w, var_write(w, p), c)
<1> DEFINE size == w.srv.vars[p[1] + 1].size
           goes == /\ ~(Len(p) < 2) /\ ~(p[1] >= Len(w.srv.vars)) /\ ~(Len(p) # 1 + size)
                   /\ ~(~w.srv.vars[p[1] + 1].writable)
<1>0. c.op \in OpNames /\ c.op \in S!Single /\ "OK" \in Ops[c.op].answer /\ c.id \in Nat
  BY OpsAnswers DEF OpNames, S!Single, CallType
<1>1. CASE ~goes
  <2>1. Refused(w, var_write(w, p))
    BY <1>1 DEF var_write, Refused, Refusals
  <2> QED BY <1>0, <2>1, RefusedOutcome
<1>2. CASE goes
  <2>1. p \in Seq(Nat) /\ Len(p) = 1 + Len(c.bytes) /\ p[1] = c.id /\ Rest(p, 1) = c.bytes
        /\ c.bytes \in Seq(Bit)
    BY AskedOne
  <2> DEFINE t == SetVar(w.srv, c.id, c.bytes)
  <2>2. var_write(w, p) = Send(w, t, "OK", <<>>)
    BY <1>2, <2>1, Zenon DEF var_write
  <2>3. ~(c.id >= Len(w.srv.vars)) /\ Len(p) = 1 + w.srv.vars[c.id + 1].size
    BY <1>2, <2>1, Zenon
  <2>4. Whole(w, c.id, c.bytes, 1, Len(p))
    BY <2>1, <2>3 DEF Whole
  <2>5. c.id < Len(w.srv.vars) /\ c.bytes \in [1 .. w.srv.vars[c.id + 1].size -> Bit]
    BY <1>0, <2>1, <2>3, <2>4, VarNamed
  <2>6. S!Written(Ent(w), Ent(WithServer(w, t)), <<c.id>>, c.bytes)
    BY <1>0, <2>5, OneWritten
  <2> HIDE DEF t
  <2>7. Plain(c).op = "write_var" /\ Plain(c).id = c.id /\ Plain(c).bytes = c.bytes
    BY PlainFields
  <2>8. S!Effect(Ent(w), Ent(WithServer(w, t)), Plain(c), 1)
    BY <2>6, <2>7, WriteEffects
  <2>9. Out(Message("OK", <<>>)) = S!Shown(Ent(WithServer(w, t)), Plain(c), 1)
    BY <2>7, OutOf, ShownBy
  <2> QED BY <1>0, <2>2, <2>8, <2>9, SingleSent
<1> QED BY <1>1, <1>2

LEMMA WriteReadDone ==
    ASSUME NEW w, WorldInv(w), NEW c \in CallType, c.op = "write_read_vars",
           NEW p, AsksTwo(p, c.id, c.arg, c.bytes)
    PROVE  Outcome(w, var_write_read(w, p), c)
<1> DEFINE size == w.srv.vars[p[1] + 1].size
           goes == /\ ~(Len(p) < 3)
                   /\ ~(p[1] >= Len(w.srv.vars) \/ p[2] >= Len(w.srv.vars))
                   /\ ~(Len(p) # 2 + size) /\ ~(~w.srv.vars[p[1] + 1].writable)
<1>0. c.op \in OpNames /\ c.op \in S!Single /\ "VAR_VALUE" \in Ops[c.op].answer /\ c.id \in Nat
  BY OpsAnswers DEF OpNames, S!Single, CallType
<1>1. CASE ~goes
  <2>1. Refused(w, var_write_read(w, p))
    BY <1>1 DEF var_write_read, Refused, Refusals
  <2> QED BY <1>0, <2>1, RefusedOutcome
<1>2. CASE goes
  <2>1. p \in Seq(Nat) /\ Len(p) = 2 + Len(c.bytes) /\ p[1] = c.id /\ p[2] = c.arg
        /\ Rest(p, 2) = c.bytes /\ c.bytes \in Seq(Bit)
    BY AskedTwo
  <2> DEFINE t == SetVar(w.srv, c.id, c.bytes)
  <2>2. var_write_read(w, p) = Send(w, t, "VAR_VALUE", t.data[c.arg + 1])
    BY <1>2, <2>1, Zenon DEF var_write_read
  <2>3. ~(c.id >= Len(w.srv.vars)) /\ Len(p) = 2 + w.srv.vars[c.id + 1].size
    BY <1>2, <2>1, Zenon
  <2>4. Whole(w, c.id, c.bytes, 2, Len(p))
    BY <2>1, <2>3 DEF Whole
  <2>5. c.id < Len(w.srv.vars) /\ c.bytes \in [1 .. w.srv.vars[c.id + 1].size -> Bit]
    BY <1>0, <2>1, <2>3, <2>4, VarNamed
  <2>6. /\ S!Written(Ent(w), Ent(WithServer(w, t)), <<c.id>>, c.bytes)
        /\ WithServer(w, t).srv = t
    BY <1>0, <2>5, OneWritten
  <2> HIDE DEF t
  <2>7. Plain(c).op = "write_read_vars" /\ Plain(c).id = c.id /\ Plain(c).arg = c.arg
        /\ Plain(c).bytes = c.bytes
    BY PlainFields
  <2>8. S!Effect(Ent(w), Ent(WithServer(w, t)), Plain(c), 1)
    BY <2>6, <2>7, WriteEffects
  <2>9. Out(Message("VAR_VALUE", t.data[c.arg + 1])) = S!Shown(Ent(WithServer(w, t)), Plain(c), 1)
    <3>1. S!Shown(Ent(WithServer(w, t)), Plain(c), 1) = Ent(WithServer(w, t)).data[c.arg + 1]
      BY <2>7, ShownBy
    <3>2. Ent(WithServer(w, t)).data = t.data
      BY <2>6, EntFields
    <3> QED BY <3>1, <3>2, OutOf
  <2> QED BY <1>0, <2>2, <2>8, <2>9, SingleSent
<1> QED BY <1>1, <1>2

LEMMA BinOpVarDone ==
    ASSUME NEW w, WorldInv(w), NEW c \in CallType, c.op = "bin_op_var",
           NEW p, AsksTwo(p, c.id, bin_op_code[c.arg + 1], c.bytes)
    PROVE  Outcome(w, var_bin_op(w, p), c)
<1> DEFINE size == w.srv.vars[p[1] + 1].size
           goes == /\ ~(Len(p) < 3) /\ ~(p[1] >= Len(w.srv.vars)) /\ ~(p[2] \notin BinOps)
                   /\ ~(Len(p) # 2 + size) /\ ~(~w.srv.vars[p[1] + 1].writable)
           letter == bin_op_code[c.arg + 1]
<1> HIDE DEF letter
<1>0. c.op \in OpNames /\ c.op \in S!Single /\ "OK" \in Ops[c.op].answer /\ c.id \in Nat
  BY OpsAnswers DEF OpNames, S!Single, CallType
<1>1. CASE ~goes
  <2>1. Refused(w, var_bin_op(w, p))
    BY <1>1 DEF var_bin_op, Refused, Refusals
  <2> QED BY <1>0, <2>1, RefusedOutcome
<1>2. CASE goes
  <2>1. p \in Seq(Nat) /\ Len(p) = 2 + Len(c.bytes) /\ p[1] = c.id /\ p[2] = letter
        /\ Rest(p, 2) = c.bytes /\ c.bytes \in Seq(Bit)
    BY AskedTwo DEF letter
  <2> DEFINE old == w.srv.data[c.id + 1]
             new == BinOp(letter, old, c.bytes)
             t == SetVar(w.srv, c.id, new)
  <2>2. var_bin_op(w, p) = Send(w, t, "OK", <<>>)
    BY <1>2, <2>1, Zenon DEF var_bin_op
  <2>3. ~(c.id >= Len(w.srv.vars)) /\ Len(p) = 2 + w.srv.vars[c.id + 1].size /\ letter \in BinOps
    BY <1>2, <2>1, Zenon
  <2>4. Whole(w, c.id, c.bytes, 2, Len(p))
    BY <2>1, <2>3 DEF Whole
  <2>5. c.id < Len(w.srv.vars) /\ c.bytes \in [1 .. w.srv.vars[c.id + 1].size -> Bit]
    BY <1>0, <2>1, <2>3, <2>4, VarNamed
  <2>6. old \in [1 .. w.srv.vars[c.id + 1].size -> Bit] /\ w.srv.vars[c.id + 1].size \in Nat
    BY <1>0, <2>5, ValueTyped DEF WorldInv, ServerInv
  <2> HIDE DEF old
  <2>7. new \in [1 .. w.srv.vars[c.id + 1].size -> Bit]
    BY <2>3, <2>5, <2>6, BinOpFacts
  <2> HIDE DEF new
  <2>8. /\ S!Written(Ent(w), Ent(WithServer(w, t)), <<c.id>>, new)
        /\ Values(w.srv, <<c.id>>) = w.srv.data[c.id + 1]
    BY <1>0, <2>5, <2>7, OneWritten
  <2> HIDE DEF t
  <2>9. Plain(c).op = "bin_op_var" /\ Plain(c).id = c.id /\ Plain(c).arg = c.arg
        /\ Plain(c).bytes = c.bytes
    BY PlainFields
  <2>10. Bits(Plain(c).arg, S!ValuesOf(Ent(w), <<Plain(c).id>>), Plain(c).bytes) = new
    BY <2>8, <2>9, ValuesOfEnt, Zenon DEF Bits, new, old, letter
  <2>11. S!Effect(Ent(w), Ent(WithServer(w, t)), Plain(c), 1)
    BY <2>8, <2>9, <2>10, OpEffects
  <2>12. Out(Message("OK", <<>>)) = S!Shown(Ent(WithServer(w, t)), Plain(c), 1)
    BY <2>9, OutOf, ShownBy
  <2> QED BY <1>0, <2>2, <2>11, <2>12, SingleSent
<1> QED BY <1>1, <1>2

----------------------------------------------------------------------------
(* The requests on groups.                                                 *)

\* A group lists each variable once.
LEMMA ListedOnce ==
    ASSUME NEW ids \in Seq(Nat), \A k \in 2 .. Len(ids) : ids[k - 1] < ids[k]
    PROVE  \A j, k \in DOMAIN ids : ids[j] = ids[k] => j = k
<1> DEFINE n == Len(ids)
<1>1. n \in Nat /\ DOMAIN ids = 1 .. n /\ \A k \in 1 .. n : ids[k] \in Nat
  OBVIOUS
<1>2. \A k \in 2 .. n : ids[k - 1] < ids[k]
  OBVIOUS
<1> HIDE DEF n
<1>3. ASSUME NEW j \in 1 .. n PROVE \A k \in 1 .. n : j < k => ids[j] < ids[k]
  <2> DEFINE G == {k \in 0 .. n : j < k => ids[j] < ids[k]}
  <2>1. 0 \in G
    BY <1>1
  <2>2. ASSUME NEW k \in 1 .. n, k - 1 \in G PROVE k \in G
    <3>1. CASE j < k - 1
      <4>1. k \in 2 .. n /\ k - 1 \in 1 .. n
        BY <1>1, <3>1
      <4>2. ids[j] < ids[k - 1] /\ ids[k - 1] < ids[k]
        BY <1>2, <2>2, <3>1, <4>1
      <4>3. ids[j] \in Nat /\ ids[k - 1] \in Nat /\ ids[k] \in Nat
        BY <1>1, <4>1
      <4> QED BY <4>1, <4>2, <4>3
    <3>2. CASE j = k - 1
      <4>1. k \in 2 .. n
        BY <1>1, <3>2
      <4> QED BY <1>1, <1>2, <3>2, <4>1
    <3>3. CASE j > k - 1
      BY <1>1, <3>3
    <3>4. j < k - 1 \/ j = k - 1 \/ j > k - 1
      BY <1>1
    <3> QED BY <3>1, <3>2, <3>3, <3>4
  <2> HIDE DEF G
  <2>3. 0 .. n \subseteq G
    BY <1>1, <2>1, <2>2, TurnInduction
  <2> QED BY <1>1, <2>3 DEF G
<1>4. ASSUME NEW j \in 1 .. n, NEW k \in 1 .. n, ids[j] = ids[k] PROVE j = k
  <2>1. ids[j] \in Nat /\ ids[k] \in Nat
    BY <1>1
  <2>2. ~(j < k) /\ ~(k < j)
    BY <1>3, <1>4, <2>1
  <2> QED BY <1>1, <2>2
<1> QED BY <1>1, <1>4

\* A group a master can address.
LEMMA GroupAddressed ==
    ASSUME NEW w, WorldInv(w), NEW g \in Nat, ~(g >= w.srv.count)
    PROVE  /\ w.srv.groups[g] \in GroupInfo /\ w.srv.groups[g].vars \in Seq(Nat)
           /\ w.srv.groups[g].size = SizesOf(w.srv.vars, w.srv.groups[g].vars)
           /\ w.srv.groups[g].size \in Nat
           /\ \A k \in DOMAIN w.srv.groups[g].vars : w.srv.groups[g].vars[k] < Len(w.srv.vars)
           /\ \A j, k \in DOMAIN w.srv.groups[g].vars :
                 w.srv.groups[g].vars[j] = w.srv.groups[g].vars[k] => j = k
           /\ Ent(w).groups[g + 1] = w.srv.groups[g].vars
<1> DEFINE grp == w.srv.groups[g]
<1>1. w.srv \in ServerType /\ w.srv.count \in 3 .. BSMP_MAX_GROUPS
  BY DEF WorldInv, ServerInv
<1>2. g \in 0 .. w.srv.count - 1 /\ g \in Slots /\ g + 1 \in 1 .. w.srv.count
  BY <1>1, ServerConstants DEF Slots
<1>3. Sound(w.srv.vars, grp, g) /\ grp \in GroupInfo
  BY <1>1, <1>2 DEF WorldInv, ServerInv, ServerType
<1>4. Ent(w).groups[g + 1] = grp.vars
  <2>1. Ent(w).groups = [k \in 1 .. w.srv.count |-> w.srv.groups[k - 1].vars]
    BY EntFields
  <2>2. g + 1 - 1 = g
    OBVIOUS
  <2> QED BY <1>2, <2>1, <2>2
<1> HIDE DEF grp
<1>5. /\ grp.vars \in Seq(Nat) /\ grp.size \in Nat /\ grp.size = SizesOf(w.srv.vars, grp.vars)
      /\ \A k \in DOMAIN grp.vars : grp.vars[k] < Len(w.srv.vars)
      /\ \A k \in 2 .. Len(grp.vars) : grp.vars[k - 1] < grp.vars[k]
  BY <1>3 DEF GroupInfo, Sound
<1>6. \A j, k \in DOMAIN grp.vars : grp.vars[j] = grp.vars[k] => j = k
  BY <1>5, ListedOnce
<1> QED BY <1>3, <1>4, <1>5, <1>6 DEF grp

LEMMA GroupWritten ==
    ASSUME NEW w, WorldInv(w), NEW g \in Nat, ~(g >= w.srv.count), NEW bytes \in Seq(Bit),
           Len(bytes) = w.srv.groups[g].size, NEW op \in BinOps \cup {Assign}
    PROVE  LET ids == w.srv.groups[g].vars
               t == ForGroup(w.srv, ids, bytes, op)
           IN  S!Written(Ent(w), Ent(WithServer(w, t)), Ent(w).groups[g + 1],
                         NewValues(w.srv, ids, bytes, op))
<1> DEFINE ids == w.srv.groups[g].vars
           t == ForGroup(w.srv, ids, bytes, op)
<1>1. w.srv \in ServerType /\ Fits(w.srv.vars, w.srv.data)
  BY DEF WorldInv, ServerInv
<1>2. /\ ids \in Seq(Nat) /\ Len(bytes) = SizesOf(w.srv.vars, ids)
      /\ \A k \in DOMAIN ids : ids[k] < Len(w.srv.vars)
      /\ \A j, k \in DOMAIN ids : ids[j] = ids[k] => j = k
      /\ Ent(w).groups[g + 1] = ids
  BY GroupAddressed
<1> HIDE DEF ids
<1>3. OnGroup(w.srv, ids, bytes, op)
  BY <1>1, <1>2 DEF OnGroup
<1>4. Values(t, ids) = NewValues(w.srv, ids, bytes, op)
  BY <1>3, ForGroupValues
<1>5. Rewritten(w.srv, t, ids)
  BY <1>1, <1>2, ForGroupFacts
<1> HIDE DEF t
<1>6. S!Written(Ent(w), Ent(WithServer(w, t)), ids, Values(t, ids))
  BY <1>2, <1>5, RewrittenIsWritten
<1> QED BY <1>2, <1>4, <1>6 DEF t, ids

LEMMA ReadGroupDone ==
    ASSUME NEW w, WorldInv(w), NEW c \in CallType, c.op = "read_group",
           NEW p, AsksOne(p, c.id, c.bytes)
    PROVE  Outcome(w, group_read(w, p), c)
<1> DEFINE goes == ~(Len(p) # 1) /\ ~(p[1] >= w.srv.count)
<1>0. c.op \in OpNames /\ c.op \in S!Single /\ "GROUP_VALUES" \in Ops[c.op].answer /\ c.id \in Nat
  BY OpsAnswers DEF OpNames, S!Single, CallType
<1>1. CASE ~goes
  <2>1. Refused(w, group_read(w, p))
    BY <1>1 DEF group_read, Refused, Refusals
  <2> QED BY <1>0, <2>1, RefusedOutcome
<1>2. CASE goes
  <2>1. p[1] = c.id
    BY AskedOne
  <2> DEFINE out == Values(w.srv, w.srv.groups[c.id].vars)
  <2>2. group_read(w, p) = Send(w, w.srv, "GROUP_VALUES", out)
    BY <1>2, <2>1, Zenon DEF group_read
  <2>3. ~(c.id >= w.srv.count)
    BY <1>2, <2>1, Zenon
  <2>4. Ent(w).groups[c.id + 1] = w.srv.groups[c.id].vars
    BY <1>0, <2>3, GroupAddressed
  <2>5. Plain(c).op = "read_group" /\ Plain(c).id = c.id
    BY PlainFields
  <2>6. S!Effect(Ent(w), Ent(w), Plain(c), 1)
    BY <2>5, OtherEffects
  <2>7. out = S!Shown(Ent(w), Plain(c), 1)
    <3>1. S!Shown(Ent(w), Plain(c), 1) = S!ValuesOf(Ent(w), Ent(w).groups[Plain(c).id + 1])
      BY <2>5, ShownBy
    <3> QED BY <2>4, <2>5, <3>1, ValuesOfEnt
  <2>8. out = Out(Message("GROUP_VALUES", out)) /\ WithServer(w, w.srv) = w
    BY OutOf, SameServer
  <2> HIDE DEF out
  <2> QED BY <1>0, <2>2, <2>6, <2>7, <2>8, SingleSent
<1> QED BY <1>1, <1>2

\* As many bytes as the variables of the group.
LEMMA GroupWhole ==
    ASSUME NEW w, WorldInv(w), NEW g \in Nat, ~(g >= w.srv.count), NEW bytes \in Seq(Bit),
           NEW n \in Nat, n + Len(bytes) = n + w.srv.groups[g].size
    PROVE  Len(bytes) = w.srv.groups[g].size
<1> DEFINE size == w.srv.groups[g].size
           len == Len(bytes)
<1>1. size \in Nat
  BY GroupAddressed
<1>2. len \in Nat /\ n + len = n + size
  OBVIOUS
<1> HIDE DEF size, len
<1>3. len = size
  BY <1>1, <1>2
<1> QED BY <1>3 DEF size, len

LEMMA WriteGroupDone ==
    ASSUME NEW w, WorldInv(w), NEW c \in CallType, c.op = "write_group",
           NEW p, AsksOne(p, c.id, c.bytes)
    PROVE  Outcome(w, group_write(w, p), c)
<1> DEFINE grp == w.srv.groups[p[1]]
           goes == /\ ~(Len(p) < 2) /\ ~(p[1] >= w.srv.count)
                   /\ ~(Len(p) # 1 + grp.size) /\ ~(~grp.writable)
<1>0. c.op \in OpNames /\ c.op \in S!Single /\ "OK" \in Ops[c.op].answer /\ c.id \in Nat
  BY OpsAnswers DEF OpNames, S!Single, CallType
<1>1. CASE ~goes
  <2>1. Refused(w, group_write(w, p))
    BY <1>1 DEF group_write, Refused, Refusals
  <2> QED BY <1>0, <2>1, RefusedOutcome
<1>2. CASE goes
  <2>1. Len(p) = 1 + Len(c.bytes) /\ p[1] = c.id /\ Rest(p, 1) = c.bytes /\ c.bytes \in Seq(Bit)
    BY AskedOne
  <2> DEFINE ids == w.srv.groups[c.id].vars
             t == ForGroup(w.srv, ids, c.bytes, Assign)
  <2>2. group_write(w, p) = Send(w, t, "OK", <<>>)
    BY <1>2, <2>1, Zenon DEF group_write
  <2>3. ~(c.id >= w.srv.count) /\ 1 + Len(c.bytes) = 1 + w.srv.groups[c.id].size
    BY <1>2, <2>1, Zenon
  <2>4. Len(c.bytes) = w.srv.groups[c.id].size
    <3>1. 1 \in Nat
      OBVIOUS
    <3> QED BY <1>0, <2>1, <2>3, <3>1, GroupWhole, Zenon
  <2>5. Assign \in BinOps \cup {Assign} /\ NewValues(w.srv, ids, c.bytes, Assign) = c.bytes
    BY DEF NewValues
  <2>6. S!Written(Ent(w), Ent(WithServer(w, t)), Ent(w).groups[c.id + 1], c.bytes)
    <3>1. S!Written(Ent(w), Ent(WithServer(w, t)), Ent(w).groups[c.id + 1],
                    NewValues(w.srv, ids, c.bytes, Assign))
      BY <1>0, <2>1, <2>3, <2>4, <2>5, GroupWritten
    <3> QED BY <2>5, <3>1
  <2> HIDE DEF t
  <2>7. Plain(c).op = "write_group" /\ Plain(c).id = c.id /\ Plain(c).bytes = c.bytes
    BY PlainFields
  <2>8. S!Effect(Ent(w), Ent(WithServer(w, t)), Plain(c), 1)
    BY <2>6, <2>7, WriteEffects
  <2>9. Out(Message("OK", <<>>)) = S!Shown(Ent(WithServer(w, t)), Plain(c), 1)
    BY <2>7, OutOf, ShownBy
  <2> QED BY <1>0, <2>2, <2>8, <2>9, SingleSent
<1> QED BY <1>1, <1>2

LEMMA BinOpGroupDone ==
    ASSUME NEW w, WorldInv(w), NEW c \in CallType, c.op = "bin_op_group",
           NEW p, AsksTwo(p, c.id, bin_op_code[c.arg + 1], c.bytes)
    PROVE  Outcome(w, group_bin_op(w, p), c)
<1> DEFINE grp == w.srv.groups[p[1]]
           goes == /\ ~(Len(p) < 2) /\ ~(p[1] >= w.srv.count) /\ ~(p[2] \notin BinOps)
                   /\ ~(Len(p) # 2 + grp.size) /\ ~(~grp.writable)
           letter == bin_op_code[c.arg + 1]
<1> HIDE DEF letter
<1>0. c.op \in OpNames /\ c.op \in S!Single /\ "OK" \in Ops[c.op].answer /\ c.id \in Nat
  BY OpsAnswers DEF OpNames, S!Single, CallType
<1>1. CASE ~goes
  <2>1. Refused(w, group_bin_op(w, p))
    BY <1>1 DEF group_bin_op, Refused, Refusals
  <2> QED BY <1>0, <2>1, RefusedOutcome
<1>2. CASE goes
  <2>1. Len(p) = 2 + Len(c.bytes) /\ p[1] = c.id /\ p[2] = letter /\ Rest(p, 2) = c.bytes
        /\ c.bytes \in Seq(Bit)
    BY AskedTwo DEF letter
  <2> DEFINE ids == w.srv.groups[c.id].vars
             t == ForGroup(w.srv, ids, c.bytes, letter)
             new == BinOp(letter, Values(w.srv, ids), c.bytes)
  <2>2. group_bin_op(w, p) = Send(w, t, "OK", <<>>)
    BY <1>2, <2>1, Zenon DEF group_bin_op
  <2>3. ~(c.id >= w.srv.count) /\ 2 + Len(c.bytes) = 2 + w.srv.groups[c.id].size
        /\ letter \in BinOps
    BY <1>2, <2>1, Zenon
  <2>4. Len(c.bytes) = w.srv.groups[c.id].size
    <3>1. 2 \in Nat
      OBVIOUS
    <3> QED BY <1>0, <2>1, <2>3, <3>1, GroupWhole, Zenon
  <2>5. letter \in BinOps \cup {Assign} /\ NewValues(w.srv, ids, c.bytes, letter) = new
    <3>1. letter # Assign
      BY <2>3 DEF BinOps, Assign
    <3> QED BY <2>3, <3>1 DEF NewValues
  <2>6. S!Written(Ent(w), Ent(WithServer(w, t)), Ent(w).groups[c.id + 1], new)
    <3>1. S!Written(Ent(w), Ent(WithServer(w, t)), Ent(w).groups[c.id + 1],
                    NewValues(w.srv, ids, c.bytes, letter))
      BY <1>0, <2>1, <2>3, <2>4, <2>5, GroupWritten
    <3> QED BY <2>5, <3>1
  <2> HIDE DEF t
  <2>7. Plain(c).op = "bin_op_group" /\ Plain(c).id = c.id /\ Plain(c).arg = c.arg
        /\ Plain(c).bytes = c.bytes
    BY PlainFields
  <2>8. Ent(w).groups[c.id + 1] = ids
    BY <1>0, <2>3, GroupAddressed
  <2>9. Bits(Plain(c).arg, S!ValuesOf(Ent(w), Ent(w).groups[Plain(c).id + 1]), Plain(c).bytes) = new
    BY <2>7, <2>8, ValuesOfEnt, Zenon DEF Bits, letter
  <2> HIDE DEF new
  <2>10. S!Effect(Ent(w), Ent(WithServer(w, t)), Plain(c), 1)
    BY <2>6, <2>7, <2>9, OpEffects
  <2>11. Out(Message("OK", <<>>)) = S!Shown(Ent(WithServer(w, t)), Plain(c), 1)
    BY <2>7, OutOf, ShownBy
  <2> QED BY <1>0, <2>2, <2>10, <2>11, SingleSent
<1> QED BY <1>1, <1>2

\* The slot behind the groups, and the count after it.
Filled(s, grp) == [s EXCEPT !.groups[s.count] = grp]
Counted(s, grp) == [Filled(s, grp) EXCEPT !.count = @ + 1]

\* What group_create may come to.
LEMMA CreateCases ==
    ASSUME NEW w, WorldInv(w), NEW p \in Seq(Nat)
    PROVE  \/ Refused(w, group_create(w, p))
           \/ \E grp \in GroupInfo :
                /\ w.srv.count < BSMP_MAX_GROUPS
                /\ \/ group_create(w, p) = Send(w, Filled(w.srv, grp), "INVALID_ID", <<>>)
                   \/ /\ grp.vars = p
                      /\ group_create(w, p) = Send(w, Counted(w.srv, grp), "OK", <<>>)
<1> DEFINE s == w.srv
           made == Populate(s, group_init(s.count), p)
           stops == (Len(p) < 1 \/ Len(p) > Len(s.vars)) \/ s.count = BSMP_MAX_GROUPS
<1>1. CASE stops
  <2>1. Refused(w, group_create(w, p))
    BY <1>1, Zenon DEF group_create, Refused, Refusals
  <2> QED BY <2>1
<1>2. CASE ~stops
  <2>1. group_create(w, p) = IF ~made.ok THEN Send(w, Filled(s, made.grp), "INVALID_ID", <<>>)
                             ELSE Send(w, Counted(s, made.grp), "OK", <<>>)
    BY <1>2, Zenon DEF group_create, Filled, Counted
  <2>2. s \in ServerType /\ s.count \in 3 .. BSMP_MAX_GROUPS /\ s.count \in Nat
        /\ s.count < BSMP_MAX_GROUPS
    BY <1>2, ServerConstants DEF WorldInv, ServerInv
  <2>3. made \in Partial /\ (made.ok => made.grp.vars = p)
    BY <2>2, PopulateFacts
  <2> HIDE DEF made
  <2>4. made.grp \in GroupInfo
    BY <2>3 DEF Partial
  <2> QED BY <2>1, <2>2, <2>3, <2>4
<1> QED BY <1>1, <1>2

Slotted(w, grp) ==
           /\ w.srv.count \in Slots /\ w.srv.count \in Nat /\ w.srv.count >= 3
           /\ Filled(w.srv, grp).data = w.srv.data /\ Counted(w.srv, grp).data = w.srv.data
           /\ Filled(w.srv, grp).count = w.srv.count
           /\ Counted(w.srv, grp).count = w.srv.count + 1
           /\ Filled(w.srv, grp).groups = [w.srv.groups EXCEPT ![w.srv.count] = grp]
           /\ Counted(w.srv, grp).groups = [w.srv.groups EXCEPT ![w.srv.count] = grp]
           /\ Counted(w.srv, grp).groups[w.srv.count] = grp
           /\ \A g \in Slots : g # w.srv.count =>
                 /\ Filled(w.srv, grp).groups[g] = w.srv.groups[g]
                 /\ Counted(w.srv, grp).groups[g] = w.srv.groups[g]
           /\ WithServer(w, Filled(w.srv, grp)).srv = Filled(w.srv, grp)
           /\ WithServer(w, Counted(w.srv, grp)).srv = Counted(w.srv, grp)

LEMMA FilledFields ==
    ASSUME NEW w, WorldInv(w), NEW grp \in GroupInfo, w.srv.count < BSMP_MAX_GROUPS
    PROVE  Slotted(w, grp)
<1> DEFINE s == w.srv
<1>1. s \in ServerType /\ s.count \in 3 .. BSMP_MAX_GROUPS /\ w \in WorldType
  BY DEF WorldInv, ServerInv
<1>2. s.count \in Slots /\ s.count \in Nat /\ s.count >= 3
  BY <1>1, ServerConstants DEF Slots
<1>3. s.groups \in [Slots -> GroupInfo]
  BY <1>1 DEF ServerType
<1>4. /\ Filled(s, grp).data = s.data /\ Filled(s, grp).count = s.count
      /\ Filled(s, grp).groups = [s.groups EXCEPT ![s.count] = grp]
  BY <1>1 DEF Filled, ServerType
<1>5. DOMAIN Filled(s, grp) = DOMAIN s /\ "count" \in DOMAIN s
  BY <1>1 DEF Filled, ServerType
<1>6. /\ Counted(s, grp).data = Filled(s, grp).data
      /\ Counted(s, grp).groups = Filled(s, grp).groups
      /\ Counted(s, grp).count = Filled(s, grp).count + 1
  BY <1>5 DEF Counted
<1>7. /\ [s.groups EXCEPT ![s.count] = grp][s.count] = grp
      /\ \A g \in Slots : g # s.count => [s.groups EXCEPT ![s.count] = grp][g] = s.groups[g]
  BY <1>2, <1>3
<1>8. \A t : WithServer(w, t).srv = t
  BY <1>1 DEF WithServer, WorldType
<1> QED BY <1>2, <1>4, <1>6, <1>7, <1>8 DEF Slotted

\* A half filled slot is not seen.
LEMMA FilledEnt ==
    ASSUME NEW w, WorldInv(w), NEW grp \in GroupInfo, w.srv.count < BSMP_MAX_GROUPS
    PROVE  Ent(WithServer(w, Filled(w.srv, grp))) = Ent(w)
<1> DEFINE t == Filled(w.srv, grp)
           v == WithServer(w, t)
<1>1. /\ w.srv.count \in Slots /\ t.data = w.srv.data /\ t.count = w.srv.count /\ v.srv = t
      /\ \A g \in Slots : g # w.srv.count => t.groups[g] = w.srv.groups[g]
  <2>1. Slotted(w, grp)
    BY FilledFields
  <2> QED BY <2>1 DEF Slotted
<1>2. v.mem = w.mem /\ v.ends = w.ends
  BY DEF WithServer, WorldInv, WorldType
<1> HIDE DEF v, t
<1>3. ASSUME NEW g \in 1 .. w.srv.count PROVE v.srv.groups[g - 1].vars = w.srv.groups[g - 1].vars
  <2>1. w.srv.count \in Nat /\ BSMP_MAX_GROUPS \in Nat
    BY <1>1, ServerConstants DEF Slots
  <2>2. g - 1 \in Slots /\ g - 1 # w.srv.count
    BY <2>1 DEF Slots
  <2> QED BY <1>1, <2>2
<1>4. Ent(v) = Ent(w)
  BY <1>1, <1>2, <1>3, EntSame
<1> QED BY <1>4 DEF v, t

\* A counted group comes after the others.
LEMMA CountedEnt ==
    ASSUME NEW w, WorldInv(w), NEW grp \in GroupInfo, w.srv.count < BSMP_MAX_GROUPS
    PROVE  Ent(WithServer(w, Counted(w.srv, grp)))
             = [Ent(w) EXCEPT !.groups = Append(@, grp.vars)]
<1> DEFINE t == Counted(w.srv, grp)
           v == WithServer(w, t)
           n == w.srv.count
           old == Ent(w).groups
           new == Ent(v).groups
<1>1. /\ n \in Slots /\ n \in Nat /\ t.data = w.srv.data /\ t.count = n + 1 /\ v.srv = t
      /\ t.groups[n] = grp /\ \A g \in Slots : g # n => t.groups[g] = w.srv.groups[g]
  <2>1. Slotted(w, grp)
    BY FilledFields
  <2> QED BY <2>1 DEF Slotted
<1>2. v.mem = w.mem /\ v.ends = w.ends
  BY DEF WithServer, WorldInv, WorldType
<1> HIDE DEF v, t
<1>3. /\ old = [g \in 1 .. n |-> w.srv.groups[g - 1].vars]
      /\ new = [g \in 1 .. n + 1 |-> t.groups[g - 1].vars]
  BY <1>1, EntFields, SMTT(30)
<1>4. ASSUME NEW g \in 1 .. n PROVE t.groups[g - 1].vars = w.srv.groups[g - 1].vars
  <2>1. g - 1 \in Slots /\ g - 1 # n
    BY <1>1, ServerConstants DEF Slots
  <2> QED BY <1>1, <2>1
<1>5. w.srv.groups \in [Slots -> GroupInfo]
  BY DEF WorldInv, ServerInv, ServerType
<1>6. ASSUME NEW g \in 1 .. n PROVE w.srv.groups[g - 1].vars \in Seq(Nat)
  <2>1. g - 1 \in Slots
    BY <1>1, ServerConstants DEF Slots
  <2>2. w.srv.groups[g - 1] \in GroupInfo
    BY <1>5, <2>1
  <2> QED BY <2>2 DEF GroupInfo
<1>7. grp.vars \in Seq(Nat)
  BY DEF GroupInfo
<1> DEFINE app == Append(old, grp.vars)
<1>8. old \in Seq(Seq(Nat)) /\ Len(old) = n
  <2>1. old \in [1 .. n -> Seq(Nat)]
    BY <1>3, <1>6
  <2> HIDE DEF old, n
  <2> QED BY <1>1, <2>1, SeqOfLength
<1>9. \A g \in 1 .. n : old[g] = w.srv.groups[g - 1].vars
  BY <1>3
<1>10. \A g \in 1 .. n + 1 : new[g] = t.groups[g - 1].vars
  BY <1>3
<1>11. DOMAIN new = 1 .. n + 1
  BY <1>3
<1> HIDE DEF old, new, n
<1>12. /\ app \in Seq(Seq(Nat)) /\ Len(app) = n + 1 /\ app[n + 1] = grp.vars
       /\ \A k \in 1 .. n : app[k] = old[k]
  BY <1>7, <1>8, AppendFacts
<1> HIDE DEF app
<1>13. ASSUME NEW g \in 1 .. n + 1 PROVE new[g] = app[g] /\ app[g] \in Seq(Nat)
  <2>1. CASE g = n + 1
    <3>1. g - 1 = n
      BY <1>1, <2>1
    <3> QED BY <1>1, <1>7, <1>10, <1>12, <2>1, <3>1
  <2>2. CASE g # n + 1
    <3>1. g \in 1 .. n
      BY <1>1, <2>2
    <3> QED BY <1>4, <1>6, <1>9, <1>10, <1>12, <3>1
  <2> QED BY <2>1, <2>2
<1>14. DOMAIN app = 1 .. n + 1 /\ app \in [1 .. n + 1 -> Seq(Nat)]
  <2>1. n + 1 \in Nat
    BY <1>1
  <2> QED BY <1>12, <2>1, SeqOfLength
<1>15. new = app
  <2>1. new = [g \in 1 .. n + 1 |-> app[g]]
    BY <1>3, <1>10, <1>13 DEF new, n
  <2>2. app = [g \in 1 .. n + 1 |-> app[g]]
    BY <1>14
  <2> QED BY <2>1, <2>2
<1>16. Ent(v) = [Ent(w) EXCEPT !.groups = app]
  <2>1. Ent(v) = [data |-> v.srv.data, groups |-> Ent(v).groups, mem |-> v.mem, ends |-> v.ends]
    BY DEF Ent
  <2>2. Ent(w) = [data |-> w.srv.data, groups |-> Ent(w).groups, mem |-> w.mem, ends |-> w.ends]
    BY DEF Ent
  <2>3. Ent(v).groups = app
    BY <1>15 DEF new
  <2>4. v.srv.data = w.srv.data
    BY <1>1
  <2> QED BY <1>2, <2>1, <2>2, <2>3, <2>4
<1> QED BY <1>16 DEF app, old, v, t

LEMMA CreateDone ==
    ASSUME NEW w, WorldInv(w), NEW c \in CallType, c.op = "create_group"
    PROVE  Outcome(w, group_create(w, c.bytes), c)
<1>0. c.op \in OpNames /\ c.op \in S!Single /\ Ops[c.op].answer = {"OK"} /\ c.bytes \in Seq(Nat)
  BY OpsAnswers DEF OpNames, S!Single, CallType
<1>1. CASE Refused(w, group_create(w, c.bytes))
  BY <1>0, <1>1, RefusedOutcome
<1>2. ASSUME NEW grp \in GroupInfo, w.srv.count < BSMP_MAX_GROUPS,
             group_create(w, c.bytes) = Send(w, Filled(w.srv, grp), "INVALID_ID", <<>>)
      PROVE  Outcome(w, group_create(w, c.bytes), c)
  <2>1. /\ group_create(w, c.bytes).world = WithServer(w, Filled(w.srv, grp))
        /\ group_create(w, c.bytes).answer.code = "INVALID_ID"
    BY <1>2, SentFields
  <2>2. Ent(WithServer(w, Filled(w.srv, grp))) = Ent(w)
    BY <1>2, FilledEnt
  <2> QED BY <1>0, <2>1, <2>2 DEF Outcome
<1>3. ASSUME NEW grp \in GroupInfo, w.srv.count < BSMP_MAX_GROUPS, grp.vars = c.bytes,
             group_create(w, c.bytes) = Send(w, Counted(w.srv, grp), "OK", <<>>)
      PROVE  Outcome(w, group_create(w, c.bytes), c)
  <2> DEFINE t == Counted(w.srv, grp)
  <2>1. Plain(c).op = "create_group" /\ Plain(c).bytes = c.bytes
    BY PlainFields
  <2>2. Ent(WithServer(w, t)) = [Ent(w) EXCEPT !.groups = Append(@, Plain(c).bytes)]
    BY <1>3, <2>1, CountedEnt
  <2>3. group_create(w, c.bytes) = Send(w, t, "OK", <<>>)
    BY <1>3
  <2> HIDE DEF t
  <2>4. S!Effect(Ent(w), Ent(WithServer(w, t)), Plain(c), 1)
    BY <2>1, <2>2, OtherEffects
  <2>5. Out(Message("OK", <<>>)) = S!Shown(Ent(WithServer(w, t)), Plain(c), 1)
    BY <2>1, OutOf, ShownBy
  <2>6. "OK" \in Ops[c.op].answer
    BY <1>0
  <2> QED BY <1>0, <2>3, <2>4, <2>5, <2>6, SingleSent
<1> QED BY <1>0, <1>1, <1>2, <1>3, CreateCases

\* Only the standard groups are left.
LEMMA StandardEnt ==
    ASSUME NEW w, WorldInv(w), NEW t, t = [w.srv EXCEPT !.count = GROUP_STANDARD_COUNT]
    PROVE  /\ Ent(WithServer(w, t)) = [Ent(w) EXCEPT !.groups = SubSeq(@, 1, 3)]
           /\ WithServer(w, t).srv = t /\ t.groups = w.srv.groups
<1> DEFINE v == WithServer(w, t)
           n == w.srv.count
           old == Ent(w).groups
<1>1. /\ w.srv \in ServerType /\ n \in Nat /\ n >= 3 /\ w \in WorldType
  BY ServerConstants DEF WorldInv, ServerInv
<1>2. t.data = w.srv.data /\ t.groups = w.srv.groups /\ t.count = 3
  BY <1>1 DEF ServerType, GROUP_STANDARD_COUNT
<1>3. v.srv = t /\ v.mem = w.mem /\ v.ends = w.ends
  BY <1>1 DEF WithServer, WorldType
<1> HIDE DEF v
<1>4. /\ old = [g \in 1 .. n |-> w.srv.groups[g - 1].vars]
      /\ Ent(v).groups = [g \in 1 .. 3 |-> w.srv.groups[g - 1].vars]
  <2>1. Ent(v).groups = [g \in 1 .. v.srv.count |-> v.srv.groups[g - 1].vars]
    BY DEF Ent
  <2> QED BY <1>2, <1>3, <2>1, EntFields
<1>5. SubSeq(old, 1, 3) = [g \in 1 .. 3 |-> w.srv.groups[g - 1].vars]
  <2>1. \A g \in 1 .. 3 : g \in 1 .. n
    BY <1>1
  <2>2. \A g \in 1 .. 3 : old[g] = w.srv.groups[g - 1].vars
    BY <1>4, <2>1
  <2> HIDE DEF old
  <2>3. SubSeq(old, 1, 3) = [g \in 1 .. 3 |-> old[g]]
    OBVIOUS
  <2> QED BY <2>2, <2>3
<1>6. Ent(v).groups = SubSeq(old, 1, 3)
  BY <1>4, <1>5
<1>7. Ent(v) = [Ent(w) EXCEPT !.groups = SubSeq(old, 1, 3)]
  <2>1. Ent(v) = [data |-> v.srv.data, groups |-> Ent(v).groups, mem |-> v.mem, ends |-> v.ends]
    BY DEF Ent
  <2>2. Ent(w) = [data |-> w.srv.data, groups |-> Ent(w).groups, mem |-> w.mem, ends |-> w.ends]
    BY DEF Ent
  <2> QED BY <1>2, <1>3, <1>6, <2>1, <2>2
<1> QED BY <1>2, <1>3, <1>7 DEF v

LEMMA RemoveDone ==
    ASSUME NEW w, WorldInv(w), NEW c \in CallType, c.op = "remove_all_groups"
    PROVE  Outcome(w, group_remove_all(w, c.bytes), c)
<1>0. c.op \in OpNames /\ c.op \in S!Single /\ "OK" \in Ops[c.op].answer
  BY OpsAnswers DEF OpNames, S!Single
<1>1. CASE c.bytes # <<>>
  <2>1. Refused(w, group_remove_all(w, c.bytes))
    BY <1>1 DEF group_remove_all, Refused, Refusals
  <2> QED BY <1>0, <2>1, RefusedOutcome
<1>2. CASE c.bytes = <<>>
  <2> DEFINE t == [w.srv EXCEPT !.count = GROUP_STANDARD_COUNT]
  <2>1. group_remove_all(w, c.bytes) = Send(w, t, "OK", <<>>)
    BY <1>2, Zenon DEF group_remove_all
  <2>2. Ent(WithServer(w, t)) = [Ent(w) EXCEPT !.groups = SubSeq(@, 1, 3)]
    BY StandardEnt
  <2> HIDE DEF t
  <2>3. Plain(c).op = "remove_all_groups"
    BY PlainFields
  <2>4. S!Effect(Ent(w), Ent(WithServer(w, t)), Plain(c), 1)
    BY <2>2, <2>3, OtherEffects
  <2>5. Out(Message("OK", <<>>)) = S!Shown(Ent(WithServer(w, t)), Plain(c), 1)
    BY <2>3, OutOf, ShownBy
  <2> QED BY <1>0, <2>1, <2>4, <2>5, SingleSent
<1> QED BY <1>1, <1>2

LEMMA FuncDone ==
    ASSUME NEW w, WorldInv(w), NEW c \in CallType, c.op = "func_execute", NEW p, NEW r
    PROVE  Outcome(w, func_execute(w, p, r), c)
<1>0. c.op \in OpNames /\ c.op \in S!Single /\ Ops[c.op].answer = {"FUNC_RETURN", "FUNC_ERROR"}
  BY OpsAnswers DEF OpNames, S!Single
<1>1. \/ Refused(w, func_execute(w, p, r))
      \/ \E code \in {"FUNC_RETURN", "FUNC_ERROR"} : \E payload :
            func_execute(w, p, r) = Send(w, w.srv, code, payload)
  BY DEF func_execute, Refused, Refusals
<1>2. CASE Refused(w, func_execute(w, p, r))
  BY <1>0, <1>2, RefusedOutcome
<1>3. ASSUME NEW code \in {"FUNC_RETURN", "FUNC_ERROR"}, NEW payload,
             func_execute(w, p, r) = Send(w, w.srv, code, payload)
      PROVE  Outcome(w, func_execute(w, p, r), c)
  <2>1. Plain(c).op = "func_execute"
    BY PlainFields
  <2>2. WithServer(w, w.srv) = w
    BY SameServer
  <2>3. S!Effect(Ent(w), Ent(w), Plain(c), 1)
    BY <2>1, OtherEffects
  <2>4. Out(Message(code, payload)) = S!Shown(Ent(w), Plain(c), 1)
    BY <2>1, OutOf, ShownBy
  <2>5. code \in Ops[c.op].answer
    BY <1>0
  <2> QED BY <1>0, <1>3, <2>2, <2>3, <2>4, <2>5, SingleSent
<1> QED BY <1>1, <1>2, <1>3

LEMMA RecalcDone ==
    ASSUME NEW w, WorldInv(w), NEW c \in CallType, c.op = "recalc_checksum", NEW p \in Seq(Nat)
    PROVE  Outcome(w, curve_recalc_csum(w, p), c)
<1> DEFINE sum == Content(w, p[1])
           t == SetChecksum(w.srv, p[1], sum)
           goes == ~(Len(p) # 1) /\ ~(p[1] >= Len(w.srv.curves)) /\ ~(~CanRead(w, p[1]))
<1>0. c.op \in OpNames /\ Ops[c.op].answer = {"OK"}
  BY OpsAnswers DEF OpNames
<1>1. CASE ~goes
  <2>1. Refused(w, curve_recalc_csum(w, p))
    BY <1>1 DEF curve_recalc_csum, Refused, Refusals
  <2> QED BY <1>0, <2>1, RefusedOutcome
<1>2. CASE goes
  <2>1. curve_recalc_csum(w, p) = Send(w, t, "CURVE_CSUM", <<sum>>)
    BY <1>2, Zenon DEF curve_recalc_csum, SetChecksum
  <2>2. w.srv \in ServerType /\ w \in WorldType
    BY DEF WorldInv, ServerInv
  <2>3. t.data = w.srv.data /\ t.groups = w.srv.groups /\ t.count = w.srv.count
    BY <2>2 DEF SetChecksum, ServerType
  <2> HIDE DEF t, sum
  <2>4. /\ curve_recalc_csum(w, p).world = WithServer(w, t)
        /\ curve_recalc_csum(w, p).answer.code = "CURVE_CSUM"
    BY <2>1, SentFields
  <2>5. WithServer(w, t).srv = t /\ WithServer(w, t).mem = w.mem /\ WithServer(w, t).ends = w.ends
    BY <2>2 DEF WithServer, WorldType
  <2>6. Ent(WithServer(w, t)) = Ent(w)
    BY <2>3, <2>5, EntSame
  <2> QED BY <1>0, <2>4, <2>6 DEF Outcome
<1> QED BY <1>1, <1>2

----------------------------------------------------------------------------
(* The requests on curves.                                                 *)

LEMMA TwoBytes ==
    ASSUME NEW i \in Nat
    PROVE  256 * (i \div 256) + (i % 256) = i
OBVIOUS

\* The address of a block, as the server reads it.
LEMMA AddressRead ==
    ASSUME NEW c \in CallType, NEW p, p = BlockAddress(c)
    PROVE  /\ p \in Seq(Nat) /\ Len(p) = 3 /\ p[1] = c.id /\ 256 * p[2] + p[3] = c.i
           /\ c.id \in Nat /\ c.i \in Nat
<1>1. c.id \in Nat /\ c.i \in Nat
  BY DEF CallType
<1>2. p[1] = c.id /\ p[2] = c.i \div 256 /\ p[3] = c.i % 256
  BY DEF BlockAddress
<1>3. 256 * p[2] + p[3] = c.i
  BY <1>1, <1>2, TwoBytes
<1> QED BY <1>1, <1>2, <1>3, AddressTyped

\* A block of a curve.
LEMMA BlockOfCurve ==
    ASSUME NEW w, WorldInv(w), NEW id \in Nat, ~(id >= Len(w.srv.curves)), NEW b \in Nat, b < NBlocks
    PROVE  /\ id \in 0 .. 2 /\ w.srv.curves[id + 1].start = id * NBlocks
           /\ id * NBlocks + b \in 0 .. 3 * NBlocks - 1
           /\ w.mem[id * NBlocks + b] \in Block /\ w.mem[id * NBlocks + b] \in Seq(Bit)
           /\ Len(w.mem[id * NBlocks + b]) = BlockSize
           /\ w.srv.curves[id + 1].writable <=> id < 2
<1>1. w \in WorldType /\ CurvesPlaced(w.srv.curves)
  BY DEF WorldInv, ServerInv
<1>2. id \in 0 .. 2
  BY <1>1 DEF CurvesPlaced
<1>3. id + 1 \in 1 .. 3 /\ (id + 1) - 1 = id
  BY <1>2
<1>4. w.srv.curves[id + 1].start = id * NBlocks /\ (w.srv.curves[id + 1].writable <=> id + 1 < 3)
  BY <1>1, <1>3 DEF CurvesPlaced
<1>5. b \in 0 .. NBlocks - 1
  BY ServerConstants
<1>6. id * NBlocks + b \in 0 .. 3 * NBlocks - 1
  BY <1>2, <1>5, BlockPlaces
<1> DEFINE at == id * NBlocks + b
<1> HIDE DEF at
<1>7. w.mem[at] \in Block
  BY <1>1, <1>6 DEF WorldType, at
<1>8. w.mem[at] \in Seq(Bit) /\ Len(w.mem[at]) = BlockSize
  BY <1>7, ServerConstants, BitsSeq DEF Block
<1> QED BY <1>2, <1>3, <1>4, <1>6, <1>7, <1>8 DEF at

\* What a request for a block comes to.
BlockGiven(w, c, step) ==
    LET block == w.mem[c.id * NBlocks + c.i]
    IN  /\ c.i < NBlocks /\ block \in Seq(Bit) /\ Len(block) = BlockSize
        /\ \E payload : /\ step = Send(w, w.srv, "CURVE_BLOCK", payload)
                        /\ Out(Message("CURVE_BLOCK", payload)) = block

LEMMA BlockRead ==
    ASSUME NEW w, WorldInv(w), NEW c \in CallType, NEW p, p = BlockAddress(c)
    PROVE  \/ Refused(w, curve_block_request(w, p))
           \/ BlockGiven(w, c, curve_block_request(w, p))
<1> DEFINE goes == /\ ~(Len(p) # BSMP_CURVE_BLOCK_INFO) /\ ~(p[1] >= Len(w.srv.curves))
                   /\ ~(256 * p[2] + p[3] >= NBlocks) /\ ~(~CanRead(w, p[1]))
<1>1. CASE ~goes
  <2>1. Refused(w, curve_block_request(w, p))
    BY <1>1 DEF curve_block_request, Refused, Refusals
  <2> QED BY <2>1
<1>2. CASE goes
  <2>1. p \in Seq(Nat) /\ Len(p) = 3 /\ p[1] = c.id /\ 256 * p[2] + p[3] = c.i
        /\ c.id \in Nat /\ c.i \in Nat
    BY AddressRead
  <2> DEFINE block == w.mem[c.id * NBlocks + c.i]
             given == read_block_wfmref(w, p[1], 256 * p[2] + p[3])
  <2>2. curve_block_request(w, p) = Send(w, w.srv, "CURVE_BLOCK", p \o given)
    BY <1>2, Zenon DEF curve_block_request
  <2>3. ~(c.id >= Len(w.srv.curves)) /\ ~(c.i >= NBlocks)
    BY <1>2, <2>1, Zenon
  <2>4. c.i < NBlocks
    BY <2>1, <2>3, ServerConstants
  <2>5. /\ w.srv.curves[c.id + 1].start = c.id * NBlocks
        /\ block \in Seq(Bit) /\ Len(block) = BlockSize
    <3> DEFINE id == c.id
               b == c.i
    <3>1. id \in Nat /\ b \in Nat /\ ~(id >= Len(w.srv.curves)) /\ b < NBlocks
      BY <2>1, <2>3, <2>4
    <3> HIDE DEF id, b, goes
    <3>2. /\ w.srv.curves[id + 1].start = id * NBlocks
          /\ w.mem[id * NBlocks + b] \in Seq(Bit) /\ Len(w.mem[id * NBlocks + b]) = BlockSize
      BY <3>1, BlockOfCurve
    <3> QED BY <3>2 DEF id, b
  <2>6. given = block
    BY <2>1, <2>5 DEF read_block_wfmref
  <2> HIDE DEF given, block
  <2>7. Rest(p \o block, Len(p)) = block
    <3>1. block \in Seq(Nat)
      BY <2>5 DEF Bit
    <3> QED BY <2>1, <3>1, HeadAndBytes
  <2>8. Out(Message("CURVE_BLOCK", p \o block)) = block
    <3> DEFINE x == p \o block
    <3>1. Rest(x, 3) = block
      BY <2>1, <2>7
    <3> HIDE DEF x
    <3>2. Out(Message("CURVE_BLOCK", x)) = Rest(x, 3)
      BY OutOf
    <3> QED BY <3>1, <3>2 DEF x
  <2> DEFINE x == p \o block
  <2>9. curve_block_request(w, p) = Send(w, w.srv, "CURVE_BLOCK", x)
    BY <2>2, <2>6
  <2>10. Out(Message("CURVE_BLOCK", x)) = block
    BY <2>8
  <2> HIDE DEF x
  <2>11. \E payload : /\ curve_block_request(w, p) = Send(w, w.srv, "CURVE_BLOCK", payload)
                      /\ Out(Message("CURVE_BLOCK", payload)) = block
    BY <2>9, <2>10
  <2>12. BlockGiven(w, c, curve_block_request(w, p))
    BY <2>4, <2>5, <2>11, Zenon DEF BlockGiven, block
  <2> QED BY <2>12
<1> QED BY <1>1, <1>2

LEMMA RequestBlockDone ==
    ASSUME NEW w, WorldInv(w), NEW c \in CallType, c.op = "request_curve_block", c.i = c.arg
    PROVE  Outcome(w, curve_block_request(w, BlockAddress(c)), c)
<1> DEFINE step == curve_block_request(w, BlockAddress(c))
           block == w.mem[c.id * NBlocks + c.i]
<1>0. c.op \in OpNames /\ c.op \in S!Single /\ "CURVE_BLOCK" \in Ops[c.op].answer
  BY OpsAnswers DEF OpNames, S!Single
<1>1. Refused(w, step) \/ BlockGiven(w, c, step)
  BY BlockRead
<1> HIDE DEF step
<1>2. CASE Refused(w, step)
  BY <1>0, <1>2, RefusedOutcome DEF step
<1>3. CASE BlockGiven(w, c, step)
  <2>1. PICK payload : /\ step = Send(w, w.srv, "CURVE_BLOCK", payload)
                       /\ Out(Message("CURVE_BLOCK", payload)) = block
    BY <1>3, Zenon DEF BlockGiven
  <2> HIDE DEF block
  <2>2. Plain(c).op = "request_curve_block" /\ Plain(c).id = c.id /\ Plain(c).arg = c.i
    BY PlainFields
  <2>3. S!Effect(Ent(w), Ent(w), Plain(c), 1)
    BY <2>2, OtherEffects
  <2>4. S!Shown(Ent(w), Plain(c), 1) = block
    <3>1. S!Shown(Ent(w), Plain(c), 1) = Ent(w).mem[Plain(c).id * NBlocks + Plain(c).arg]
      BY <2>2, ShownBy
    <3> QED BY <2>2, <3>1, EntFields DEF block
  <2>5. WithServer(w, w.srv) = w
    BY SameServer
  <2>6. Outcome(w, step, c)
    BY <1>0, <2>1, <2>3, <2>4, <2>5, SingleSent
  <2> QED BY <2>6 DEF step
<1> QED BY <1>1, <1>2, <1>3

LEMMA ReadCurveDone ==
    ASSUME NEW w, WorldInv(w), NEW c \in CallType, c.op = "read_curve"
    PROVE  Outcome(w, curve_block_request(w, BlockAddress(c)), c)
<1> DEFINE step == curve_block_request(w, BlockAddress(c))
           block == w.mem[c.id * NBlocks + c.i]
<1>0. c.op \in OpNames /\ c.op \in S!Blocks /\ "CURVE_BLOCK" \in Ops[c.op].answer
  BY OpsAnswers DEF OpNames, S!Blocks
<1>1. Refused(w, step) \/ BlockGiven(w, c, step)
  BY BlockRead
<1> HIDE DEF step
<1>2. CASE Refused(w, step)
  BY <1>0, <1>2, RefusedOutcome DEF step
<1>3. CASE BlockGiven(w, c, step)
  <2>1. PICK payload : /\ step = Send(w, w.srv, "CURVE_BLOCK", payload)
                       /\ Out(Message("CURVE_BLOCK", payload)) = block
    BY <1>3, Zenon DEF BlockGiven
  <2>2. c.i < NBlocks
    BY <1>3, Zenon DEF BlockGiven
  <2> HIDE DEF block
  <2>3. Plain(c).op = "read_curve" /\ Plain(c).id = c.id
    BY PlainFields
  <2>4. Had(c) = c.i /\ c.i \in Nat /\ c.id \in Nat
    BY <1>0 DEF Had, CallType
  <2>5. S!Effect(Ent(w), Ent(w), Plain(c), Had(c) + 1)
    BY <2>3, OtherEffects
  <2>6. S!Shown(Ent(w), Plain(c), Had(c) + 1) = block
    <3>1. S!Shown(Ent(w), Plain(c), Had(c) + 1) = Ent(w).mem[Plain(c).id * NBlocks + (Had(c) + 1) - 1]
      BY <2>3, ShownBy
    <3>2. c.id * NBlocks \in Nat
      BY <2>4, ServerConstants
    <3>3. c.id * NBlocks + (c.i + 1) - 1 = c.id * NBlocks + c.i
      BY <2>4, <3>2
    <3> QED BY <2>3, <2>4, <3>1, <3>3, EntFields DEF block
  <2>7. HasEffect(w, WithServer(w, w.srv), c, block)
    BY <2>2, <2>5, <2>6, SameServer DEF HasEffect
  <2>8. Outcome(w, step, c)
    BY <1>0, <2>1, <2>7, SentOutcome
  <2> QED BY <2>8 DEF step
<1> QED BY <1>1, <1>2, <1>3

\* The bytes over the first part of a block.
Over(old, bytes) == [i \in DOMAIN old |-> IF i <= Len(bytes) THEN bytes[i] ELSE old[i]]

IsJoin(r, p, q) ==
    /\ r \in Seq(Bit) /\ p \in Seq(Bit) /\ q \in Seq(Bit) /\ Len(r) = Len(p) + Len(q)
    /\ \A k \in 1 .. Len(p) : r[k] = p[k]
    /\ \A k \in 1 .. Len(q) : r[Len(p) + k] = q[k]

LEMMA Rejoined ==
    ASSUME NEW r, NEW p, NEW q, IsJoin(r, p, q)
    PROVE  r = p \o q
<1> DEFINE j == p \o q
<1>1. /\ r \in Seq(Bit) /\ p \in Seq(Bit) /\ q \in Seq(Bit) /\ Len(r) = Len(p) + Len(q)
      /\ Len(p) \in Nat /\ Len(q) \in Nat
      /\ \A k \in 1 .. Len(p) : r[k] = p[k]
      /\ \A k \in 1 .. Len(q) : r[Len(p) + k] = q[k]
  BY DEF IsJoin
<1>2. /\ j \in Seq(Bit) /\ Len(j) = Len(p) + Len(q)
      /\ \A k \in 1 .. Len(p) : j[k] = p[k]
      /\ \A k \in 1 .. Len(q) : j[Len(p) + k] = q[k]
  BY <1>1, Joined
<1> HIDE DEF j
<1> DEFINE a == Len(p)
           b == Len(q)
<1> HIDE DEF a, b
<1>3. ASSUME NEW k \in 1 .. Len(r) PROVE r[k] = j[k]
  <2>1. a \in Nat /\ b \in Nat /\ k \in 1 .. a + b
    BY <1>1, <1>3 DEF a, b
  <2>2. CASE k <= a
    <3>1. k \in 1 .. a
      BY <2>1, <2>2
    <3> QED BY <1>1, <1>2, <3>1 DEF a
  <2>3. CASE ~(k <= a)
    <3>1. k - a \in 1 .. b /\ a + (k - a) = k
      BY <2>1, <2>3
    <3>2. r[a + (k - a)] = q[k - a] /\ j[a + (k - a)] = q[k - a]
      BY <1>1, <1>2, <3>1 DEF a, b
    <3> QED BY <3>1, <3>2
  <2> QED BY <2>2, <2>3
<1>4. r \in Seq(Bit) /\ j \in Seq(Bit) /\ Len(r) = Len(j) /\ \A k \in 1 .. Len(r) : r[k] = j[k]
  BY <1>1, <1>2, <1>3
<1>5. r = j
  BY <1>4, SameSeq, Zenon
<1> QED BY <1>5 DEF j

LEMMA OverJoins ==
    ASSUME NEW old \in Seq(Bit), NEW bytes \in Seq(Bit), Len(bytes) <= Len(old)
    PROVE  Over(old, bytes) = bytes \o SubSeq(old, Len(bytes) + 1, Len(old))
<1> DEFINE m == Len(bytes)
           n == Len(old)
           tail == SubSeq(old, m + 1, n)
           r == Over(old, bytes)
<1>1. /\ m \in Nat /\ n \in Nat /\ m <= n /\ DOMAIN old = 1 .. n
      /\ (\A k \in 1 .. n : old[k] \in Bit) /\ \A k \in 1 .. m : bytes[k] \in Bit
  OBVIOUS
<1>2. tail = [k \in 1 .. n - m |-> old[m + k]]
  <2>1. n - (m + 1) + 1 = n - m /\ \A k \in 1 .. n - m : m + 1 + k - 1 = m + k
    BY <1>1
  <2>2. tail = [k \in 1 .. n - (m + 1) + 1 |-> old[m + 1 + k - 1]]
    OBVIOUS
  <2> QED BY <2>1, <2>2
<1>3. r = [i \in 1 .. n |-> IF i <= m THEN bytes[i] ELSE old[i]]
  BY DEF Over
<1> HIDE DEF m, n, tail, r
<1>4. tail \in Seq(Bit) /\ Len(tail) = n - m /\ \A k \in 1 .. n - m : tail[k] = old[m + k]
  <2>1. n - m \in Nat /\ \A k \in 1 .. n - m : m + k \in 1 .. n
    BY <1>1
  <2> QED BY <1>1, <1>2, <2>1
<1>5. r \in Seq(Bit) /\ Len(r) = n
      /\ \A k \in 1 .. n : r[k] = IF k <= m THEN bytes[k] ELSE old[k]
  <2>1. \A k \in 1 .. n : k <= m => k \in 1 .. m
    BY <1>1
  <2> QED BY <1>1, <1>3, <2>1
<1>6. bytes \in Seq(Bit) /\ Len(bytes) = m
  BY DEF m
<1>7. ASSUME NEW k \in 1 .. m PROVE r[k] = bytes[k]
  <2>1. k \in 1 .. n /\ k <= m
    BY <1>1
  <2> QED BY <1>5, <2>1
<1>8. ASSUME NEW k \in 1 .. n - m PROVE r[m + k] = tail[k]
  <2>1. m + k \in 1 .. n /\ ~(m + k <= m)
    BY <1>1
  <2> QED BY <1>4, <1>5, <2>1
<1>9. Len(r) = m + (n - m)
  BY <1>1, <1>5
<1>10. IsJoin(r, bytes, tail)
  BY <1>4, <1>5, <1>6, <1>7, <1>8, <1>9 DEF IsJoin
<1>11. r = bytes \o tail
  BY <1>10, Rejoined, Zenon
<1> QED BY <1>11 DEF r, tail, m, n

\* From s to t the memory has become m and the ends n.
Moved(s, t, m, n) == t = [s EXCEPT !.mem = m, !.ends = n]

LEMMA MemMoved ==
    ASSUME NEW d, NEW g, NEW m, NEW n, NEW m2, NEW n2, NEW e,
           e = [data |-> d, groups |-> g, mem |-> m, ends |-> n]
    PROVE  Moved(e, [data |-> d, groups |-> g, mem |-> m2, ends |-> n2], m2, n2)
<1> DEFINE f == [e EXCEPT !.mem = m2]
<1>1. f = [data |-> d, groups |-> g, mem |-> m2, ends |-> n]
  OBVIOUS
<1> HIDE DEF f
<1>2. [f EXCEPT !.ends = n2] = [data |-> d, groups |-> g, mem |-> m2, ends |-> n2]
  BY <1>1
<1> QED BY <1>2 DEF f, Moved

LEMMA EntMoved ==
    ASSUME NEW w, NEW v, NEW m2, NEW n2, v.srv.data = w.srv.data, Ent(v).groups = Ent(w).groups,
           v.mem = m2, v.ends = n2
    PROVE  Moved(Ent(w), Ent(v), m2, n2)
<1> DEFINE e == Ent(w)
           g == e.groups
           d == w.srv.data
<1>1. e = [data |-> d, groups |-> g, mem |-> w.mem, ends |-> w.ends]
  BY DEF Ent
<1>2. Ent(v) = [data |-> v.srv.data, groups |-> Ent(v).groups, mem |-> v.mem, ends |-> v.ends]
  BY DEF Ent
<1>3. Ent(v) = [data |-> d, groups |-> g, mem |-> m2, ends |-> n2]
  BY <1>2
<1> HIDE DEF e, g, d
<1>4. Moved(e, [data |-> d, groups |-> g, mem |-> m2, ends |-> n2], m2, n2)
  BY <1>1, MemMoved
<1>5. Moved(e, Ent(v), m2, n2)
  BY <1>3, <1>4
<1> QED BY <1>5 DEF e

\* What a request that writes a block comes to.
BlockStored(w, c, bytes, step) ==
    /\ c.i < NBlocks /\ step.answer.code = "OK" /\ Out(step.answer) = <<>>
    /\ S!BlockTaken(Ent(w), Ent(step.world), c.id, c.i, bytes)

LEMMA BlockWritten ==
    ASSUME NEW w, WorldInv(w), NEW c \in CallType, NEW bytes \in Seq(Bit),
           NEW p, p = BlockAddress(c) \o bytes
    PROVE  \/ Refused(w, curve_block(w, p))
           \/ BlockStored(w, c, bytes, curve_block(w, p))
<1> DEFINE b == 256 * p[2] + p[3]
           rest == Rest(p, 3)
           goes == /\ ~(Len(p) < 4) /\ ~(p[1] >= Len(w.srv.curves)) /\ ~(Len(p) > BlockSize + 3)
                   /\ ~(b >= NBlocks) /\ ~(~w.srv.curves[p[1] + 1].writable)
                   /\ ~(~CanWrite(w, p[1]))
           written == write_block_wfmref(w, p[1], b, rest)
           t == [w.srv EXCEPT !.curves[p[1] + 1].checksum = Cleared]
<1>0. BSMP_CURVE_BLOCK_INFO = 3 /\ 3 + 1 = 4
  BY DEF BSMP_CURVE_BLOCK_INFO
<1>1. CASE ~goes
  <2>1. Refused(w, curve_block(w, p))
    BY <1>0, <1>1, ZenonT(60) DEF curve_block, Refused, Refusals
  <2> QED BY <2>1
<1>2. CASE goes
  <2>1. curve_block(w, p) = Send(written, t, "OK", <<>>)
    BY <1>0, <1>2, ZenonT(60) DEF curve_block
  <2>2. /\ BlockAddress(c) \in Seq(Nat) /\ Len(BlockAddress(c)) = 3 /\ BlockAddress(c)[1] = c.id
        /\ 256 * BlockAddress(c)[2] + BlockAddress(c)[3] = c.i /\ c.id \in Nat /\ c.i \in Nat
    BY AddressRead
  <2>3. /\ p \in Seq(Nat) /\ Len(p) = 3 + Len(bytes) /\ rest = bytes
        /\ \A k \in 1 .. 3 : p[k] = BlockAddress(c)[k]
    <3> DEFINE head == BlockAddress(c)
    <3>1. head \in Seq(Nat) /\ bytes \in Seq(Nat) /\ Len(head) = 3
      BY <2>2 DEF Bit
    <3> HIDE DEF head
    <3>2. /\ head \o bytes \in Seq(Nat) /\ Len(head \o bytes) = Len(head) + Len(bytes)
          /\ \A k \in 1 .. Len(head) : (head \o bytes)[k] = head[k]
          /\ Rest(head \o bytes, Len(head)) = bytes
      BY <3>1, HeadAndBytes, Zenon
    <3>3. p = head \o bytes
      BY DEF head
    <3> QED BY <3>1, <3>2, <3>3, Zenon DEF head
  <2>4. p[1] = c.id /\ b = c.i
    <3>1. 1 \in 1 .. 3 /\ 2 \in 1 .. 3 /\ 3 \in 1 .. 3
      OBVIOUS
    <3> QED BY <2>2, <2>3, <3>1
  <2>5. ~(c.id >= Len(w.srv.curves)) /\ ~(c.i >= NBlocks) /\ ~(Len(p) > BlockSize + 3)
        /\ w.srv.curves[c.id + 1].writable
    BY <1>2, <2>4, Zenon
  <2>6. c.i < NBlocks /\ Len(bytes) <= BlockSize
    <3> DEFINE len == Len(bytes)
    <3>1. len \in Nat /\ ~(3 + len > BlockSize + 3) /\ ~(c.i >= NBlocks)
      BY <2>3, <2>5
    <3> HIDE DEF len
    <3>2. c.i < NBlocks /\ len <= BlockSize
      BY <2>2, <3>1, ServerConstants
    <3> QED BY <3>2 DEF len
  <2> DEFINE at == c.id * NBlocks + c.i
             old == w.mem[at]
             end == c.i * BlockSize + Len(bytes)
  <2>7. /\ c.id \in 0 .. 2 /\ w.srv.curves[c.id + 1].start = c.id * NBlocks
        /\ at \in 0 .. 3 * NBlocks - 1 /\ old \in Seq(Bit) /\ Len(old) = BlockSize
        /\ w.srv.curves[c.id + 1].writable <=> c.id < 2
    <3>1. ~(c.id >= Len(w.srv.curves)) /\ c.i < NBlocks
      BY <2>5, <2>6
    <3> QED BY <2>2, <3>1, BlockOfCurve, ZenonT(60)
  <2>8. Over(old, bytes) = bytes \o SubSeq(old, Len(bytes) + 1, Len(old))
    BY <2>6, <2>7, OverJoins
  <2> DEFINE new == bytes \o SubSeq(old, Len(bytes) + 1, Len(old))
  <2>9. written = [w EXCEPT !.mem[at] = Over(old, bytes), !.ends[c.id] = end]
    <3>1. written = write_block_wfmref(w, c.id, c.i, bytes)
      BY <2>3, <2>4, Zenon
    <3>2. w.srv.curves[c.id + 1].start + c.i = at
      BY <2>7
    <3> DEFINE place == w.srv.curves[c.id + 1].start + c.i
    <3>3. write_block_wfmref(w, c.id, c.i, bytes)
            = [w EXCEPT !.mem[place] = Over(w.mem[place], bytes), !.ends[c.id] = end]
      BY DEF write_block_wfmref, Over
    <3>4. place = at
      BY <3>2
    <3> HIDE DEF at, end, place
    <3> QED BY <3>1, <3>3, <3>4, Zenon DEF old
  <2> HIDE DEF b, rest, written, at, end, old
  <2>10. w \in WorldType /\ w.srv \in ServerType
    BY DEF WorldInv, ServerInv
  <2>11. written = [w EXCEPT !.mem = [w.mem EXCEPT ![at] = new],
                             !.ends = [w.ends EXCEPT ![c.id] = end]]
    BY <2>8, <2>9, <2>10 DEF WorldType
  <2>12. t.data = w.srv.data /\ t.groups = w.srv.groups /\ t.count = w.srv.count
    BY <2>10 DEF ServerType
  <2> HIDE DEF t, new
  <2> DEFINE v == WithServer(written, t)
             mem == [w.mem EXCEPT ![at] = new]
             ends == [w.ends EXCEPT ![c.id] = end]
  <2>13. written = [w EXCEPT !.mem = mem, !.ends = ends]
    BY <2>11
  <2> HIDE DEF mem, ends, written
  <2>14. v.srv = t /\ v.mem = mem /\ v.ends = ends
    BY <2>10, <2>13 DEF WithServer, WorldType
  <2> HIDE DEF v
  <2>15. Ent(v).groups = Ent(w).groups
    BY <2>12, <2>14 DEF Ent
  <2>16. Ent(v) = [Ent(w) EXCEPT !.mem = mem, !.ends = ends]
    <3>1. v.srv.data = w.srv.data
      BY <2>12, <2>14
    <3>2. Moved(Ent(w), Ent(v), mem, ends)
      BY <2>14, <2>15, <3>1, EntMoved
    <3> QED BY <3>2 DEF Moved
  <2>17. Ent(w).mem = w.mem /\ Ent(w).ends = w.ends
    BY EntFields
  <2>18. [Ent(w) EXCEPT !.mem[at] = new, !.ends[c.id] = end] = [Ent(w) EXCEPT !.mem = mem, !.ends = ends]
    <3>1. Ent(w) = [data |-> w.srv.data, groups |-> Ent(w).groups, mem |-> w.mem, ends |-> w.ends]
      BY DEF Ent
    <3> QED BY <2>17, <3>1 DEF mem, ends
  <2>19. S!BlockTaken(Ent(w), Ent(v), c.id, c.i, bytes)
    BY <2>16, <2>17, <2>18 DEF S!BlockTaken, new, at, end, old
  <2>20. /\ curve_block(w, p).world = v /\ curve_block(w, p).answer = Message("OK", <<>>)
         /\ curve_block(w, p).answer.code = "OK"
    BY <2>1, SentFields DEF v
  <2>21. Out(curve_block(w, p).answer) = <<>>
    BY <2>20, OutOf
  <2>22. BlockStored(w, c, bytes, curve_block(w, p))
    BY <2>6, <2>19, <2>20, <2>21, Zenon DEF BlockStored
  <2> QED BY <2>22
<1> QED BY <1>1, <1>2
\* A payload that addresses a block.
AsksBlock(p, c, bytes) == bytes \in Seq(Bit) /\ p = BlockAddress(c) \o bytes

LEMMA SendBlockDone ==
    ASSUME NEW w, WorldInv(w), NEW c \in CallType, c.op = "send_curve_block", c.i = c.arg,
           NEW p, AsksBlock(p, c, c.bytes)
    PROVE  Outcome(w, curve_block(w, p), c)
<1> DEFINE step == curve_block(w, p)
<1>0. c.op \in OpNames /\ c.op \in S!Single /\ "OK" \in Ops[c.op].answer /\ c.op # "read_curve"
  BY OpsAnswers DEF OpNames, S!Single
<1>1. Refused(w, step) \/ BlockStored(w, c, c.bytes, step)
  BY BlockWritten DEF AsksBlock
<1> HIDE DEF step
<1>2. CASE Refused(w, step)
  BY <1>0, <1>2, RefusedOutcome DEF step
<1>3. CASE BlockStored(w, c, c.bytes, step)
  <2>1. /\ step.answer.code = "OK" /\ Out(step.answer) = <<>>
        /\ S!BlockTaken(Ent(w), Ent(step.world), c.id, c.i, c.bytes)
    BY <1>3 DEF BlockStored
  <2>2. Plain(c).op = "send_curve_block" /\ Plain(c).id = c.id /\ Plain(c).arg = c.i
        /\ Plain(c).bytes = c.bytes
    BY <1>0, PlainFields
  <2>3. S!Effect(Ent(w), Ent(step.world), Plain(c), 1)
    BY <2>1, <2>2, OtherEffects
  <2>4. S!Shown(Ent(step.world), Plain(c), 1) = <<>>
    BY <2>2, ShownBy
  <2>5. HasEffect(w, step.world, c, Out(step.answer))
    BY <1>0, <2>1, <2>3, <2>4, SingleEffect
  <2>6. Outcome(w, step, c)
    BY <1>0, <2>1, <2>5 DEF Outcome
  <2> QED BY <2>6 DEF step
<1> QED BY <1>1, <1>2, <1>3

LEMMA WriteCurveDone ==
    ASSUME NEW w, WorldInv(w), NEW c \in CallType, c.op = "write_curve",
           NEW p, AsksBlock(p, c, BlockBytes(c.bytes, BlockSize, c.i))
    PROVE  Outcome(w, curve_block(w, p), c)
<1> DEFINE step == curve_block(w, p)
           bytes == BlockBytes(c.bytes, BlockSize, c.i)
<1>0. /\ c.op \in OpNames /\ c.op \in S!Blocks /\ "OK" \in Ops[c.op].answer /\ c.op # "read_curve"
      /\ c.i \in Nat /\ BlockSize \in Nat
  BY OpsAnswers, ServerConstants DEF OpNames, S!Blocks, CallType
<1>a. bytes \in Seq(Bit) /\ p = BlockAddress(c) \o bytes
  BY DEF AsksBlock
<1>b. bytes = S!BlockOf(c.bytes, c.i)
  <2>1. (c.i + 1) * BlockSize = c.i * BlockSize + BlockSize
    BY <1>0
  <2> QED BY <2>1 DEF BlockBytes, S!BlockOf
<1> HIDE DEF bytes
<1>1. Refused(w, step) \/ BlockStored(w, c, bytes, step)
  BY <1>a, BlockWritten
<1> HIDE DEF step
<1>2. CASE Refused(w, step)
  BY <1>0, <1>2, RefusedOutcome DEF step
<1>3. CASE BlockStored(w, c, bytes, step)
  <2>1. /\ step.answer.code = "OK" /\ Out(step.answer) = <<>> /\ c.i < NBlocks
        /\ S!BlockTaken(Ent(w), Ent(step.world), c.id, c.i, bytes)
    BY <1>3 DEF BlockStored
  <2>2. Plain(c).op = "write_curve" /\ Plain(c).id = c.id /\ Plain(c).bytes = c.bytes
    BY <1>0, PlainFields
  <2>3. Had(c) = c.i
    BY <1>0 DEF Had
  <2> DEFINE k == Had(c) + 1
             e == Plain(c)
  <2>4. S!BlockTaken(Ent(w), Ent(step.world), e.id, k - 1, S!BlockOf(e.bytes, k - 1)) /\ e.op = "write_curve"
    <3>1. e.id = c.id /\ e.bytes = c.bytes /\ k - 1 = c.i /\ e.op = "write_curve"
      <4>1. k - 1 = c.i
        BY <1>0, <2>3
      <4> QED BY <2>2, <4>1
    <3>2. S!BlockOf(e.bytes, k - 1) = bytes
      BY <1>b, <3>1
    <3> HIDE DEF k, e
    <3> QED BY <2>1, <3>1, <3>2
  <2> HIDE DEF k, e
  <2>5. S!Effect(Ent(w), Ent(step.world), Plain(c), Had(c) + 1)
    <3>1. S!Effect(Ent(w), Ent(step.world), e, k)
      BY <2>4, OtherEffects
    <3> QED BY <3>1 DEF k, e
  <2>6. S!Shown(Ent(step.world), Plain(c), Had(c) + 1) = <<>>
    BY <2>2, ShownBy
  <2>7. HasEffect(w, step.world, c, Out(step.answer))
    BY <2>1, <2>5, <2>6 DEF HasEffect
  <2>8. Outcome(w, step, c)
    BY <1>0, <2>1, <2>7 DEF Outcome
  <2> QED BY <2>8 DEF step
<1> QED BY <1>1, <1>2, <1>3

----------------------------------------------------------------------------
(* The request of an operation comes to its effect, or to nothing.         *)

LEMMA CommandIs ==
    ASSUME NEW w, NEW p, NEW r
    PROVE  /\ command(w, "VAR_READ", p, r) = var_read(w, p)
           /\ command(w, "VAR_WRITE", p, r) = var_write(w, p)
           /\ command(w, "VAR_WRITE_READ", p, r) = var_write_read(w, p)
           /\ command(w, "VAR_BIN_OP", p, r) = var_bin_op(w, p)
           /\ command(w, "GROUP_READ", p, r) = group_read(w, p)
           /\ command(w, "GROUP_WRITE", p, r) = group_write(w, p)
           /\ command(w, "GROUP_BIN_OP", p, r) = group_bin_op(w, p)
           /\ command(w, "GROUP_CREATE", p, r) = group_create(w, p)
           /\ command(w, "GROUP_REMOVE_ALL", p, r) = group_remove_all(w, p)
           /\ command(w, "CURVE_BLOCK_REQUEST", p, r) = curve_block_request(w, p)
           /\ command(w, "CURVE_BLOCK", p, r) = curve_block(w, p)
           /\ command(w, "CURVE_RECALC_CSUM", p, r) = curve_recalc_csum(w, p)
           /\ command(w, "FUNC_EXECUTE", p, r) = func_execute(w, p, r)
BY DEF command

LEMMA PayloadOf ==
    ASSUME NEW c
    PROVE  /\ c.op \in {"read_var", "write_var", "read_group", "write_group", "recalc_checksum", "func_execute"}
                 => Payload(c) = <<c.id>> \o c.bytes
           /\ c.op = "write_read_vars" => Payload(c) = <<c.id, c.arg>> \o c.bytes
           /\ c.op \in {"bin_op_var", "bin_op_group"}
                 => Payload(c) = <<c.id, bin_op_code[c.arg + 1]>> \o c.bytes
           /\ c.op \in {"create_group", "remove_all_groups"} => Payload(c) = c.bytes
           /\ c.op \in {"request_curve_block", "read_curve"} => Payload(c) = BlockAddress(c)
           /\ c.op = "send_curve_block" => Payload(c) = BlockAddress(c) \o c.bytes
           /\ c.op = "write_curve" => Payload(c) = BlockAddress(c) \o
                 BlockBytes(c.bytes, cli.curves[c.id + 1].block_size, c.i)
BY DEF Payload

\* A call whose request is about to go out, with the block it has come to.
Prepared(c) ==
    /\ Ready(c)
    /\ c.op \in {"request_curve_block", "send_curve_block"} => c.i = c.arg
    /\ c.op = "write_curve" => cli.curves[c.id + 1].block_size = BlockSize

\* The letter of a binary operation whose request goes out.
LEMMA LetterSent ==
    ASSUME NEW c, Ready(c), c.op \in {"bin_op_var", "bin_op_group"}
    PROVE  bin_op_code[c.arg + 1] \in Nat
<1>1. Check(c) = "ok" /\ c.arg \in Nat
  BY DEF Ready, CallType
<1>2. (\E list : OpCheck(list, c) = "ok")
  <2>1. CASE c.op = "bin_op_var"
    BY <1>1, <2>1 DEF Check
  <2>2. CASE c.op = "bin_op_group"
    BY <1>1, <2>2 DEF Check
  <2> QED BY <2>1, <2>2
<1>3. c.arg < BIN_OP_COUNT
  <2>1. BIN_OP_COUNT = 6
    BY DEF BIN_OP_COUNT, bin_op_code
  <2>2. ~(c.arg >= BIN_OP_COUNT)
    BY <1>2 DEF OpCheck
  <2> QED BY <1>1, <2>1, <2>2
<1> QED BY <1>1, <1>3, BinOpLetter

LEMMA OpOutcome ==
    ASSUME NEW w, WorldInv(w), NEW c, Prepared(c), NEW r
    PROVE  Outcome(w, command(w, Ops[c.op].code, Payload(c), r), c)
<1>0. /\ c \in CallType /\ c.op \in OpNames /\ c.id \in Nat /\ c.arg \in Nat /\ c.i \in Nat
      /\ c.bytes \in Seq(Nat) /\ (c.op \notin {"create_group", "read_curve"} => c.bytes \in Seq(Bit))
      /\ Ready(c)
  BY DEF Prepared, Ready, CallType
<1> DEFINE p == Payload(c)
           code == Ops[c.op].code
<1>1. ASSUME c.op \in {"read_var", "write_var", "read_group", "write_group", "recalc_checksum", "func_execute"}
      PROVE  AsksOne(p, c.id, c.bytes)
  BY <1>0, <1>1, PayloadOf DEF AsksOne
<1>2. ASSUME c.op \in {"bin_op_var", "bin_op_group"}
      PROVE  AsksTwo(p, c.id, bin_op_code[c.arg + 1], c.bytes)
  BY <1>0, <1>2, PayloadOf, LetterSent DEF AsksTwo
<1>3. CASE c.op = "read_var"
  <2>1. p \in Seq(Nat) /\ p[1] = c.id
    BY <1>1, <1>3, AskedOne
  <2>2. code = "VAR_READ"
    BY <1>3, OpsTable
  <2> HIDE DEF p, code
  <2>3. Outcome(w, command(w, code, p, r), c)
    BY <1>0, <1>3, <2>1, <2>2, CommandIs, ReadVarDone
  <2> QED BY <2>3 DEF p, code
<1>4. CASE c.op = "write_var"
  <2>1. code = "VAR_WRITE" /\ AsksOne(p, c.id, c.bytes)
    BY <1>1, <1>4, OpsTable
  <2> HIDE DEF p, code
  <2>2. Outcome(w, command(w, code, p, r), c)
    BY <1>0, <1>4, <2>1, CommandIs, WriteVarDone
  <2> QED BY <2>2 DEF p, code
<1>5. CASE c.op = "write_read_vars"
  <2>1. code = "VAR_WRITE_READ" /\ AsksTwo(p, c.id, c.arg, c.bytes)
    BY <1>0, <1>5, OpsTable, PayloadOf DEF AsksTwo
  <2> HIDE DEF p, code
  <2>2. Outcome(w, command(w, code, p, r), c)
    BY <1>0, <1>5, <2>1, CommandIs, WriteReadDone
  <2> QED BY <2>2 DEF p, code
<1>6. CASE c.op = "bin_op_var"
  <2>1. code = "VAR_BIN_OP" /\ AsksTwo(p, c.id, bin_op_code[c.arg + 1], c.bytes)
    BY <1>2, <1>6, OpsTable
  <2> HIDE DEF p, code
  <2>2. Outcome(w, command(w, code, p, r), c)
    BY <1>0, <1>6, <2>1, CommandIs, BinOpVarDone
  <2> QED BY <2>2 DEF p, code
<1>7. CASE c.op = "read_group"
  <2>1. code = "GROUP_READ" /\ AsksOne(p, c.id, c.bytes) /\ c.bytes \in Seq(Bit)
    BY <1>0, <1>1, <1>7, OpsTable
  <2> HIDE DEF p, code
  <2>2. Outcome(w, command(w, code, p, r), c)
    BY <1>0, <1>7, <2>1, CommandIs, ReadGroupDone
  <2> QED BY <2>2 DEF p, code
<1>8. CASE c.op = "write_group"
  <2>1. code = "GROUP_WRITE" /\ AsksOne(p, c.id, c.bytes)
    BY <1>1, <1>8, OpsTable
  <2> HIDE DEF p, code
  <2>2. Outcome(w, command(w, code, p, r), c)
    BY <1>0, <1>8, <2>1, CommandIs, WriteGroupDone
  <2> QED BY <2>2 DEF p, code
<1>9. CASE c.op = "bin_op_group"
  <2>1. code = "GROUP_BIN_OP" /\ AsksTwo(p, c.id, bin_op_code[c.arg + 1], c.bytes)
    BY <1>2, <1>9, OpsTable
  <2> HIDE DEF p, code
  <2>2. Outcome(w, command(w, code, p, r), c)
    BY <1>0, <1>9, <2>1, CommandIs, BinOpGroupDone
  <2> QED BY <2>2 DEF p, code
<1>10. CASE c.op = "create_group"
  <2>1. code = "GROUP_CREATE" /\ p = c.bytes
    BY <1>10, OpsTable, PayloadOf
  <2> HIDE DEF p, code
  <2>2. Outcome(w, command(w, code, p, r), c)
    BY <1>0, <1>10, <2>1, CommandIs, CreateDone
  <2> QED BY <2>2 DEF p, code
<1>11. CASE c.op = "remove_all_groups"
  <2>1. code = "GROUP_REMOVE_ALL" /\ p = c.bytes
    BY <1>11, OpsTable, PayloadOf
  <2> HIDE DEF p, code
  <2>2. Outcome(w, command(w, code, p, r), c)
    BY <1>0, <1>11, <2>1, CommandIs, RemoveDone
  <2> QED BY <2>2 DEF p, code
<1>12. CASE c.op = "request_curve_block"
  <2>1. code = "CURVE_BLOCK_REQUEST" /\ p = BlockAddress(c) /\ c.i = c.arg
    BY <1>12, OpsTable, PayloadOf DEF Prepared
  <2> HIDE DEF p, code
  <2>2. Outcome(w, command(w, code, p, r), c)
    BY <1>0, <1>12, <2>1, CommandIs, RequestBlockDone
  <2> QED BY <2>2 DEF p, code
<1>13. CASE c.op = "read_curve"
  <2>1. code = "CURVE_BLOCK_REQUEST" /\ p = BlockAddress(c)
    BY <1>13, OpsTable, PayloadOf
  <2> HIDE DEF p, code
  <2>2. Outcome(w, command(w, code, p, r), c)
    BY <1>0, <1>13, <2>1, CommandIs, ReadCurveDone
  <2> QED BY <2>2 DEF p, code
<1>14. CASE c.op = "send_curve_block"
  <2>1. code = "CURVE_BLOCK" /\ AsksBlock(p, c, c.bytes) /\ c.i = c.arg
    BY <1>0, <1>14, OpsTable, PayloadOf DEF Prepared, AsksBlock
  <2> HIDE DEF p, code
  <2>2. Outcome(w, command(w, code, p, r), c)
    BY <1>0, <1>14, <2>1, CommandIs, SendBlockDone
  <2> QED BY <2>2 DEF p, code
<1>15. CASE c.op = "write_curve"
  <2>1. code = "CURVE_BLOCK" /\ AsksBlock(p, c, BlockBytes(c.bytes, BlockSize, c.i))
    BY <1>0, <1>15, OpsTable, PayloadOf, BlockBytesBits, ServerConstants DEF Prepared, AsksBlock
  <2> HIDE DEF p, code
  <2>2. Outcome(w, command(w, code, p, r), c)
    BY <1>0, <1>15, <2>1, CommandIs, WriteCurveDone
  <2> QED BY <2>2 DEF p, code
<1>16. CASE c.op = "recalc_checksum"
  <2>1. code = "CURVE_RECALC_CSUM" /\ p \in Seq(Nat)
    BY <1>1, <1>16, OpsTable, AskedOne
  <2> HIDE DEF p, code
  <2>2. Outcome(w, command(w, code, p, r), c)
    BY <1>0, <1>16, <2>1, CommandIs, RecalcDone
  <2> QED BY <2>2 DEF p, code
<1>17. CASE c.op = "func_execute"
  <2>1. code = "FUNC_EXECUTE"
    BY <1>17, OpsTable
  <2> HIDE DEF p, code
  <2>2. Outcome(w, command(w, code, p, r), c)
    BY <1>0, <1>17, <2>1, CommandIs, FuncDone
  <2> QED BY <2>2 DEF p, code
<1> HIDE DEF p, code
<1> QED BY <1>0, <1>3, <1>4, <1>5, <1>6, <1>7, <1>8, <1>9, <1>10, <1>11, <1>12, <1>13, <1>14, <1>15, <1>16, <1>17
    DEF OpNames

----------------------------------------------------------------------------
(* What an accepted request shows is data.                                 *)

LEMMA BitsAreNumbers ==
    ASSUME NEW x \in Seq(Bit)
    PROVE  x \in Seq(Nat)
BY DEF Bit

\* A payload that names one variable or group, or two.
AskedId(p) == p[1] \in Nat
AskedIds(p) == p[1] \in Nat /\ p[2] \in Nat

LEMMA VarShown ==
    ASSUME NEW w, WorldInv(w), NEW p, AskedId(p), var_read(w, p).answer.code = "VAR_VALUE"
    PROVE  Out(var_read(w, p).answer) \in Seq(Nat)
<1> DEFINE goes == ~(Len(p) # 1) /\ ~(p[1] >= Len(w.srv.vars))
           out == w.srv.data[p[1] + 1]
<1>0. p[1] \in Nat
  BY DEF AskedId
<1>1. goes
  BY DEF var_read, Refuse, Send, Message
<1>2. var_read(w, p) = Send(w, w.srv, "VAR_VALUE", out)
  BY <1>1, Zenon DEF var_read
<1>3. Len(w.srv.vars) \in Nat /\ w.srv \in ServerType /\ Fits(w.srv.vars, w.srv.data)
  BY DEF WorldInv, ServerInv, ServerType
<1>4. out \in Seq(Bit)
  <2>1. p[1] < Len(w.srv.vars)
    BY <1>0, <1>1, <1>3
  <2> QED BY <1>0, <1>3, <2>1, ValueTyped
<1> HIDE DEF out
<1>5. var_read(w, p).answer = Message("VAR_VALUE", out)
  BY <1>2, SentFields
<1> QED BY <1>4, <1>5, OutOf, BitsAreNumbers

LEMMA WrittenShown ==
    ASSUME NEW w, WorldInv(w), NEW p, AskedIds(p), Clean("VAR_WRITE_READ", p),
           var_write_read(w, p).answer.code = "VAR_VALUE"
    PROVE  Out(var_write_read(w, p).answer) \in Seq(Nat)
<1> DEFINE goes == /\ ~(Len(p) < 3)
                   /\ ~(p[1] >= Len(w.srv.vars) \/ p[2] >= Len(w.srv.vars))
                   /\ ~(Len(p) # 2 + w.srv.vars[p[1] + 1].size) /\ ~(~w.srv.vars[p[1] + 1].writable)
           after == SetVar(w.srv, p[1], Rest(p, 2))
           out == after.data[p[2] + 1]
<1>0. p[2] \in Nat
  BY DEF AskedIds
<1>1. goes
  BY DEF var_write_read, Refuse, Send, Message
<1>2. var_write_read(w, p) = Send(w, after, "VAR_VALUE", out)
  BY <1>1, Zenon DEF var_write_read
<1>3. p[2] < Len(w.srv.vars)
  <2>1. Len(w.srv.vars) \in Nat
    BY DEF WorldInv, ServerInv, ServerType
  <2> QED BY <1>0, <1>1, <2>1
<1> HIDE DEF goes, out, after
<1>4. var_write_read(w, p).world = WithServer(w, after)
      /\ var_write_read(w, p).answer = Message("VAR_VALUE", out)
  BY <1>2, SentFields
<1>5. WorldInv(WithServer(w, after))
  <2>1. "VAR_WRITE_READ" \in Commands
    BY DEF Commands
  <2>2. command(w, "VAR_WRITE_READ", p, 0) = var_write_read(w, p)
    BY CommandIs
  <2>3. Served(w, command(w, "VAR_WRITE_READ", p, 0).world)
    BY <2>1, CommandServed
  <2> QED BY <1>4, <2>2, <2>3 DEF Served
<1>6. WithServer(w, after).srv = after
  BY DEF WithServer, WorldInv, WorldType
<1>7. after \in ServerType /\ Fits(after.vars, after.data) /\ after.vars = bsmp_init.vars
  BY <1>5, <1>6 DEF WorldInv, ServerInv
<1>8. out \in Seq(Bit)
  <2>1. p[2] < Len(after.vars)
    BY <1>3, <1>7 DEF WorldInv, ServerInv
  <2> QED BY <1>0, <1>7, <2>1, ValueTyped DEF out
<1> QED BY <1>4, <1>8, OutOf, BitsAreNumbers

LEMMA GroupShown ==
    ASSUME NEW w, WorldInv(w), NEW p, AskedId(p), group_read(w, p).answer.code = "GROUP_VALUES"
    PROVE  Out(group_read(w, p).answer) \in Seq(Nat)
<1> DEFINE goes == ~(Len(p) # 1) /\ ~(p[1] >= w.srv.count)
           ids == w.srv.groups[p[1]].vars
           out == Values(w.srv, ids)
<1>0. p[1] \in Nat
  BY DEF AskedId
<1>1. goes
  BY DEF group_read, Refuse, Send, Message
<1>2. group_read(w, p) = Send(w, w.srv, "GROUP_VALUES", out)
  BY <1>1, Zenon DEF group_read
<1>3. ids \in Seq(Nat) /\ \A k \in DOMAIN ids : ids[k] < Len(w.srv.vars)
  BY <1>0, <1>1, GroupAddressed
<1> HIDE DEF ids
<1>4. w.srv \in ServerType /\ Fits(w.srv.vars, w.srv.data)
  BY DEF WorldInv, ServerInv
<1> DEFINE seqs == [k \in DOMAIN ids |-> w.srv.data[ids[k] + 1]]
<1>5. seqs \in Seq(Seq(Bit))
  <2>1. ASSUME NEW k \in DOMAIN ids PROVE w.srv.data[ids[k] + 1] \in Seq(Bit)
    <3>1. ids[k] \in Nat
      BY <1>3
    <3> QED BY <1>3, <1>4, <3>1, ValueTyped
  <2>2. DOMAIN ids = 1 .. Len(ids) /\ Len(ids) \in Nat
    BY <1>3
  <2>3. seqs \in [1 .. Len(ids) -> Seq(Bit)]
    BY <2>1, <2>2
  <2> HIDE DEF seqs
  <2> QED BY <2>2, <2>3, SeqOfLength
<1>6. out \in Seq(Bit)
  <2>1. out = FlattenSeq(seqs)
    BY DEF Values
  <2> HIDE DEF seqs
  <2> QED BY <1>5, <2>1, FlattenTyped
<1> HIDE DEF out
<1>7. group_read(w, p).answer = Message("GROUP_VALUES", out)
  BY <1>2, SentFields
<1> QED BY <1>6, <1>7, OutOf, BitsAreNumbers

LEMMA BlockShown ==
    ASSUME NEW w, WorldInv(w), NEW c \in CallType, NEW p, p = BlockAddress(c),
           curve_block_request(w, p).answer.code = "CURVE_BLOCK"
    PROVE  /\ Out(curve_block_request(w, p).answer) \in Seq(Nat)
           /\ Len(Out(curve_block_request(w, p).answer)) = BlockSize
<1> DEFINE step == curve_block_request(w, p)
           block == w.mem[c.id * NBlocks + c.i]
<1>1. Refused(w, step) \/ BlockGiven(w, c, step)
  BY BlockRead
<1>2. step.answer.code = "CURVE_BLOCK"
  OBVIOUS
<1> HIDE DEF step
<1>3. ~Refused(w, step)
  <2>1. ASSUME NEW code \in Refusals, step = Refuse(w, code) PROVE FALSE
    <3>1. step.answer.code = code
      BY <2>1, SentFields DEF Refuse
    <3> QED BY <1>2, <3>1 DEF Refusals
  <2> QED BY <2>1 DEF Refused
<1>4. PICK payload : /\ step = Send(w, w.srv, "CURVE_BLOCK", payload)
                     /\ Out(Message("CURVE_BLOCK", payload)) = block
                     /\ block \in Seq(Bit) /\ Len(block) = BlockSize
  BY <1>1, <1>3, Zenon DEF BlockGiven
<1> HIDE DEF block
<1>5. Out(step.answer) = block
  BY <1>4, SentFields
<1>6. Out(step.answer) \in Seq(Nat) /\ Len(Out(step.answer)) = BlockSize
  BY <1>4, <1>5, BitsAreNumbers
<1> QED BY <1>6 DEF step

LEMMA RecalcRefused ==
    ASSUME NEW w, NEW p
    PROVE  curve_recalc_csum(w, p).answer.code # "OK"
BY DEF curve_recalc_csum, Refuse, Send, Message

\* Of every operation of the library.
ShowsData(step, c) ==
    step.answer.code \in Ops[c.op].answer =>
        /\ Out(step.answer) \in Seq(Nat) /\ c.op # "recalc_checksum"
        /\ c.op = "read_curve" => Len(Out(step.answer)) = BlockSize

LEMMA OpShows ==
    ASSUME cli \in CliType, NEW w, WorldInv(w), NEW c, Prepared(c), NEW r
    PROVE  ShowsData(command(w, Ops[c.op].code, Payload(c), r), c)
<1> DEFINE p == Payload(c)
           code == Ops[c.op].code
           step == command(w, code, p, r)
<1>0. /\ c \in CallType /\ c.op \in OpNames /\ c.id \in Nat /\ c.arg \in Nat
      /\ c.bytes \in Seq(Nat) /\ (c.op \notin {"create_group", "read_curve"} => c.bytes \in Seq(Bit))
      /\ Ready(c)
  BY DEF Prepared, Ready, CallType
<1> SUFFICES ASSUME step.answer.code \in Ops[c.op].answer
             PROVE  /\ Out(step.answer) \in Seq(Nat) /\ c.op # "recalc_checksum"
                    /\ c.op = "read_curve" => Len(Out(step.answer)) = BlockSize
  BY DEF ShowsData
<1>1. CASE c.op \in {"read_var", "read_group"}
  <2>1. AsksOne(p, c.id, c.bytes)
    BY <1>0, <1>1, PayloadOf DEF AsksOne
  <2>2. AskedId(p)
    BY <1>0, <2>1, AskedOne DEF AskedId
  <2> HIDE DEF p
  <2>3. CASE c.op = "read_var"
    <3>1. code = "VAR_READ" /\ Ops[c.op].answer = {"VAR_VALUE"}
      BY <2>3, OpsTable, OpsAnswers
    <3>2. step = var_read(w, p)
      BY <3>1, CommandIs
    <3> HIDE DEF step, code
    <3> QED BY <2>2, <2>3, <3>1, <3>2, VarShown
  <2>4. CASE c.op = "read_group"
    <3>1. code = "GROUP_READ" /\ Ops[c.op].answer = {"GROUP_VALUES"}
      BY <2>4, OpsTable, OpsAnswers
    <3>2. step = group_read(w, p)
      BY <3>1, CommandIs
    <3> HIDE DEF step, code
    <3> QED BY <2>2, <2>4, <3>1, <3>2, GroupShown
  <2> QED BY <1>1, <2>3, <2>4
<1>2. CASE c.op = "write_read_vars"
  <2>1. AsksTwo(p, c.id, c.arg, c.bytes)
    BY <1>0, <1>2, PayloadOf DEF AsksTwo
  <2>2. AskedIds(p)
    BY <1>0, <2>1, AskedTwo DEF AskedIds
  <2>3. Clean(code, p)
    BY <1>0, PayloadClean
  <2> HIDE DEF p
  <2>4. code = "VAR_WRITE_READ" /\ Ops[c.op].answer = {"VAR_VALUE"}
    BY <1>2, OpsTable, OpsAnswers
  <2>5. step = var_write_read(w, p)
    BY <2>4, CommandIs
  <2> HIDE DEF step, code
  <2> QED BY <1>2, <2>2, <2>3, <2>4, <2>5, WrittenShown
<1>3. CASE c.op \in {"request_curve_block", "read_curve"}
  <2>1. code = "CURVE_BLOCK_REQUEST" /\ Ops[c.op].answer = {"CURVE_BLOCK"} /\ p = BlockAddress(c)
    BY <1>3, OpsTable, OpsAnswers, PayloadOf, ZenonT(60)
  <2> HIDE DEF p
  <2>2. step = curve_block_request(w, p)
    BY <2>1, CommandIs
  <2> HIDE DEF step, code
  <2> QED BY <1>0, <1>3, <2>1, <2>2, BlockShown
<1>4. CASE c.op = "recalc_checksum"
  <2>1. code = "CURVE_RECALC_CSUM" /\ Ops[c.op].answer = {"OK"}
    BY <1>4, OpsTable, OpsAnswers
  <2> HIDE DEF p
  <2>2. step = curve_recalc_csum(w, p)
    BY <2>1, CommandIs
  <2>3. step.answer.code # "OK"
    BY <2>2, RecalcRefused
  <2> HIDE DEF step, code
  <2> QED BY <2>1, <2>3
<1>5. CASE c.op \in {"write_var", "bin_op_var", "write_group", "bin_op_group", "create_group",
                     "remove_all_groups", "send_curve_block", "write_curve", "func_execute"}
  <2> HIDE DEF step
  <2>1. step.answer.code \in {"OK", "FUNC_RETURN", "FUNC_ERROR"}
    BY <1>5, OpsAnswers
  <2>2. Out(step.answer) = <<>>
    BY <2>1 DEF Out
  <2>3. <<>> \in Seq(Nat)
    OBVIOUS
  <2> QED BY <1>5, <2>2, <2>3
<1> HIDE DEF p, code, step
<1> QED BY <1>0, <1>1, <1>2, <1>3, <1>4, <1>5 DEF OpNames

----------------------------------------------------------------------------
(* The steps of the service.                                               *)

SvcNext == S!Begin \/ S!Happen \/ S!End \/ S!Change
SvcStep == [SvcNext]_(S!svcVars)

LEMMA Mapped ==
    /\ Entities = Ent(world) /\ Entities' = Ent(world') /\ Plain(call)' = Plain(call')
BY DEF Entities, Ent, Plain, NoCall

LEMMA Begins ==
    ASSUME Plain(call) = S!NoCall, Plain(call') # S!NoCall, done' = 0, seen' = <<>>,
           ret' = NoReturn, Ent(world') = Ent(world)
    PROVE  SvcStep
<1>1. S!NoReturn = NoReturn
  BY DEF S!NoReturn, NoReturn
<1>2. S!Begin
  BY <1>1, Mapped DEF S!Begin
<1> QED BY <1>2 DEF SvcStep, SvcNext

LEMMA Happens ==
    ASSUME done' = done + 1, Plain(call) # S!NoCall, done < S!NumEffects(Plain(call)),
           S!Effect(Ent(world), Ent(world'), Plain(call), done'),
           seen' = seen \o S!Shown(Ent(world'), Plain(call), done'),
           call' = call, ret' = ret
    PROVE  SvcStep
<1>1. Plain(call)' = Plain(call)
  BY Mapped
<1>2. S!Effect(Entities, Entities', Plain(call), done')
      /\ seen' = seen \o S!Shown(Entities', Plain(call), done')
  BY Mapped
<1>3. S!Happen
  BY <1>1, <1>2 DEF S!Happen
<1> QED BY <1>3 DEF SvcStep, SvcNext

LEMMA Ends ==
    ASSUME Plain(call) # S!NoCall, Plain(call') = S!NoCall, ret' # NoReturn,
           ret'.result = "SUCCESS" => done = S!NumEffects(Plain(call)) /\ ret'.out = seen,
           Ent(world') = Ent(world), done' = done, seen' = seen
    PROVE  SvcStep
<1>1. S!NoReturn = NoReturn
  BY DEF S!NoReturn, NoReturn
<1>2. S!End
  BY <1>1, Mapped DEF S!End
<1> QED BY <1>2 DEF SvcStep, SvcNext

\* Only values and blocks have changed, and they have kept their sizes.
Overwritten(s, t) ==
    /\ t.groups = s.groups
    /\ \A v \in DOMAIN s.data : Len(t.data[v]) = Len(s.data[v])
    /\ \A b \in DOMAIN s.mem : Len(t.mem[b]) = Len(s.mem[b])

LEMMA Changes ==
    ASSUME \/ \E ids \in {Ent(world').groups[Len(Ent(world').groups)]} :
                 Ent(world') = [Ent(world) EXCEPT !.groups = Append(@, ids)]
           \/ Ent(world') = [Ent(world) EXCEPT !.groups = SubSeq(@, 1, 3)]
           \/ /\ Ent(world').groups = SubSeq(Ent(world).groups, 1, 3)
              /\ Ent(world').mem = Ent(world).mem
              /\ \A v \in DOMAIN Ent(world).data : Len(Ent(world').data[v]) = Len(Ent(world).data[v])
           \/ ~QuietOthers /\ Overwritten(Ent(world), Ent(world')),
           call' = call, done' = done, seen' = seen, ret' = ret
    PROVE  SvcStep
<1>1. Plain(call)' = Plain(call)
  BY Mapped
<1>2. S!Change
  BY <1>1, Mapped DEF S!Change, Overwritten
<1> QED BY <1>2 DEF SvcStep, SvcNext

LEMMA Stutters ==
    ASSUME Ent(world') = Ent(world), Plain(call') = Plain(call), done' = done, seen' = seen, ret' = ret
    PROVE  SvcStep
<1>1. Plain(call)' = Plain(call) /\ Entities' = Entities
  BY Mapped
<1> QED BY <1>1 DEF SvcStep, S!svcVars

----------------------------------------------------------------------------
(* The invariant of the refinement.  It ties the history of a call to its  *)
(* stage, and the blocks the client reckons with to the ones of the        *)
(* server.                                                                 *)

BlockWise(curve) == curve.block_size = BlockSize /\ curve.nblocks = NBlocks

CurvesKnown(curves) == \A k \in DOMAIN curves : BlockWise(curves[k])

\* The list of curves on its way says so.
Told(m) ==
    m.code = "CURVE_LIST" =>
        \A k \in 1 .. m.size \div BSMP_CURVE_LIST_INFO : BlockWise(ReadCurve(m.payload, k))

\* The request of call c was accepted, and its answer shows out.
Taken(c, curves, n, s, out) ==
    /\ n = Had(c) + 1 /\ s = HadSeen(c) \o out /\ out \in Seq(Nat)
    /\ c.op # "recalc_checksum"
    /\ c.op \in S!Blocks => c.i < NBlocks /\ c.id < Len(curves)
    /\ c.op = "read_curve" => Len(out) = BlockSize

InHand(c, curves, m, n, s) ==
    /\ c.op \in {"request_curve_block", "send_curve_block"} => c.i = c.arg
    /\ m = Nothing => n = Had(c) /\ s = HadSeen(c)
    /\ m.code \in Ops[c.op].answer => Taken(c, curves, n, s, Out(m))

Progressed(c, curves, m, n, s) ==
    c # NoCall =>
        /\ c.stage = "op" => InHand(c, curves, m, n, s)
        /\ c.stage # "op" => n = S!NumEffects(Plain(c)) /\ s = <<>>
        /\ c.stage = "curves" => Told(m)

\* Nobody changes the standard groups.
Standard(w) == \A g \in 0 .. 2 : w.srv.groups[g].vars = bsmp_init.groups[g].vars

RefInv ==
    /\ Progressed(call, cli.curves, wire, done, seen) /\ CurvesKnown(cli.curves) /\ Standard(world)

LEMMA RefNext ==
    ASSUME Progressed(call', cli'.curves, wire', done', seen'), CurvesKnown(cli'.curves),
           Standard(world')
    PROVE  RefInv'
<1>1. CurvesKnown(cli.curves)' /\ Standard(world)'
  BY DEF CurvesKnown, Standard, BlockWise
<1>2. Progressed(call, cli.curves, wire, done, seen)'
  BY DEF Progressed, InHand, Taken, Told, BlockWise, Had, HadSeen, Plain, S!NumEffects,
     S!Blocks, S!Single, ReadCurve, Out
<1> QED BY <1>1, <1>2 DEF RefInv

LEMMA RefInit == Init => RefInv
<1> SUFFICES ASSUME Init PROVE RefInv
  OBVIOUS
<1>1. call = FirstCall /\ done = 0 /\ seen = <<>> /\ cli = NoLists /\ world.srv = bsmp_init
  BY DEF Init, FirstCall
<1>2. S!NumEffects(Plain(call)) = 0
  <2>1. Plain(call).op = "client_init"
    BY <1>1, FirstCallTyped, PlainFields
  <2> QED BY <2>1 DEF S!NumEffects, S!Blocks, S!Single
<1>3. CurvesKnown(cli.curves)
  BY <1>1 DEF CurvesKnown, NoLists
<1>4. Standard(world)
  BY <1>1 DEF Standard
<1>5. call.stage = "version"
  BY <1>1, FirstCallTyped
<1> QED BY <1>1, <1>2, <1>3, <1>4, <1>5 DEF RefInv, Progressed

----------------------------------------------------------------------------
(* The client's steps end a call of the service, or are not seen by it.    *)

LEMMA WorldStays ==
    ASSUME RefInv, world' = world
    PROVE  Ent(world') = Ent(world) /\ Standard(world')
BY DEF RefInv

LEMMA NoCallMapped ==
    /\ Plain(NoCall) = S!NoCall
    /\ \A curves, m, n, s : Progressed(NoCall, curves, m, n, s)
BY DEF Plain, S!NoCall, NoCall, Progressed

LEMMA Ended ==
    ASSUME ClientInv, RefInv, call # NoCall, NEW result, NEW out, Return(result, out),
           result # "none",
           result = "SUCCESS" => done = S!NumEffects(Plain(call)) /\ out = seen,
           world' = world, done' = done, seen' = seen, CurvesKnown(cli'.curves)
    PROVE  SvcStep /\ RefInv'
<1>1. call' = NoCall /\ ret'.result = result /\ ret'.out = out /\ NoReturn.result = "none"
  BY DEF Return, NoReturn
<1>2. call \in CallType
  BY DEF ClientInv, CallInv
<1>3. Plain(call) # S!NoCall /\ Plain(call') = S!NoCall
  BY <1>1, <1>2, PlainFields, NoCallMapped
<1>4. ret' # NoReturn
  BY <1>1
<1>5. SvcStep
  BY <1>1, <1>3, <1>4, WorldStays, Ends
<1>6. RefInv'
  BY <1>1, NoCallMapped, WorldStays, RefNext
<1> QED BY <1>5, <1>6

\* A call that has had all its effects reads a list.
Settled == done = S!NumEffects(Plain(call)) /\ seen = <<>>

LEMMA SettledLater ==
    ASSUME RefInv, call # NoCall, call.stage # "op"
    PROVE  Settled
BY DEF RefInv, Progressed, Settled

LEMMA Moves ==
    ASSUME ClientInv, RefInv, call # NoCall, Settled, NEW stage \in Stages \ {"op"}, NEW i \in Nat,
           GoTo(stage, i), wire' = Nothing,
           world' = world, done' = done, seen' = seen, CurvesKnown(cli'.curves)
    PROVE  SvcStep /\ RefInv'
<1>1. call \in CallType /\ call' = At(call, stage, i) /\ ret' = ret
  BY DEF ClientInv, CallInv, GoTo, At
<1>2. /\ call' # NoCall /\ call'.op = call.op /\ call'.id = call.id /\ call'.arg = call.arg
      /\ call'.bytes = call.bytes /\ call'.stage = stage
  BY <1>1, AtTyped
<1>3. Plain(call') = Plain(call)
  BY <1>2 DEF Plain
<1>4. SvcStep
  BY <1>1, <1>3, WorldStays, Stutters
<1>5. Told(wire')
  BY NoAnswers DEF Told
<1>6. Progressed(call', cli'.curves, wire', done', seen')
  BY <1>2, <1>3, <1>5 DEF Progressed, Settled
<1>7. RefInv'
  BY <1>6, WorldStays, RefNext
<1> QED BY <1>4, <1>7

LEMMA ListEnds ==
    ASSUME ClientInv, RefInv, call # NoCall, Settled, ListFails,
           world' = world, done' = done, seen' = seen, CurvesKnown(cli'.curves)
    PROVE  SvcStep /\ RefInv'
<1>1. Return("ERR_COMM", <<>>) \/ Return("SUCCESS", <<>>)
  BY DEF ListFails
<1>2. CASE Return("ERR_COMM", <<>>)
  BY <1>2, Ended
<1>3. CASE Return("SUCCESS", <<>>)
  BY <1>3, Ended DEF Settled
<1> QED BY <1>1, <1>2, <1>3

LEMMA VersionServes ==
    ASSUME ClientInv, RefInv, get_version
    PROVE  SvcStep /\ RefInv'
<1>1. /\ call # NoCall /\ call.stage = "version" /\ wire' = Nothing /\ cli' = cli
      /\ world' = world /\ done' = done /\ seen' = seen
  BY DEF get_version, Got, history
<1>2. CurvesKnown(cli'.curves) /\ Settled
  BY <1>1, SettledLater DEF RefInv
<1>3. Return("ERR_COMM", <<>>) \/ GoTo("vars", 0)
  BY DEF get_version
<1>4. CASE Return("ERR_COMM", <<>>)
  BY <1>1, <1>2, <1>4, Ended
<1>5. CASE GoTo("vars", 0)
  BY <1>1, <1>2, <1>5, Moves DEF Stages
<1> QED BY <1>3, <1>4, <1>5

LEMMA VarsServes ==
    ASSUME ClientInv, RefInv, update_vars_list
    PROVE  SvcStep /\ RefInv'
<1>1. /\ call # NoCall /\ call.stage = "vars" /\ wire' = Nothing
      /\ world' = world /\ done' = done /\ seen' = seen
  BY DEF update_vars_list, Got, history
<1>2. \/ Return("ERR_COMM", <<>>) /\ cli' = cli
      \/ (\E x : cli' = [cli EXCEPT !.vars = x]) /\ GoTo("groups", 0)
  BY DEF update_vars_list
<1>3. cli'.curves = cli.curves
  BY <1>2 DEF ClientInv, CliType
<1>4. CurvesKnown(cli'.curves) /\ Settled
  BY <1>1, <1>3, SettledLater DEF RefInv
<1>5. CASE Return("ERR_COMM", <<>>)
  BY <1>1, <1>4, <1>5, Ended
<1>6. CASE GoTo("groups", 0)
  BY <1>1, <1>4, <1>6, Moves DEF Stages
<1> QED BY <1>2, <1>5, <1>6

\* The end of a list of groups or curves.
LEMMA ListDone ==
    ASSUME ClientInv, RefInv, call # NoCall, Settled, GroupsRead \/ CurvesRead, wire' = Nothing,
           world' = world, done' = done, seen' = seen, CurvesKnown(cli'.curves)
    PROVE  SvcStep /\ RefInv'
<1>1. GoTo("curves", 0) \/ GoTo("funcs", 0) \/ Return("SUCCESS", <<>>)
  BY DEF GroupsRead, CurvesRead
<1>2. CASE GoTo("curves", 0)
  BY <1>2, Moves DEF Stages
<1>3. CASE GoTo("funcs", 0)
  BY <1>3, Moves DEF Stages
<1>4. CASE Return("SUCCESS", <<>>)
  BY <1>4, Ended DEF Settled
<1> QED BY <1>1, <1>2, <1>3, <1>4

LEMMA GroupsServes ==
    ASSUME ClientInv, RefInv, update_groups_list
    PROVE  SvcStep /\ RefInv'
<1>1. /\ call # NoCall /\ call.stage = "groups" /\ wire' = Nothing
      /\ world' = world /\ done' = done /\ seen' = seen
  BY DEF update_groups_list, Got, history
<1>2. \/ ListFails /\ cli' = cli
      \/ (\E x : cli' = [cli EXCEPT !.groups = x]) /\ (GroupsRead \/ GoTo("group", 0))
  BY DEF update_groups_list
<1>3. cli'.curves = cli.curves
  BY <1>2 DEF ClientInv, CliType
<1>4. CurvesKnown(cli'.curves) /\ Settled
  BY <1>1, <1>3, SettledLater DEF RefInv
<1>5. CASE ListFails
  BY <1>1, <1>4, <1>5, ListEnds
<1>6. CASE GroupsRead
  BY <1>1, <1>4, <1>6, ListDone
<1>7. CASE GoTo("group", 0)
  BY <1>1, <1>4, <1>7, Moves DEF Stages
<1> QED BY <1>2, <1>5, <1>6, <1>7

LEMMA QueryGroupServes ==
    ASSUME ClientInv, RefInv, QueryGroup
    PROVE  SvcStep /\ RefInv'
<1>1. /\ call # NoCall /\ call.stage = "group" /\ wire' = Nothing
      /\ world' = world /\ done' = done /\ seen' = seen
  BY DEF QueryGroup, Got, history
<1>2. call \in CallType /\ call.i \in Nat /\ call.i + 1 \in Nat
  BY <1>1 DEF ClientInv, CallInv, CallType
<1>3. CASE wire.code # "GROUP"
  <2>1. ListFails /\ cli' = [cli EXCEPT !.groups = <<>>]
    BY <1>3 DEF QueryGroup
  <2>2. CurvesKnown(cli'.curves) /\ Settled
    BY <1>1, <2>1, SettledLater DEF RefInv, ClientInv, CliType
  <2> QED BY <1>1, <2>1, <2>2, ListEnds
<1>4. CASE wire.code = "GROUP"
  <2>1. /\ \E x, y : cli' = [cli EXCEPT !.groups[call.i + 1].vars = x, !.groups[call.i + 1].size = y]
        /\ GoTo("group", call.i + 1) \/ GroupsRead
    BY <1>4 DEF QueryGroup
  <2>2. cli'.curves = cli.curves
    BY <2>1 DEF ClientInv, CliType
  <2>3. CurvesKnown(cli'.curves) /\ Settled
    BY <1>1, <2>2, SettledLater DEF RefInv
  <2>4. CASE GoTo("group", call.i + 1)
    BY <1>1, <1>2, <2>3, <2>4, Moves DEF Stages
  <2>5. CASE GroupsRead
    BY <1>1, <2>3, <2>5, ListDone
  <2> QED BY <2>1, <2>4, <2>5
<1> QED BY <1>3, <1>4

LEMMA CurvesServes ==
    ASSUME ClientInv, RefInv, update_curves_list
    PROVE  SvcStep /\ RefInv'
<1>1. /\ call # NoCall /\ call.stage = "curves" /\ wire' = Nothing
      /\ world' = world /\ done' = done /\ seen' = seen
  BY DEF update_curves_list, Got, history
<1>2. Settled /\ Told(wire) /\ CurvesKnown(cli.curves) /\ cli \in CliType
  BY <1>1, SettledLater DEF RefInv, Progressed, ClientInv
<1>3. CASE wire.code # "CURVE_LIST"
  <2>1. ListFails /\ cli' = cli
    BY <1>3 DEF update_curves_list
  <2> QED BY <1>1, <1>2, <2>1, ListEnds
<1>4. CASE wire.code = "CURVE_LIST"
  <2> DEFINE count == wire.size \div BSMP_CURVE_LIST_INFO
             curves == [k \in 1 .. count |-> ReadCurve(wire.payload, k)]
  <2>1. cli' = [cli EXCEPT !.curves = curves] /\ (CurvesRead \/ GoTo("csum", 0))
    BY <1>4 DEF update_curves_list
  <2>2. CurvesKnown(curves)
    BY <1>2, <1>4 DEF CurvesKnown, Told
  <2> HIDE DEF curves
  <2>3. cli'.curves = curves
    BY <1>2, <2>1 DEF CliType
  <2>4. CASE CurvesRead
    BY <1>1, <1>2, <2>2, <2>3, <2>4, ListDone
  <2>5. CASE GoTo("csum", 0)
    BY <1>1, <1>2, <2>2, <2>3, <2>5, Moves DEF Stages
  <2> QED BY <2>1, <2>4, <2>5
<1> QED BY <1>3, <1>4

Summed(curves, new, k, sum) == new = [curves EXCEPT ![k].checksum = sum]

\* A checksum does not change the sizes.
LEMMA SummedKnown ==
    ASSUME NEW curves \in Seq(CurveSeen), CurvesKnown(curves), NEW k \in DOMAIN curves, NEW sum,
           NEW new, Summed(curves, new, k, sum)
    PROVE  CurvesKnown(new)
<1>0. new = [curves EXCEPT ![k].checksum = sum]
  BY DEF Summed
<1>1. DOMAIN new = DOMAIN curves
  BY <1>0
<1>2. ASSUME NEW j \in DOMAIN new PROVE BlockWise(new[j])
  <2>1. curves[j] \in CurveSeen /\ BlockWise(curves[j])
    BY <1>1 DEF CurvesKnown
  <2>2. new[j].block_size = curves[j].block_size /\ new[j].nblocks = curves[j].nblocks
    BY <1>0, <1>1, <2>1 DEF CurveSeen
  <2> QED BY <2>1, <2>2 DEF BlockWise
<1> QED BY <1>2 DEF CurvesKnown

LEMMA ChecksumServes ==
    ASSUME ClientInv, RefInv, QueryChecksum
    PROVE  SvcStep /\ RefInv'
<1>1. /\ call # NoCall /\ call.stage = "csum" /\ wire' = Nothing
      /\ world' = world /\ done' = done /\ seen' = seen
      /\ GoTo("csum", call.i + 1) \/ CurvesRead
  BY DEF QueryChecksum, Got, history
<1>2. call \in CallType /\ call.i \in Nat /\ call.i + 1 \in Nat /\ call.i < Len(cli.curves)
      /\ cli \in CliType /\ cli.curves \in Seq(CurveSeen)
  BY <1>1 DEF ClientInv, CallInv, CallType, CliType
<1>3. call.i + 1 \in DOMAIN cli.curves
  BY <1>2
<1>4. CurvesKnown(cli'.curves)
  <2>1. CASE wire.code # "CURVE_CSUM"
    BY <2>1 DEF QueryChecksum, RefInv
  <2>2. CASE wire.code = "CURVE_CSUM"
    <3> DEFINE sum == wire.payload[1]
               k == call.i + 1
    <3>1. cli' = [cli EXCEPT !.curves[k].checksum = sum]
      BY <2>2 DEF QueryChecksum
    <3> HIDE DEF sum, k
    <3>2. Summed(cli.curves, cli'.curves, k, sum)
      BY <1>2, <3>1 DEF CliType, Summed
    <3>3. CurvesKnown(cli.curves) /\ k \in DOMAIN cli.curves
      BY <1>3 DEF RefInv, k
    <3> QED BY <1>2, <3>2, <3>3, SummedKnown
  <2> QED BY <2>1, <2>2
<1>5. Settled
  BY <1>1, SettledLater
<1>6. CASE GoTo("csum", call.i + 1)
  BY <1>1, <1>2, <1>4, <1>5, <1>6, Moves DEF Stages
<1>7. CASE CurvesRead
  BY <1>1, <1>4, <1>5, <1>7, ListDone
<1> QED BY <1>1, <1>6, <1>7

LEMMA FuncsServes ==
    ASSUME ClientInv, RefInv, update_funcs_list
    PROVE  SvcStep /\ RefInv'
<1>1. /\ call # NoCall /\ call.stage = "funcs" /\ wire' = Nothing
      /\ world' = world /\ done' = done /\ seen' = seen
  BY DEF update_funcs_list, Got, history
<1>2. \/ Return("ERR_COMM", <<>>) /\ cli' = cli
      \/ (\E x : cli' = [cli EXCEPT !.funcs = x]) /\ Return("SUCCESS", <<>>)
  BY DEF update_funcs_list
<1>3. cli'.curves = cli.curves
  BY <1>2 DEF ClientInv, CliType
<1>4. CurvesKnown(cli'.curves) /\ Settled
  BY <1>1, <1>3, SettledLater DEF RefInv
<1>5. CASE Return("ERR_COMM", <<>>)
  BY <1>1, <1>4, <1>5, Ended
<1>6. CASE Return("SUCCESS", <<>>)
  BY <1>1, <1>4, <1>6, Ended DEF Settled
<1> QED BY <1>2, <1>5, <1>6

LEMMA AnsweredServes ==
    ASSUME ClientInv, RefInv, Answered
    PROVE  SvcStep /\ RefInv'
<1>1. /\ call # NoCall /\ call.stage = "op" /\ wire' = Nothing /\ cli' = cli
      /\ world' = world /\ done' = done /\ seen' = seen /\ call.op \notin S!Blocks
  BY DEF Answered, Got, history, S!Blocks
<1>2. /\ call \in CallType /\ call.op \in OpNames /\ CurvesKnown(cli'.curves)
      /\ InHand(call, cli.curves, wire, done, seen)
  BY <1>1 DEF ClientInv, CallInv, RefInv, Progressed
<1>3. CASE wire.code \notin Ops[call.op].answer
  <2>1. Return("ERR_COMM", <<>>)
    BY <1>3 DEF Answered
  <2> QED BY <1>1, <1>2, <2>1, Ended
<1>4. CASE wire.code \in Ops[call.op].answer
  <2>1. Taken(call, cli.curves, done, seen, Out(wire))
    BY <1>2, <1>4 DEF InHand
  <2>2. call.op \in S!Single
    BY <1>1, <1>2, <2>1 DEF Taken, OpNames, S!Single, S!Blocks
  <2>3. S!NumEffects(Plain(call)) = 1
    BY <1>1, <1>2, <2>2, PlainFields DEF S!NumEffects
  <2>4. Had(call) = 0 /\ HadSeen(call) = <<>>
    BY <1>1 DEF Had, HadSeen, S!Blocks
  <2>5. done = 1 /\ seen = Out(wire)
    BY <2>1, <2>4 DEF Taken
  <2>6. CASE Ops[call.op].update = "none"
    <3>1. Return("SUCCESS", Out(wire))
      BY <1>4, <2>6 DEF Answered
    <3> QED BY <1>1, <1>2, <2>3, <2>5, <3>1, Ended
  <2>7. CASE Ops[call.op].update # "none"
    <3>1. GoTo(Ops[call.op].update, 0)
      BY <1>4, <2>7 DEF Answered
    <3>2. call.op \in {"create_group", "remove_all_groups", "recalc_checksum"}
          /\ Ops[call.op].update \in Stages \ {"op"}
      BY <1>2, <2>7 DEF Ops, Op, OpNames, Stages
    <3>3. wire.code = "OK"
      BY <1>4, <3>2, OpsAnswers
    <3>4. Out(wire) = <<>>
      BY <3>3 DEF Out
    <3>5. Settled
      BY <2>3, <2>5, <3>4 DEF Settled
    <3> QED BY <1>1, <1>2, <3>1, <3>2, <3>5, Moves
  <2> QED BY <2>6, <2>7
<1> QED BY <1>3, <1>4

\* A curve is read and written block by block, up to the last one.
LEMMA NextBlockServes ==
    ASSUME ClientInv, RefInv, NextBlock
    PROVE  SvcStep /\ RefInv'
<1> DEFINE bytes == IF call.op = "read_curve" THEN call.bytes \o Out(wire) ELSE call.bytes
           c == [call EXCEPT !.bytes = bytes]
           next == [c EXCEPT !.i = @ + 1]
           info == cli.curves[call.id + 1]
           ends == \/ call.i + 1 >= info.nblocks
                   \/ call.op = "read_curve" /\ Len(Out(wire)) < info.block_size
           out == IF call.op = "read_curve" THEN c.bytes ELSE <<>>
<1>1. /\ call # NoCall /\ call.stage = "op" /\ wire' = Nothing /\ cli' = cli
      /\ world' = world /\ done' = done /\ seen' = seen /\ call.op \in S!Blocks
  BY DEF NextBlock, Got, history, S!Blocks
<1>2. /\ call \in CallType /\ CurvesKnown(cli.curves) /\ cli \in CliType
      /\ InHand(call, cli.curves, wire, done, seen)
  BY <1>1 DEF ClientInv, CallInv, RefInv, Progressed
<1>3. IF wire.code \notin Ops[call.op].answer THEN Return("ERR_COMM", <<>>)
      ELSE IF ends THEN Return("SUCCESS", out) ELSE call' = next /\ UNCHANGED ret
  BY DEF NextBlock
<1>4. CASE wire.code \notin Ops[call.op].answer
  BY <1>1, <1>2, <1>3, <1>4, Ended
<1>5. CASE wire.code \in Ops[call.op].answer
  <2>1. Taken(call, cli.curves, done, seen, Out(wire))
    BY <1>2, <1>5 DEF InHand
  <2>2. /\ call.i \in Nat /\ call.id \in Nat /\ call.bytes \in Seq(Nat) /\ call.i < NBlocks
        /\ call.id < Len(cli.curves) /\ cli.curves \in Seq(CurveSeen)
    BY <1>1, <1>2, <2>1 DEF Taken, CallType, CliType
  <2>3. call.id + 1 \in DOMAIN cli.curves
    BY <2>2
  <2>4. info.nblocks = NBlocks /\ info.block_size = BlockSize
    BY <1>2, <2>3 DEF CurvesKnown, BlockWise
  <2>5. c.bytes = bytes /\ c.op = call.op /\ c.i = call.i
    BY <1>2 DEF CallType
  <2> HIDE DEF info
  <2>6. done = call.i + 1 /\ seen = HadSeen(call) \o Out(wire)
    BY <1>1, <2>1 DEF Taken, Had
  <2>7. seen = IF call.op = "read_curve" THEN bytes ELSE <<>>
    <3>1. CASE call.op = "read_curve"
      BY <2>6, <3>1 DEF HadSeen
    <3>2. CASE call.op # "read_curve"
      <4>1. wire.code = "OK"
        BY <1>1, <1>5, <3>2, OpsAnswers DEF S!Blocks
      <4>2. Out(wire) = <<>> /\ HadSeen(call) = <<>>
        BY <3>2, <4>1 DEF Out, HadSeen
      <4> QED BY <2>6, <3>2, <4>2
    <3> QED BY <3>1, <3>2
  <2>8. S!NumEffects(Plain(call)) = NBlocks
    BY <1>1, <1>2, PlainFields DEF S!NumEffects
  <2>9. CASE ends
    <3>1. Return("SUCCESS", out)
      BY <1>3, <1>5, <2>9
    <3>2. call.i + 1 >= NBlocks
      <4>1. call.op = "read_curve" => Len(Out(wire)) = BlockSize
        BY <2>1 DEF Taken
      <4> QED BY <2>4, <2>9, <4>1, ServerConstants
    <3>3. done = NBlocks
      BY <2>2, <2>6, <3>2, ServerConstants
    <3>4. out = seen
      BY <2>5, <2>7
    <3> HIDE DEF out, ends
    <3> QED BY <1>1, <1>2, <2>8, <3>1, <3>3, <3>4, Ended
  <2>10. CASE ~ends
    <3>1. call' = next /\ ret' = ret
      BY <1>3, <1>5, <2>10
    <3>2. /\ next.op = call.op /\ next.id = call.id /\ next.arg = call.arg /\ next.bytes = bytes
          /\ next.stage = call.stage /\ next.i = call.i + 1
      BY <1>2 DEF CallType
    <3>3. next # NoCall
      BY <1>1, <3>2 DEF NoCall, S!Blocks
    <3> HIDE DEF next
    <3>4. Plain(next) = Plain(call)
      BY <1>1, <3>2, <3>3 DEF Plain
    <3>5. SvcStep
      BY <1>1, <3>1, <3>4, WorldStays, Stutters
    <3>6. Had(next) = done /\ HadSeen(next) = seen
      BY <1>1, <2>6, <2>7, <3>2 DEF Had, HadSeen
    <3>7. Nothing.code \notin Ops[next.op].answer
      BY <1>1, <3>2, NoAnswers, OpsAnswers DEF S!Blocks
    <3>8. InHand(next, cli.curves, Nothing, done, seen)
      BY <1>1, <3>2, <3>6, <3>7 DEF InHand, S!Blocks
    <3>9. Progressed(next, cli.curves, Nothing, done, seen)
      BY <1>1, <3>2, <3>8 DEF Progressed
    <3>10. RefInv'
      BY <1>1, <1>2, <3>1, <3>9, WorldStays, RefNext
    <3> QED BY <3>5, <3>10
  <2> QED BY <2>9, <2>10
<1> QED BY <1>4, <1>5

LEMMA RejectServes ==
    ASSUME ClientInv, RefInv, Reject
    PROVE  SvcStep /\ RefInv'
<1>1. /\ call # NoCall /\ call.stage = "op" /\ cli' = cli /\ Check(call) # "ok"
      /\ world' = world /\ done' = done /\ seen' = seen /\ Return(Check(call), <<>>)
  BY DEF Reject, history
<1>2. Check(call) \in {"PARAM_INVALID", "PARAM_OUT_OF_RANGE"}
  <2>1. call.op \in OpNames
    BY <1>1 DEF ClientInv, CallInv
  <2> QED BY <1>1, <2>1, ChecksOf
<1>3. Check(call) # "none" /\ Check(call) # "SUCCESS" /\ CurvesKnown(cli'.curves)
  BY <1>1, <1>2 DEF RefInv
<1> QED BY <1>1, <1>3, Ended

\* The library's own initialisation.
LEMMA ClientInitServes ==
    ASSUME ClientInv, AgreeInv, RefInv, bsmp_client_init
    PROVE  SvcStep /\ RefInv'
<1>1. /\ call = NoCall /\ call' = FirstCall /\ cli' = NoLists /\ done' = 0 /\ seen' = <<>>
      /\ ret' = NoReturn /\ world' = world
  BY DEF bsmp_client_init, FirstCall
<1>2. Plain(call) = S!NoCall /\ Plain(call') # S!NoCall /\ Plain(call').op = "client_init"
  BY <1>1, NoCallMapped, FirstCallTyped, PlainFields
<1>3. SvcStep
  BY <1>1, <1>2, WorldStays, Begins
<1>4. S!NumEffects(Plain(call')) = 0
  BY <1>2 DEF S!NumEffects, S!Blocks, S!Single
<1>5. call'.stage = "version"
  BY <1>1, FirstCallTyped
<1>6. Progressed(call', cli'.curves, wire', done', seen')
  BY <1>1, <1>4, <1>5 DEF Progressed
<1>7. CurvesKnown(cli'.curves)
  BY <1>1 DEF CurvesKnown, NoLists
<1>8. RefInv'
  BY <1>1, <1>6, <1>7, WorldStays, RefNext
<1> QED BY <1>3, <1>8

\* A call that reads a curve has read nothing at first.
LEMMA SizedReading ==
    ASSUME NEW c \in Calls, c.op = "read_curve"
    PROVE  Sized(c).bytes = <<>>
<1>1. c.bytes = <<>> /\ c \in [op : DOMAIN Ops, id : Nat, arg : Nat, bytes : Seq(Nat)]
  BY ClientAssumption
<1>2. Len(c.bytes) = 0
  BY <1>1
<1>3. Sized(c) = [c EXCEPT !.bytes = [i \in 1 .. Len(c.bytes) |-> IF i \in DOMAIN @ THEN @[i] ELSE i % 2]]
  BY DEF Sized
<1>4. Sized(c).bytes = [i \in 1 .. 0 |-> IF i \in DOMAIN c.bytes THEN c.bytes[i] ELSE i % 2]
  BY <1>1, <1>2, <1>3
<1> DEFINE bytes == Sized(c).bytes
<1>5. DOMAIN bytes = 1 .. 0
  BY <1>4
<1>6. bytes \in [1 .. 0 -> Nat]
  <2>1. bytes = [i \in 1 .. 0 |-> IF i \in DOMAIN c.bytes THEN c.bytes[i] ELSE i % 2]
    BY <1>4
  <2>2. \A i \in 1 .. 0 : FALSE
    OBVIOUS
  <2> HIDE DEF bytes
  <2> QED BY <2>1, <2>2
<1> HIDE DEF bytes
<1>7. bytes = <<>>
  <2>1. bytes \in Seq(Nat)
    BY <1>6
  <2> QED BY <1>5, <2>1
<1> QED BY <1>7 DEF bytes

LEMMA CallServes ==
    ASSUME ClientInv, AgreeInv, RefInv, Call
    PROVE  SvcStep /\ RefInv'
<1>1. /\ call = NoCall /\ cli' = cli /\ wire' = wire /\ done' = 0 /\ seen' = <<>>
      /\ ret' = NoReturn /\ world' = world
  BY DEF Call
<1>2. PICK c \in Calls :
         call' = [op |-> c.op, id |-> c.id, arg |-> c.arg, bytes |-> Sized(c).bytes,
                  stage |-> "op",
                  i |-> IF c.op \in {"request_curve_block", "send_curve_block"} THEN c.arg ELSE 0]
  BY DEF Call
<1>3. call' # NoCall /\ call'.stage = "op" /\ ClientInv'
  BY CallStarts
<1>4. call' \in CallType
  BY <1>3 DEF ClientInv, CallInv
<1>5. Plain(call) = S!NoCall /\ Plain(call') # S!NoCall
  BY <1>1, <1>4, NoCallMapped, PlainFields
<1>6. SvcStep
  BY <1>1, <1>5, WorldStays, Begins
<1>7. wire' = Nothing
  BY <1>1 DEF AgreeInv
<1> DEFINE bytes == Sized(c).bytes
<1>8. c.op = "read_curve" => bytes = <<>>
  BY SizedReading
<1>9. call' = [op |-> c.op, id |-> c.id, arg |-> c.arg, bytes |-> bytes, stage |-> "op",
               i |-> IF c.op \in {"request_curve_block", "send_curve_block"} THEN c.arg ELSE 0]
  BY <1>2
<1> HIDE DEF bytes
<1>10. /\ call'.op = c.op /\ call'.arg = c.arg /\ call'.bytes = bytes
       /\ call'.op \in {"request_curve_block", "send_curve_block"} => call'.i = call'.arg
       /\ call'.op \in S!Blocks => call'.i = 0
  BY <1>9 DEF S!Blocks
<1>11. Had(call') = 0 /\ HadSeen(call') = <<>>
  BY <1>8, <1>10 DEF Had, HadSeen
<1>12. Nothing.code \notin Ops[call'.op].answer
  <2>1. call'.op \in OpNames
    BY <1>3 DEF ClientInv, CallInv
  <2> QED BY <2>1, NoAnswers, OpsAnswers DEF OpNames
<1>13. InHand(call', cli'.curves, wire', done', seen')
  BY <1>1, <1>7, <1>10, <1>11, <1>12 DEF InHand
<1>14. Progressed(call', cli'.curves, wire', done', seen')
  BY <1>3, <1>13 DEF Progressed
<1>15. CurvesKnown(cli'.curves)
  BY <1>1 DEF RefInv
<1>16. RefInv'
  BY <1>1, <1>14, <1>15, WorldStays, RefNext
<1> QED BY <1>6, <1>16

----------------------------------------------------------------------------
(* The list of curves tells the client the size of its blocks.             *)

\* Sequence r is a line q of n bytes behind the m bytes of p.
Behind(r, p, q, m, n) ==
    /\ p \in Seq(Nat) /\ q \in Seq(Nat) /\ n \in Nat /\ m \in Nat /\ Len(q) = n /\ Len(p) = m
    /\ r = p \o q

Placed(r, p, q, m, n) ==
    Len(r) = m + n /\ (\A k \in 1 .. m : r[k] = p[k]) /\ \A k \in 1 .. n : r[m + k] = q[k]

LEMMA LineJoined ==
    ASSUME NEW r, NEW p, NEW q, NEW m, NEW n, Behind(r, p, q, m, n)
    PROVE  Placed(r, p, q, m, n)
<1>1. p \in Seq(Nat) /\ q \in Seq(Nat) /\ n \in Nat /\ m \in Nat /\ Len(q) = n /\ Len(p) = m
  BY DEF Behind
<1>2. r = p \o q
  BY DEF Behind
<1>3. Len(p \o q) = m + n
  BY <1>1
<1>4. \A k \in 1 .. m : (p \o q)[k] = p[k]
  BY <1>1
<1>5. \A k \in 1 .. n : (p \o q)[m + k] = q[k]
  BY <1>1
<1> QED BY <1>2, <1>3, <1>4, <1>5, Zenon DEF Placed

LEMMA LinesFlat ==
    ASSUME NEW seqs \in Seq(Seq(Nat)), Len(seqs) = 3, NEW n \in Nat, \A k \in 1 .. 3 : Len(seqs[k]) = n
    PROVE  /\ Len(FlattenSeq(seqs)) = n + n + n
           /\ \A j \in 1 .. n :
                 /\ FlattenSeq(seqs)[j] = seqs[1][j] /\ FlattenSeq(seqs)[n + j] = seqs[2][j]
                 /\ FlattenSeq(seqs)[n + n + j] = seqs[3][j]
<1>0. Len(seqs) # 0
  OBVIOUS
<1>1. PICK g \in [1 .. Len(seqs) -> Seq(Nat)] :
          /\ FlattenSeq(seqs) = g[Len(seqs)] /\ g[1] = seqs[1]
          /\ \A i \in 2 .. Len(seqs) : g[i] = g[i - 1] \o seqs[i]
  BY <1>0, FlattenUnfold
<1>2. /\ g[1] = seqs[1] /\ g[2] = g[1] \o seqs[2] /\ g[3] = g[2] \o seqs[3]
      /\ FlattenSeq(seqs) = g[3] /\ g[1] \in Seq(Nat) /\ g[2] \in Seq(Nat)
  <2>1. 2 \in 2 .. Len(seqs) /\ 3 \in 2 .. Len(seqs) /\ 1 \in 1 .. Len(seqs) /\ 2 \in 1 .. Len(seqs)
    OBVIOUS
  <2>2. g[2] = g[2 - 1] \o seqs[2] /\ g[3] = g[3 - 1] \o seqs[3] /\ FlattenSeq(seqs) = g[Len(seqs)]
        /\ g[1] = seqs[1]
    BY <1>1, <2>1
  <2>3. 2 - 1 = 1 /\ 3 - 1 = 2
    OBVIOUS
  <2> QED BY <2>1, <2>2, <2>3
<1>3. /\ seqs[2] \in Seq(Nat) /\ seqs[3] \in Seq(Nat)
      /\ Len(seqs[1]) = n /\ Len(seqs[2]) = n /\ Len(seqs[3]) = n
  <2>1. seqs \in [1 .. 3 -> Seq(Nat)]
    BY SeqOfLength
  <2> QED BY <2>1
<1> DEFINE a == g[1]
           b == g[2]
           f == g[3]
           q == seqs[2]
           r == seqs[3]
<1>4. /\ a \in Seq(Nat) /\ b \in Seq(Nat) /\ q \in Seq(Nat) /\ r \in Seq(Nat)
      /\ Len(a) = n /\ Len(q) = n /\ Len(r) = n /\ b = a \o q /\ f = b \o r
      /\ FlattenSeq(seqs) = f /\ a = seqs[1]
  BY <1>2, <1>3
<1> HIDE DEF a, b, f, q, r
<1>5. Len(b) = n + n /\ (\A j \in 1 .. n : b[j] = a[j]) /\ \A j \in 1 .. n : b[n + j] = q[j]
  <2>1. Behind(b, a, q, n, n)
    BY <1>4 DEF Behind
  <2>2. Placed(b, a, q, n, n)
    BY <2>1, LineJoined
  <2> QED BY <2>2 DEF Placed
<1>6. /\ Len(f) = n + n + n /\ (\A j \in 1 .. n + n : f[j] = b[j])
      /\ \A j \in 1 .. n : f[n + n + j] = r[j]
  <2> DEFINE m == n + n
  <2>1. m \in Nat /\ Len(b) = m
    BY <1>5
  <2> HIDE DEF m
  <2>2. Len(f) = m + n /\ (\A j \in 1 .. m : f[j] = b[j]) /\ \A j \in 1 .. n : f[m + j] = r[j]
    <3>1. Behind(f, b, r, m, n)
      BY <1>4, <2>1 DEF Behind
    <3>2. Placed(f, b, r, m, n)
      BY <3>1, LineJoined
    <3> QED BY <3>2 DEF Placed
  <2> QED BY <2>2 DEF m
<1>7. ASSUME NEW j \in 1 .. n
      PROVE  f[j] = seqs[1][j] /\ f[n + j] = q[j] /\ f[n + n + j] = r[j]
  <2>1. j \in 1 .. n + n /\ n + j \in 1 .. n + n
    OBVIOUS
  <2> QED BY <1>4, <1>5, <1>6, <2>1
<1> QED BY <1>4, <1>6, <1>7 DEF q, r

LEMMA CurvesTold ==
    ASSUME NEW w, WorldInv(w), NEW p
    PROVE  Told(curve_query_list(w, p).answer)
<1> DEFINE m == curve_query_list(w, p).answer
           b1 == BlockSize \div 256
           b2 == BlockSize % 256
           n1 == NBlocks \div 256
           n2 == NBlocks % 256
           Wr(k) == IF w.srv.curves[k].writable THEN 1 ELSE 0
           lines == [k \in DOMAIN w.srv.curves |-> <<Wr(k), b1, b2, n1, n2>>]
<1>1. m = ListOrNot(p, "CURVE_LIST", FlattenSeq(lines))
  BY DEF ListOrNot, curve_query_list, Refuse, Send
<1>2. w.srv.curves \in Seq(CurveInfo) /\ Len(w.srv.curves) = 3
  BY DEF WorldInv, ServerInv, ServerType, CurvesPlaced
<1>3. b1 \in Nat /\ b2 \in Nat /\ n1 \in Nat /\ n2 \in Nat
  BY ServerConstants
<1>4. 256 * b1 + b2 = BlockSize /\ 256 * n1 + n2 = NBlocks /\ NBlocks # 0
  BY ServerConstants, TwoBytes
<1>5. \A k \in 1 .. 3 : Wr(k) \in Nat
  OBVIOUS
<1>6. lines = [k \in 1 .. 3 |-> <<Wr(k), b1, b2, n1, n2>>]
  BY <1>2
<1> HIDE DEF m, lines, b1, b2, n1, n2, Wr
<1>7. \A k \in 1 .. 3 : <<Wr(k), b1, b2, n1, n2>> \in Seq(Nat)
  BY <1>3, <1>5
<1>8. lines \in [1 .. 3 -> Seq(Nat)]
  BY <1>6, <1>7
<1>9. lines \in Seq(Seq(Nat)) /\ Len(lines) = 3
  BY <1>8, SeqOfLength
<1>10. ASSUME NEW k \in 1 .. 3
       PROVE  /\ Len(lines[k]) = 5 /\ lines[k][2] = b1 /\ lines[k][3] = b2
              /\ lines[k][4] = n1 /\ lines[k][5] = n2
  <2>1. lines[k] = <<Wr(k), b1, b2, n1, n2>>
    BY <1>6
  <2> QED BY <2>1
<1> DEFINE f == FlattenSeq(lines)
<1>11. /\ Len(f) = 5 + 5 + 5
       /\ \A j \in 1 .. 5 : f[j] = lines[1][j] /\ f[5 + j] = lines[2][j] /\ f[5 + 5 + j] = lines[3][j]
  BY <1>9, <1>10, LinesFlat, ZenonT(60)
<1>12. ASSUME NEW k \in 1 .. 3 PROVE BlockWise(ReadCurve(f, k))
  <2>1. /\ f[5 * (k - 1) + 2] = b1 /\ f[5 * (k - 1) + 3] = b2
        /\ f[5 * (k - 1) + 4] = n1 /\ f[5 * (k - 1) + 5] = n2
    <3> HIDE DEF f
    <3>1. \A j \in 1 .. 5 : f[5 * (k - 1) + j] = lines[k][j]
      <4>1. k = 1 \/ k = 2 \/ k = 3
        OBVIOUS
      <4>2. ASSUME NEW j \in 1 .. 5 PROVE f[5 * (k - 1) + j] = lines[k][j]
        BY <1>11, <4>1
      <4> QED BY <4>2
    <3>2. 2 \in 1 .. 5 /\ 3 \in 1 .. 5 /\ 4 \in 1 .. 5 /\ 5 \in 1 .. 5
      OBVIOUS
    <3> QED BY <1>10, <3>1, <3>2
  <2> HIDE DEF f
  <2>2. ReadCurve(f, k).block_size = 256 * b1 + b2 /\ ReadCurve(f, k).nblocks = ReadBlocks(256 * n1 + n2)
    BY <2>1 DEF ReadCurve, BSMP_CURVE_LIST_INFO
  <2>3. ReadBlocks(NBlocks) = NBlocks
    BY <1>4 DEF ReadBlocks
  <2> QED BY <1>4, <2>2, <2>3 DEF BlockWise
<1>13. \/ m.code \notin DataCodes
       \/ m.payload = f /\ m.size = Len(f)
  BY <1>1, ListAnswer
<1> HIDE DEF f
<1>14. (5 + 5 + 5) \div BSMP_CURVE_LIST_INFO = 3
  BY DEF BSMP_CURVE_LIST_INFO
<1>15. Told(m)
  BY <1>11, <1>12, <1>13, <1>14 DEF Told, DataCodes
<1> QED BY <1>15 DEF m

----------------------------------------------------------------------------
(* The standard groups stay.                                               *)

LEMMA StandardSame ==
    ASSUME NEW w, NEW v, Standard(w), \A g \in 0 .. 2 : v.srv.groups[g].vars = w.srv.groups[g].vars
    PROVE  Standard(v)
BY DEF Standard

LEMMA FilledStandard ==
    ASSUME NEW w, WorldInv(w), Standard(w), NEW grp \in GroupInfo, w.srv.count < BSMP_MAX_GROUPS
    PROVE  Standard(WithServer(w, Filled(w.srv, grp))) /\ Standard(WithServer(w, Counted(w.srv, grp)))
<1>1. Slotted(w, grp)
  BY FilledFields
<1>2. \A g \in 0 .. 2 : g \in Slots /\ g # w.srv.count
  BY <1>1, ServerConstants DEF Slotted, Slots
<1> DEFINE a == WithServer(w, Filled(w.srv, grp))
           b == WithServer(w, Counted(w.srv, grp))
<1>3. \A g \in 0 .. 2 : a.srv.groups[g] = w.srv.groups[g] /\ b.srv.groups[g] = w.srv.groups[g]
  BY <1>1, <1>2 DEF Slotted
<1> HIDE DEF a, b
<1>4. Standard(a) /\ Standard(b)
  BY <1>3 DEF Standard
<1> QED BY <1>4 DEF a, b

LEMMA StandardKept ==
    ASSUME NEW w, WorldInv(w), Standard(w), NEW p \in Seq(Nat)
    PROVE  Standard(group_create(w, p).world) /\ Standard(group_remove_all(w, p).world)
<1>1. Standard(group_create(w, p).world)
  <2>1. CASE Refused(w, group_create(w, p))
    BY <2>1, NothingServed DEF Refused
  <2>2. ASSUME NEW grp \in GroupInfo, w.srv.count < BSMP_MAX_GROUPS,
               \/ group_create(w, p) = Send(w, Filled(w.srv, grp), "INVALID_ID", <<>>)
               \/ group_create(w, p) = Send(w, Counted(w.srv, grp), "OK", <<>>)
        PROVE  Standard(group_create(w, p).world)
    BY <2>2, SentFields, FilledStandard
  <2> QED BY <2>1, <2>2, CreateCases
<1>2. Standard(group_remove_all(w, p).world)
  <2>1. CASE p # <<>>
    BY <2>1, NothingServed, Zenon DEF group_remove_all
  <2>2. CASE p = <<>>
    <3> DEFINE t == [w.srv EXCEPT !.count = GROUP_STANDARD_COUNT]
    <3>1. group_remove_all(w, p) = Send(w, t, "OK", <<>>)
      BY <2>2, Zenon DEF group_remove_all
    <3>2. WithServer(w, t).srv = t /\ t.groups = w.srv.groups
      BY StandardEnt
    <3> HIDE DEF t
    <3> QED BY <3>1, <3>2, SentFields, StandardSame
  <2> QED BY <2>1, <2>2
<1> QED BY <1>1, <1>2

\* Whatever packet the server gets.
LEMMA PacketStandard ==
    ASSUME NEW w, WorldInv(w), Standard(w), NEW request, Clean(request.code, request.payload), NEW r
    PROVE  Standard(bsmp_process_packet(w, request, r).world)
<1> DEFINE after == bsmp_process_packet(w, request, r).world
<1>1. CASE request.code \notin GroupCodes
  <2>1. SameGroups(w, after)
    BY <1>1, PacketServed
  <2> HIDE DEF after
  <2> QED BY <2>1, StandardSame DEF SameGroups, after
<1>2. CASE request.code \in GroupCodes /\ Len(request.payload) # request.size
  <2>1. after = w
    BY <1>2, NothingServed, Zenon DEF bsmp_process_packet
  <2> QED BY <2>1
<1>3. CASE request.code \in GroupCodes /\ ~(Len(request.payload) # request.size)
  <2>1. request.payload \in Seq(Nat) /\ request.code \in Commands
    BY <1>3 DEF Clean, GroupCodes, Commands
  <2>2. bsmp_process_packet(w, request, r) = command(w, request.code, request.payload, r)
    BY <1>3, <2>1, Zenon DEF bsmp_process_packet
  <2>3. CASE request.code = "GROUP_CREATE"
    BY <2>1, <2>2, <2>3, CommandIs, StandardKept
  <2>4. CASE request.code = "GROUP_REMOVE_ALL"
    BY <2>1, <2>2, <2>4, CommandIs, StandardKept
  <2> QED BY <1>3, <2>3, <2>4 DEF GroupCodes
<1> QED BY <1>1, <1>2, <1>3

----------------------------------------------------------------------------
(* The server executes the request of the client: one effect of the call,  *)
(* or none.                                                                *)

\* Whether the answer a arrives or is lost.
DoneBy(a, n, s) ==
    Progressed(call, cli.curves, a, n, s) /\ Progressed(call, cli.curves, Failed, n, s)

LEMMA NotAnswers ==
    ASSUME NEW op \in OpNames
    PROVE  Nothing.code \notin Ops[op].answer /\ Failed.code \notin Ops[op].answer
<1>1. Nothing.code = "NOTHING" /\ Failed.code = "FAILED"
  BY NoAnswers
<1> QED BY <1>1, OpsAnswers DEF OpNames

LEMMA SentStandard ==
    ASSUME ClientInv, RefInv, Sends, NEW r, Process(r)
    PROVE  Standard(world')
<1>1. WorldInv(world) /\ cli \in CliType /\ CallInv /\ Standard(world)
  BY DEF ClientInv, RefInv
<1> DEFINE q == Request(call)
<1>2. Clean(q.code, q.payload)
  BY <1>1, RequestFacts
<1>3. world' = bsmp_process_packet(world, q, r).world
  BY DEF Process
<1> HIDE DEF q
<1>4. Standard(bsmp_process_packet(world, q, r).world)
  BY <1>1, <1>2, PacketStandard
<1> QED BY <1>3, <1>4

\* The requests that read a list.
LEMMA QueriesStay ==
    ASSUME NEW w, WorldInv(w), NEW p, NEW r,
           NEW code \in {"QUERY_VERSION", "VAR_QUERY_LIST", "GROUP_QUERY_LIST", "GROUP_QUERY",
                         "CURVE_QUERY_LIST", "CURVE_QUERY_CSUM", "FUNC_QUERY_LIST"}
    PROVE  /\ bsmp_process_packet(w, Message(code, p), r).world = w
           /\ code = "CURVE_QUERY_LIST" => Told(bsmp_process_packet(w, Message(code, p), r).answer)
<1>1. code \in Commands
  BY DEF Commands
<1>2. bsmp_process_packet(w, Message(code, p), r) = command(w, code, p, r)
  BY <1>1, PacketOf
<1>3. /\ code = "QUERY_VERSION" => command(w, code, p, r) = query_version(w, p)
      /\ code = "VAR_QUERY_LIST" => command(w, code, p, r) = var_query_list(w, p)
      /\ code = "GROUP_QUERY_LIST" => command(w, code, p, r) = group_query_list(w, p)
      /\ code = "GROUP_QUERY" => command(w, code, p, r) = group_query(w, p)
      /\ code = "CURVE_QUERY_LIST" => command(w, code, p, r) = curve_query_list(w, p)
      /\ code = "CURVE_QUERY_CSUM" => command(w, code, p, r) = curve_query_csum(w, p)
      /\ code = "FUNC_QUERY_LIST" => command(w, code, p, r) = func_query_list(w, p)
  BY DEF command
<1>4. command(w, code, p, r).world = w
  BY <1>3, ReadersLeave
<1>5. code = "CURVE_QUERY_LIST" => Told(command(w, code, p, r).answer)
  BY <1>3, CurvesTold
<1> QED BY <1>2, <1>4, <1>5

LEMMA QueryDone ==
    ASSUME ClientInv, RefInv, Sends, NEW r, Process(r), call.stage # "op", call' = call, ret' = ret
    PROVE  SvcStep /\ DoneBy(bsmp_process_packet(world, Request(call), r).answer, done', seen')
<1> DEFINE a == bsmp_process_packet(world, Request(call), r).answer
<1>1. call # NoCall /\ call \in CallType /\ WorldInv(world)
  BY DEF Sends, ClientInv, CallInv
<1>2. PICK code \in {"QUERY_VERSION", "VAR_QUERY_LIST", "GROUP_QUERY_LIST", "GROUP_QUERY",
                     "CURVE_QUERY_LIST", "CURVE_QUERY_CSUM", "FUNC_QUERY_LIST"} :
        \E p : Request(call) = Message(code, p) /\ (call.stage = "curves" => code = "CURVE_QUERY_LIST")
  <2>1. call.stage \in Stages \ {"op"}
    BY <1>1 DEF CallType
  <2> QED BY <1>1, <2>1, RequestStages DEF Stages
<1>3. PICK p : Request(call) = Message(code, p) /\ (call.stage = "curves" => code = "CURVE_QUERY_LIST")
  BY <1>2
<1>4. /\ bsmp_process_packet(world, Message(code, p), r).world = world
      /\ code = "CURVE_QUERY_LIST" => Told(bsmp_process_packet(world, Message(code, p), r).answer)
  BY <1>1, QueriesStay
<1>5. world' = world /\ done' = done /\ seen' = seen
  BY <1>3, <1>4 DEF Process
<1>6. call.stage = "curves" => Told(a)
  BY <1>3, <1>4
<1>7. Told(Failed)
  BY NoAnswers DEF Told
<1> HIDE DEF a
<1>8. done = S!NumEffects(Plain(call)) /\ seen = <<>>
  BY <1>1 DEF RefInv, Progressed
<1>9. DoneBy(a, done', seen')
  BY <1>5, <1>6, <1>7, <1>8 DEF DoneBy, Progressed
<1>10. SvcStep
  BY <1>5, Stutters
<1> QED BY <1>9, <1>10 DEF a

\* A call whose parameters have passed the checks.
LEMMA SentPrepared ==
    ASSUME ClientInv, RefInv, Sends, call.stage = "op"
    PROVE  /\ Prepared(call) /\ call.op \in OpNames /\ call \in CallType /\ cli \in CliType
           /\ call.op \in S!Blocks => call.id < Len(cli.curves)
           /\ call.op \in {"request_curve_block", "send_curve_block"} => call.i = call.arg
           /\ done = Had(call) /\ seen = HadSeen(call)
<1>1. /\ call # NoCall /\ call \in CallType /\ call.op \in OpNames /\ Check(call) = "ok"
      /\ wire = Nothing /\ cli \in CliType
  BY DEF Sends, ClientInv, CallInv
<1>2. Ready(call)
  BY <1>1 DEF Ready, ClientInv, CallInv
<1>3. InHand(call, cli.curves, Nothing, done, seen) /\ CurvesKnown(cli.curves)
  BY <1>1 DEF RefInv, Progressed
<1>4. /\ call.op \in {"request_curve_block", "send_curve_block"} => call.i = call.arg
      /\ done = Had(call) /\ seen = HadSeen(call)
  BY <1>3 DEF InHand
<1>5. call.op \in S!Blocks => call.id < Len(cli.curves)
  <2>1. CASE call.op = "read_curve"
    <3>1. BlockCheck(call) = "ok"
      BY <1>1, <2>1 DEF Check
    <3> QED BY <3>1 DEF BlockCheck, Has
  <2>2. CASE call.op = "write_curve"
    <3>1. SendBlockCheck(call) = "ok"
      BY <1>1, <2>2 DEF Check
    <3>2. WriteCheck(cli.curves, call.id) = "ok"
      BY <3>1 DEF SendBlockCheck
    <3> QED BY <3>2 DEF WriteCheck, Has
  <2> QED BY <2>1, <2>2 DEF S!Blocks
<1>6. call.op = "write_curve" => cli.curves[call.id + 1].block_size = BlockSize
  <2> SUFFICES ASSUME call.op = "write_curve" PROVE cli.curves[call.id + 1].block_size = BlockSize
    OBVIOUS
  <2>1. call.id < Len(cli.curves) /\ call.id \in Nat /\ cli.curves \in Seq(CurveSeen)
    BY <1>1, <1>5 DEF S!Blocks, CallType, CliType
  <2>2. call.id + 1 \in DOMAIN cli.curves
    BY <2>1
  <2> QED BY <1>3, <2>2 DEF CurvesKnown, BlockWise
<1>7. Prepared(call)
  BY <1>2, <1>4, <1>6 DEF Prepared
<1> QED BY <1>1, <1>4, <1>5, <1>7

LEMMA OpDone ==
    ASSUME ClientInv, RefInv, Sends, NEW r, Process(r), call.stage = "op", call' = call, ret' = ret
    PROVE  SvcStep /\ DoneBy(bsmp_process_packet(world, Request(call), r).answer, done', seen')
<1> DEFINE step == bsmp_process_packet(world, Request(call), r)
           a == step.answer
<1>1. /\ call # NoCall /\ WorldInv(world)
      /\ Prepared(call) /\ call.op \in OpNames /\ call \in CallType /\ cli \in CliType
      /\ call.op \in S!Blocks => call.id < Len(cli.curves)
      /\ call.op \in {"request_curve_block", "send_curve_block"} => call.i = call.arg
      /\ done = Had(call) /\ seen = HadSeen(call)
  BY SentPrepared DEF Sends, ClientInv
<1>2. step = command(world, Ops[call.op].code, Payload(call), r)
  <2>1. Ops[call.op].code \in Commands
    BY <1>1, OpsTable DEF OpNames, Commands
  <2>2. Request(call) = Message(Ops[call.op].code, Payload(call))
    BY <1>1, RequestStages
  <2> HIDE DEF Payload
  <2> QED BY <2>1, <2>2, PacketOf
<1>3. Outcome(world, step, call) /\ ShowsData(step, call)
  BY <1>1, <1>2, OpOutcome, OpShows
<1>4. /\ world' = step.world
      /\ done' = IF a.code \in Ops[call.op].answer THEN done + 1 ELSE done
      /\ seen' = IF a.code \in Ops[call.op].answer THEN seen \o Out(a) ELSE seen
  BY DEF Process
<1>5. Nothing.code \notin Ops[call.op].answer /\ Failed.code \notin Ops[call.op].answer /\ Nothing # Failed
  BY <1>1, NotAnswers, NoAnswers
<1> HIDE DEF step
<1>6. CASE a.code \in Ops[call.op].answer
  <2>1. HasEffect(world, world', call, Out(a))
    BY <1>3, <1>4, <1>6 DEF Outcome
  <2>2. /\ Out(a) \in Seq(Nat) /\ call.op # "recalc_checksum"
        /\ call.op = "read_curve" => Len(Out(a)) = BlockSize
    BY <1>3, <1>6 DEF ShowsData
  <2>3. done' = Had(call) + 1 /\ seen' = HadSeen(call) \o Out(a) /\ a # Nothing
    BY <1>1, <1>4, <1>5, <1>6
  <2>4. /\ S!Effect(Ent(world), Ent(world'), Plain(call), done')
        /\ Out(a) = S!Shown(Ent(world'), Plain(call), done')
        /\ call.op \in S!Blocks => call.i < NBlocks
    BY <2>1, <2>3 DEF HasEffect
  <2>5. Plain(call) # S!NoCall /\ Plain(call).op = call.op
    BY <1>1, PlainFields
  <2>6. done < S!NumEffects(Plain(call))
    <3>1. CASE call.op \in S!Blocks
      BY <1>1, <2>4, <2>5, <3>1 DEF Had, S!NumEffects
    <3>2. CASE call.op \notin S!Blocks
      <4>1. call.op \in S!Single
        BY <1>1, <2>2, <3>2 DEF S!Blocks, S!Single, OpNames
      <4>2. S!NumEffects(Plain(call)) = 1 /\ done = 0
        BY <1>1, <2>5, <3>2, <4>1 DEF Had, S!NumEffects
      <4> QED BY <4>2
    <3> QED BY <3>1, <3>2
  <2>7. SvcStep
    <3>1. done' = done + 1 /\ seen' = seen \o S!Shown(Ent(world'), Plain(call), done')
      BY <1>1, <2>3, <2>4
    <3> QED BY <2>4, <2>5, <2>6, <3>1, Happens
  <2>8. Taken(call, cli.curves, done', seen', Out(a))
    BY <1>1, <2>2, <2>3, <2>4 DEF Taken
  <2>9. InHand(call, cli.curves, a, done', seen') /\ InHand(call, cli.curves, Failed, done', seen')
    BY <1>1, <1>5, <2>3, <2>8 DEF InHand
  <2>10. DoneBy(a, done', seen')
    BY <2>9 DEF DoneBy, Progressed
  <2> QED BY <2>7, <2>10 DEF step
<1>7. CASE a.code \notin Ops[call.op].answer
  <2>1. Ent(world') = Ent(world) /\ done' = done /\ seen' = seen
    BY <1>3, <1>4, <1>7 DEF Outcome
  <2>2. SvcStep
    BY <2>1, Stutters
  <2>3. InHand(call, cli.curves, a, done', seen') /\ InHand(call, cli.curves, Failed, done', seen')
    BY <1>1, <1>5, <1>7, <2>1 DEF InHand
  <2>4. DoneBy(a, done', seen')
    BY <2>3 DEF DoneBy, Progressed
  <2> QED BY <2>2, <2>4 DEF step
<1> QED BY <1>6, <1>7

\* Whatever the stage.
LEMMA ProcessDone ==
    ASSUME ClientInv, RefInv, Sends, NEW r, Process(r), call' = call, ret' = ret, cli' = cli,
           wire' = bsmp_process_packet(world, Request(call), r).answer \/ wire' = Failed
    PROVE  SvcStep /\ RefInv'
<1> DEFINE a == bsmp_process_packet(world, Request(call), r).answer
<1>1. SvcStep /\ DoneBy(a, done', seen')
  BY QueryDone, OpDone
<1>2. Standard(world') /\ CurvesKnown(cli.curves)
  BY SentStandard DEF RefInv
<1>3. wire' = a \/ wire' = Failed
  OBVIOUS
<1> HIDE DEF a
<1>4. Progressed(call', cli'.curves, wire', done', seen')
  BY <1>1, <1>3 DEF DoneBy
<1>5. RefInv'
  BY <1>2, <1>4, RefNext
<1> QED BY <1>1, <1>5

LEMMA DeliverDone ==
    ASSUME ClientInv, RefInv, Deliver
    PROVE  SvcStep /\ RefInv'
<1>1. PICK r : Process(r) /\ wire' = bsmp_process_packet(world, Request(call), r).answer
  BY DEF Deliver
<1>2. Sends /\ cli' = cli /\ call' = call /\ ret' = ret
  BY DEF Deliver
<1> QED BY <1>1, <1>2, ProcessDone

LEMMA LoseAnswerDone ==
    ASSUME ClientInv, RefInv, LoseAnswer
    PROVE  SvcStep /\ RefInv'
<1>1. Sends /\ Process(0) /\ wire' = Failed /\ cli' = cli /\ call' = call /\ ret' = ret
  BY DEF LoseAnswer
<1> QED BY <1>1, ProcessDone

LEMMA LoseRequestDone ==
    ASSUME ClientInv, RefInv, LoseRequest
    PROVE  SvcStep /\ RefInv'
<1>1. /\ call # NoCall /\ wire' = Failed /\ cli' = cli /\ call' = call /\ ret' = ret
      /\ world' = world /\ done' = done /\ seen' = seen
  BY DEF LoseRequest, Sends, history
<1>2. SvcStep
  BY <1>1, WorldStays, Stutters
<1>3. Progressed(call, cli.curves, Failed, done, seen)
  <2>1. Progressed(call, cli.curves, wire, done, seen)
    BY DEF RefInv
  <2>2. Told(Failed)
    BY NoAnswers DEF Told
  <2>3. ASSUME call.stage = "op"
        PROVE  InHand(call, cli.curves, Failed, done, seen)
    <3>1. call.op \in OpNames
      BY <1>1, <2>3 DEF ClientInv, CallInv
    <3>2. Failed.code \notin Ops[call.op].answer /\ Failed # Nothing
      BY <3>1, NotAnswers, NoAnswers
    <3> QED BY <1>1, <2>1, <2>3, <3>2 DEF Progressed, InHand
  <2> QED BY <2>1, <2>2, <2>3 DEF Progressed
<1>4. RefInv'
  BY <1>1, <1>3, WorldStays, RefNext DEF RefInv
<1> QED BY <1>2, <1>4

----------------------------------------------------------------------------
(* What others do to the server: a change of the service, or nothing of    *)
(* it.                                                                     *)

Changed(s, t) ==
    \/ t = s
    \/ \E ids \in {t.groups[Len(t.groups)]} : t = [s EXCEPT !.groups = Append(@, ids)]
    \/ t = [s EXCEPT !.groups = SubSeq(@, 1, 3)]
    \/ /\ t.groups = SubSeq(s.groups, 1, 3) /\ t.mem = s.mem
       /\ \A v \in DOMAIN s.data : Len(t.data[v]) = Len(s.data[v])
    \/ ~QuietOthers /\ Overwritten(s, t)

LEMMA ChangedServes ==
    ASSUME RefInv, Changed(Ent(world), Ent(world')), Standard(world'),
           call' = call, wire' = wire, cli' = cli, ret' = ret, done' = done, seen' = seen
    PROVE  SvcStep /\ RefInv'
<1>1. ASSUME Ent(world') = Ent(world) PROVE SvcStep
  BY <1>1, Stutters
<1>2. ASSUME Ent(world') # Ent(world) PROVE SvcStep
  BY <1>2, Changes DEF Changed
<1>3. Progressed(call', cli'.curves, wire', done', seen') /\ CurvesKnown(cli'.curves)
  BY DEF RefInv
<1> QED BY <1>1, <1>2, <1>3, RefNext

LEMMA AppendChanges ==
    ASSUME NEW w, WorldInv(w), NEW grp \in GroupInfo, w.srv.count < BSMP_MAX_GROUPS
    PROVE  Changed(Ent(w), Ent(WithServer(w, Counted(w.srv, grp))))
<1> DEFINE s == Ent(w)
           t == Ent(WithServer(w, Counted(w.srv, grp)))
<1>1. t = [s EXCEPT !.groups = Append(@, grp.vars)]
  BY CountedEnt
<1>2. s.groups = [g \in 1 .. w.srv.count |-> w.srv.groups[g - 1].vars] /\ "groups" \in DOMAIN s
  BY EntFields
<1>3. s.groups \in Seq(Seq(Nat))
  <2>1. w.srv \in ServerType /\ w.srv.count \in Nat
    BY ServerConstants DEF WorldInv, ServerInv
  <2>2. ASSUME NEW g \in 1 .. w.srv.count PROVE w.srv.groups[g - 1].vars \in Seq(Nat)
    <3>1. g - 1 \in Nat /\ ~(g - 1 >= w.srv.count)
      BY <2>1
    <3> QED BY <3>1, GroupAddressed
  <2>3. s.groups \in [1 .. w.srv.count -> Seq(Nat)]
    BY <1>2, <2>2
  <2> QED BY <2>1, <2>3, SeqOfLength
<1>4. grp.vars \in Seq(Nat)
  BY DEF GroupInfo
<1> HIDE DEF s, t
<1>5. t.groups = Append(s.groups, grp.vars)
  BY <1>1, <1>2
<1>6. t.groups[Len(t.groups)] = grp.vars
  BY <1>3, <1>4, <1>5, AppendFacts
<1>7. Changed(s, t)
  BY <1>1, <1>6 DEF Changed
<1> QED BY <1>7 DEF s, t

LEMMA CreateChanges ==
    ASSUME NEW w, WorldInv(w), NEW p \in Seq(Nat)
    PROVE  Changed(Ent(w), Ent(group_create(w, p).world))
<1>1. CASE Refused(w, group_create(w, p))
  <2>1. group_create(w, p).world = w
    BY <1>1, NothingServed DEF Refused
  <2> QED BY <2>1 DEF Changed
<1>2. ASSUME NEW grp \in GroupInfo, w.srv.count < BSMP_MAX_GROUPS,
             group_create(w, p) = Send(w, Filled(w.srv, grp), "INVALID_ID", <<>>)
      PROVE  Changed(Ent(w), Ent(group_create(w, p).world))
  <2>1. Ent(group_create(w, p).world) = Ent(w)
    BY <1>2, FilledEnt, SentFields
  <2> QED BY <2>1 DEF Changed
<1>3. ASSUME NEW grp \in GroupInfo, w.srv.count < BSMP_MAX_GROUPS,
             group_create(w, p) = Send(w, Counted(w.srv, grp), "OK", <<>>)
      PROVE  Changed(Ent(w), Ent(group_create(w, p).world))
  BY <1>3, AppendChanges, SentFields
<1> QED BY <1>1, <1>2, <1>3, CreateCases

LEMMA RemoveChanges ==
    ASSUME NEW w, WorldInv(w), NEW p
    PROVE  Changed(Ent(w), Ent(group_remove_all(w, p).world))
<1>1. CASE p # <<>>
  <2>1. group_remove_all(w, p).world = w
    BY <1>1, NothingServed, Zenon DEF group_remove_all
  <2> QED BY <2>1 DEF Changed
<1>2. CASE p = <<>>
  <2> DEFINE t == [w.srv EXCEPT !.count = GROUP_STANDARD_COUNT]
  <2>1. group_remove_all(w, p) = Send(w, t, "OK", <<>>)
    BY <1>2, Zenon DEF group_remove_all
  <2>2. Ent(WithServer(w, t)) = [Ent(w) EXCEPT !.groups = SubSeq(@, 1, 3)]
    BY StandardEnt
  <2> HIDE DEF t
  <2>3. group_remove_all(w, p).world = WithServer(w, t)
    BY <2>1, SentFields
  <2> QED BY <2>2, <2>3 DEF Changed
<1> QED BY <1>1, <1>2

\* The checksum is not part of the service.
LEMMA RecalcChanges ==
    ASSUME NEW w, WorldInv(w), NEW p \in Seq(Nat)
    PROVE  Changed(Ent(w), Ent(curve_recalc_csum(w, p).world))
<1> DEFINE c == [FirstCall EXCEPT !.op = "recalc_checksum"]
<1>1. c \in CallType /\ c.op = "recalc_checksum"
  <2>1. FirstCall \in CallType
    BY FirstCallTyped
  <2> QED BY <2>1 DEF CallType, OpNames
<1> HIDE DEF c
<1>2. Outcome(w, curve_recalc_csum(w, p), c)
  BY <1>1, RecalcDone
<1>3. curve_recalc_csum(w, p).answer.code \notin Ops[c.op].answer
  BY <1>1, RecalcRefused, OpsAnswers
<1>4. Ent(curve_recalc_csum(w, p).world) = Ent(w)
  BY <1>2, <1>3 DEF Outcome
<1> QED BY <1>4 DEF Changed

LEMMA OtherChanges ==
    ASSUME NEW w, WorldInv(w), NEW request, request.payload \in Seq(Nat),
           request.code \in DOMAIN Header => request.size # Len(request.payload)
    PROVE  Changed(Ent(w), Ent(bsmp_process_packet(w, request, 0).world))
<1> DEFINE v == bsmp_process_packet(w, request, 0).world
           code == request.code
           p == request.payload
<1>1. CASE Len(p) # request.size \/ code \notin Commands
  <2>1. v = w
    BY <1>1, NothingServed, Zenon DEF bsmp_process_packet
  <2> QED BY <2>1 DEF Changed
<1>2. CASE ~(Len(p) # request.size \/ code \notin Commands)
  <2>1. bsmp_process_packet(w, request, 0) = command(w, code, p, 0)
    BY <1>2, Zenon DEF bsmp_process_packet
  <2>2. code \in Commands /\ code \notin DOMAIN Header
    BY <1>2
  <2> HIDE DEF v
  <2>3. Changed(Ent(w), Ent(w))
    BY DEF Changed
  <2> DEFINE x == command(w, code, p, 0).world
  <2>4. ASSUME code \in {"QUERY_VERSION", "VAR_QUERY_LIST", "GROUP_QUERY_LIST", "GROUP_QUERY",
                         "CURVE_QUERY_LIST", "CURVE_QUERY_CSUM", "FUNC_QUERY_LIST",
                         "VAR_READ", "GROUP_READ", "CURVE_BLOCK_REQUEST", "FUNC_EXECUTE"}
        PROVE  x = w
    <3>1. \/ command(w, code, p, 0) = query_version(w, p)
          \/ command(w, code, p, 0) = var_query_list(w, p)
          \/ command(w, code, p, 0) = group_query_list(w, p)
          \/ command(w, code, p, 0) = group_query(w, p)
          \/ command(w, code, p, 0) = curve_query_list(w, p)
          \/ command(w, code, p, 0) = curve_query_csum(w, p)
          \/ command(w, code, p, 0) = func_query_list(w, p)
          \/ command(w, code, p, 0) = var_read(w, p)
          \/ command(w, code, p, 0) = group_read(w, p)
          \/ command(w, code, p, 0) = curve_block_request(w, p)
          \/ command(w, code, p, 0) = func_execute(w, p, 0)
      BY <2>4 DEF command
    <3> QED BY <3>1, ReadersLeave
  <2>5. CASE code = "GROUP_CREATE"
    BY <2>1, <2>5, CommandIs, CreateChanges DEF v
  <2>6. CASE code = "GROUP_REMOVE_ALL"
    BY <2>1, <2>6, CommandIs, RemoveChanges DEF v
  <2>7. CASE code = "CURVE_RECALC_CSUM"
    BY <2>1, <2>7, CommandIs, RecalcChanges DEF v
  <2>8. \/ code \in {"QUERY_VERSION", "VAR_QUERY_LIST", "GROUP_QUERY_LIST", "GROUP_QUERY",
                     "CURVE_QUERY_LIST", "CURVE_QUERY_CSUM", "FUNC_QUERY_LIST",
                     "VAR_READ", "GROUP_READ", "CURVE_BLOCK_REQUEST", "FUNC_EXECUTE"}
        \/ code = "GROUP_CREATE" \/ code = "GROUP_REMOVE_ALL" \/ code = "CURVE_RECALC_CSUM"
    BY <2>2, HeaderSizes DEF Commands
  <2> QED BY <2>1, <2>3, <2>4, <2>5, <2>6, <2>7, <2>8 DEF v
<1> QED BY <1>1, <1>2

LEMMA SizesKept ==
    ASSUME NEW w, WorldInv(w), NEW v, WorldInv(v)
    PROVE  /\ \A k \in DOMAIN Ent(w).data : Len(Ent(v).data[k]) = Len(Ent(w).data[k])
           /\ \A b \in DOMAIN Ent(w).mem : Len(Ent(v).mem[b]) = Len(Ent(w).mem[b])
<1>1. ASSUME NEW k \in DOMAIN Ent(w).data PROVE Len(Ent(v).data[k]) = Len(Ent(w).data[k])
  <2>1. /\ Fits(w.srv.vars, w.srv.data) /\ Fits(v.srv.vars, v.srv.data) /\ v.srv.vars = w.srv.vars
        /\ w.srv \in ServerType /\ v.srv \in ServerType
    BY DEF WorldInv, ServerInv
  <2>2. k \in DOMAIN w.srv.data
    BY EntFields
  <2>3. k \in DOMAIN w.srv.vars /\ w.srv.vars[k].size \in Nat
    <3>1. Len(w.srv.data) = Len(w.srv.vars) /\ w.srv.data \in Seq(Seq(Bit)) /\ w.srv.vars \in Seq(VarInfo)
      BY <2>1 DEF Fits, ServerType
    <3>2. k \in 1 .. Len(w.srv.vars)
      BY <2>2, <3>1
    <3>3. w.srv.vars[k] \in VarInfo
      BY <3>1, <3>2, ElementTyped
    <3> QED BY <3>1, <3>2, <3>3 DEF VarInfo
  <2>4. /\ w.srv.data[k] \in [1 .. w.srv.vars[k].size -> Bit]
        /\ v.srv.data[k] \in [1 .. w.srv.vars[k].size -> Bit]
    BY <2>1, <2>3 DEF Fits
  <2>5. Len(v.srv.data[k]) = w.srv.vars[k].size /\ Len(w.srv.data[k]) = w.srv.vars[k].size
    BY <2>3, <2>4, BitsSeq
  <2> QED BY <2>5, EntFields
<1>2. ASSUME NEW b \in DOMAIN Ent(w).mem PROVE Len(Ent(v).mem[b]) = Len(Ent(w).mem[b])
  <2>1. w.mem \in [0 .. 3 * NBlocks - 1 -> Block] /\ v.mem \in [0 .. 3 * NBlocks - 1 -> Block]
    BY DEF WorldInv, WorldType
  <2>2. w.mem[b] \in Block /\ v.mem[b] \in Block
    BY <2>1, EntFields
  <2>3. Len(w.mem[b]) = BlockSize /\ Len(v.mem[b]) = BlockSize
    BY <2>2, ServerConstants, BitsSeq DEF Block
  <2> QED BY <2>3, EntFields
<1> QED BY <1>1, <1>2

\* A master that writes data changes no group.
LEMMA WriterChanges ==
    ASSUME ~QuietOthers, NEW w, WorldInv(w), NEW request, Clean(request.code, request.payload),
           request.code \notin GroupCodes
    PROVE  Changed(Ent(w), Ent(bsmp_process_packet(w, request, 0).world))
<1> DEFINE v == bsmp_process_packet(w, request, 0).world
<1>1. WorldInv(v) /\ v.srv.count = w.srv.count /\ v.srv.groups = w.srv.groups
  BY PacketServed DEF Served, SameGroups
<1> HIDE DEF v
<1>2. Ent(v).groups = Ent(w).groups
  <2>1. Ent(v).groups = [g \in 1 .. v.srv.count |-> v.srv.groups[g - 1].vars]
    BY EntFields
  <2>2. Ent(w).groups = [g \in 1 .. w.srv.count |-> w.srv.groups[g - 1].vars]
    BY EntFields
  <2> QED BY <1>1, <2>1, <2>2, Zenon
<1>3. Overwritten(Ent(w), Ent(v))
  BY <1>1, <1>2, SizesKept DEF Overwritten
<1>4. Changed(Ent(w), Ent(v))
  BY <1>3 DEF Changed
<1> QED BY <1>4 DEF v

LEMMA OtherDone ==
    ASSUME ClientInv, RefInv, Other
    PROVE  SvcStep /\ RefInv'
<1>1. PICK request \in Others : world' = bsmp_process_packet(world, request, 0).world
  BY DEF Other
<1>2. WorldInv(world) /\ Standard(world)
  BY DEF ClientInv, RefInv
<1>3. Clean(request.code, request.payload) /\ request.payload \in Seq(Nat)
  BY ClientAssumption DEF Clean, Bit
<1>4. Changed(Ent(world), Ent(world'))
  <2>1. CASE ~QuietOthers /\ request.code \notin GroupCodes
    BY <1>1, <1>2, <1>3, <2>1, WriterChanges
  <2>2. CASE QuietOthers \/ request.code \in GroupCodes
    <3>1. request.code \in DOMAIN Header => request.size # Len(request.payload)
      BY <2>2, HeaderSizes DEF QuietOthers, GroupCodes
    <3> QED BY <1>1, <1>2, <1>3, <3>1, OtherChanges
  <2> QED BY <2>1, <2>2
<1>5. Standard(world')
  BY <1>1, <1>2, <1>3, PacketStandard
<1>6. call' = call /\ wire' = wire /\ cli' = cli /\ ret' = ret /\ done' = done /\ seen' = seen
  BY DEF Other, history
<1> QED BY <1>4, <1>5, <1>6, ChangedServes

\* The memory of the curves lives through a restart; the groups made do not.
LEMMA RestartChanges ==
    ASSUME NEW w, WorldInv(w), Standard(w), NEW v, WorldInv(v), v.srv = bsmp_init, v.mem = w.mem
    PROVE  Changed(Ent(w), Ent(v)) /\ Standard(v)
<1> DEFINE n == w.srv.count
           old == Ent(w).groups
<1>1. w.srv \in ServerType /\ n \in Nat /\ n >= 3 /\ v.srv.count = 3
  BY ServerConstants, ServerStarts DEF WorldInv, ServerInv
<1>2. Ent(v).groups = [g \in 1 .. 3 |-> w.srv.groups[g - 1].vars]
  <2>1. Ent(v).groups = [g \in 1 .. 3 |-> bsmp_init.groups[g - 1].vars]
    BY <1>1, EntFields, ZenonT(60)
  <2>2. ASSUME NEW g \in 1 .. 3 PROVE bsmp_init.groups[g - 1].vars = w.srv.groups[g - 1].vars
    <3>1. g - 1 \in 0 .. 2
      OBVIOUS
    <3> QED BY <3>1 DEF Standard
  <2> QED BY <2>1, <2>2
<1>3. old = [g \in 1 .. n |-> w.srv.groups[g - 1].vars]
  BY EntFields
<1>4. SubSeq(old, 1, 3) = [g \in 1 .. 3 |-> w.srv.groups[g - 1].vars]
  <2>1. \A g \in 1 .. 3 : g \in 1 .. n
    BY <1>1
  <2>2. \A g \in 1 .. 3 : old[g] = w.srv.groups[g - 1].vars
    BY <1>3, <2>1
  <2> HIDE DEF old
  <2>3. SubSeq(old, 1, 3) = [g \in 1 .. 3 |-> old[g]]
    OBVIOUS
  <2> QED BY <2>2, <2>3
<1>5. Ent(v).mem = Ent(w).mem
  BY EntFields
<1>6. \A k \in DOMAIN Ent(w).data : Len(Ent(v).data[k]) = Len(Ent(w).data[k])
  BY SizesKept
<1>7. Standard(v)
  BY DEF Standard
<1> HIDE DEF old
<1>8. Changed(Ent(w), Ent(v))
  BY <1>2, <1>4, <1>5, <1>6 DEF Changed, old
<1> QED BY <1>7, <1>8

LEMMA RestartDone ==
    ASSUME ClientInv, RefInv, Restart
    PROVE  SvcStep /\ RefInv'
<1>1. /\ world' = [world EXCEPT !.srv = bsmp_init, !.ends = FullEnds]
      /\ call' = call /\ wire' = wire /\ cli' = cli /\ ret' = ret /\ done' = done /\ seen' = seen
  BY DEF Restart, history
<1>2. WorldInv(world) /\ Standard(world) /\ world \in WorldType
  BY DEF ClientInv, RefInv, WorldInv
<1>3. WorldInv(world') /\ world'.srv = bsmp_init /\ world'.mem = world.mem
  BY <1>1, <1>2, RestartServes DEF WorldType
<1>4. Changed(Ent(world), Ent(world')) /\ Standard(world')
  BY <1>2, <1>3, RestartChanges
<1> QED BY <1>1, <1>4, ChangedServes

\* What the C28 does is not seen by the service.
LEMMA C28Done ==
    ASSUME ClientInv, RefInv, C28Moves
    PROVE  SvcStep /\ RefInv'
<1>1. PICK c28 \in [selected : {0, 1}, playing : BOOLEAN, scope : BOOLEAN] :
         world' = [world EXCEPT !.c28 = c28]
  BY DEF C28Moves
<1>2. call' = call /\ wire' = wire /\ cli' = cli /\ ret' = ret /\ done' = done /\ seen' = seen
  BY DEF C28Moves, history
<1>3. world \in WorldType /\ Standard(world)
  BY DEF ClientInv, WorldInv, RefInv
<1>4. world'.srv = world.srv /\ world'.mem = world.mem /\ world'.ends = world.ends
  BY <1>1, <1>3 DEF WorldType
<1>5. Ent(world') = Ent(world)
  BY <1>4, EntSame
<1>6. Changed(Ent(world), Ent(world')) /\ Standard(world')
  BY <1>3, <1>4, <1>5, StandardSame DEF Changed
<1> QED BY <1>2, <1>6, ChangedServes

----------------------------------------------------------------------------
(* The client, the link and the server give the service.                   *)

LEMMA RefStep == ClientInv /\ AgreeInv /\ RefInv /\ [Next]_vars => SvcStep /\ RefInv'
<1> SUFFICES ASSUME ClientInv, AgreeInv, RefInv, [Next]_vars PROVE SvcStep /\ RefInv'
  OBVIOUS
<1>1. CASE Call \/ bsmp_client_init \/ Reject
  BY <1>1, CallServes, ClientInitServes, RejectServes
<1>2. CASE Deliver \/ LoseRequest \/ LoseAnswer
  BY <1>2, DeliverDone, LoseRequestDone, LoseAnswerDone
<1>3. CASE ClientTakes
  BY <1>3, VersionServes, VarsServes, GroupsServes, QueryGroupServes, CurvesServes,
     ChecksumServes, FuncsServes, AnsweredServes, NextBlockServes DEF ClientTakes
<1>4. CASE Restart \/ Other \/ C28Moves
  BY <1>4, RestartDone, OtherDone, C28Done
<1>5. CASE UNCHANGED vars
  <2>1. /\ world' = world /\ call' = call /\ wire' = wire /\ cli' = cli /\ ret' = ret
        /\ done' = done /\ seen' = seen
    BY <1>5 DEF vars
  <2>2. Changed(Ent(world), Ent(world')) /\ Standard(world')
    BY <2>1, WorldStays DEF Changed
  <2> QED BY <2>1, <2>2, ChangedServes
<1> QED BY <1>1, <1>2, <1>3, <1>4, <1>5 DEF Next, Progress

(* The library, the link and the server give the service of BsmpService:   *)
(* every effect of a call happens at most once, in order and on what the   *)
(* identifiers name; success means that all have happened, and the caller  *)
(* gets what was there (client.c, server.c), whatever is lost, however     *)
(* often the server restarts and whatever other masters send.              *)
THEOREM ServiceImplemented == Spec => Refines
<1>1. Init => ClientInv /\ AgreeInv /\ RefInv
  BY InvInit, AgreeInit, RefInit
<1>2. ClientInv /\ AgreeInv /\ RefInv /\ [Next]_vars => ClientInv' /\ AgreeInv' /\ RefInv' /\ SvcStep
  BY InvStep, AgreeStep, RefStep
<1>3. SvcStep <=> [SvcNext]_(S!svcVars)
  BY DEF SvcStep
<1> QED BY <1>1, <1>2, <1>3, PTL DEF Spec, Refines, S!Service, SvcNext
=============================================================================
