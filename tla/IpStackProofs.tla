---------------------------- MODULE IpStackProofs ----------------------------
(***************************************************************************)
(* Theorems about IpStack, for any frames in any order, any depths of the  *)
(* FIFOs and of the echo buffer, any send_level and any time the ARP table *)
(* takes to answer.                                                        *)
(***************************************************************************)
EXTENDS IpStack, SetInduction, FiniteSetTheorems

(* FlattenSeq, piece after piece. *)

\* FlattenSeq's recursion, over the first n pieces.
Runs(f, pieces, n) ==
    f = [j \in 1 .. n |-> IF j = 1 THEN pieces[j] ELSE f[j - 1] \o pieces[j]]

LEMMA RunExists ==
    ASSUME NEW pieces, NEW n \in Nat PROVE \E f : Runs(f, pieces, n)
<1> DEFINE G == {m \in Nat : \E f : Runs(f, pieces, m)}
<1>1. 0 \in G
  <2>1. Runs([j \in 1 .. 0 |-> << >>], pieces, 0)
    BY DEF Runs
  <2>2. QED
    BY <2>1
<1>2. ASSUME NEW m \in G PROVE m + 1 \in G
  <2>1. PICK f : Runs(f, pieces, m)
    OBVIOUS
  <2> DEFINE last == IF m = 0 THEN pieces[1] ELSE f[m] \o pieces[m + 1]
             g == [j \in 1 .. m + 1 |-> IF j = m + 1 THEN last ELSE f[j]]
  <2>2. \A j \in 1 .. m : f[j] = IF j = 1 THEN pieces[j] ELSE f[j - 1] \o pieces[j]
    BY <2>1 DEF Runs
  <2>3. \A j \in 1 .. m : g[j] = f[j] /\ j # m + 1
    OBVIOUS
  <2>4. g[m + 1] = last
    OBVIOUS
  <2>5. ASSUME NEW j \in 1 .. m + 1
        PROVE  g[j] = IF j = 1 THEN pieces[j] ELSE g[j - 1] \o pieces[j]
    <3>1. CASE j = m + 1
      <4>1. (j = 1 <=> m = 0) /\ (m # 0 => j - 1 = m /\ m \in 1 .. m)
        BY <3>1
      <4>2. m # 0 => g[m] = f[m]
        BY <2>3, <4>1
      <4>3. QED
        BY <2>4, <3>1, <4>1, <4>2
    <3>2. CASE j # m + 1
      <4>1. j \in 1 .. m /\ (j # 1 => j - 1 \in 1 .. m)
        BY <3>2
      <4>2. QED
        BY <2>2, <2>3, <4>1
    <3>3. QED
      BY <3>1, <3>2
  <2>6. g = [j \in 1 .. m + 1 |-> g[j]]
    OBVIOUS
  <2> HIDE DEF g
  <2>7. Runs(g, pieces, m + 1)
    BY <2>5, <2>6 DEF Runs
  <2>8. QED
    BY <2>7
<1>3. G = Nat
  <2>1. G \in SUBSET Nat
    OBVIOUS
  <2> HIDE DEF G
  <2>2. QED
    BY <1>1, <1>2, <2>1, NatInduct
<1>4. QED
  BY <1>3

LEMMA RunsAgree ==
    ASSUME NEW f, NEW g, NEW u, NEW v, NEW n \in Nat, NEW m \in Nat, n # 0, n <= m,
           Runs(f, u, n), Runs(g, v, m), \A j \in 1 .. n : u[j] = v[j]
    PROVE  f[n] = g[n]
<1> DEFINE G == {j \in Nat : j + 1 <= n => f[j + 1] = g[j + 1]}
<1>1. /\ \A j \in 1 .. n : f[j] = IF j = 1 THEN u[j] ELSE f[j - 1] \o u[j]
      /\ \A j \in 1 .. m : g[j] = IF j = 1 THEN v[j] ELSE g[j - 1] \o v[j]
  BY DEF Runs
<1>2. 0 \in G
  <2>1. 1 \in 1 .. n /\ 1 \in 1 .. m /\ 0 + 1 = 1
    OBVIOUS
  <2>2. f[1] = g[1]
    BY <1>1, <2>1
  <2>3. QED
    BY <2>1, <2>2
<1>3. ASSUME NEW j \in G PROVE j + 1 \in G
  <2> SUFFICES ASSUME j + 1 + 1 <= n PROVE f[j + 1 + 1] = g[j + 1 + 1]
    OBVIOUS
  <2>1. /\ j + 1 + 1 \in 1 .. n /\ j + 1 + 1 \in 1 .. m /\ j + 1 + 1 # 1
        /\ j + 1 + 1 - 1 = j + 1 /\ j + 1 <= n
    OBVIOUS
  <2>2. f[j + 1 + 1] = f[j + 1] \o u[j + 1 + 1] /\ g[j + 1 + 1] = g[j + 1] \o v[j + 1 + 1]
    <3>1. PICK h : h = j + 1 + 1
      OBVIOUS
    <3>2. h \in 1 .. n /\ h \in 1 .. m /\ h # 1 /\ h - 1 = j + 1
      BY <2>1, <3>1
    <3>3. f[h] = f[h - 1] \o u[h] /\ g[h] = g[h - 1] \o v[h]
      BY <1>1, <3>2
    <3>4. QED
      BY <3>1, <3>2, <3>3
  <2>3. f[j + 1] = g[j + 1]
    BY <2>1
  <2>4. j + 1 + 1 \in 1 .. n /\ u[j + 1 + 1] = v[j + 1 + 1]
    BY <2>1
  <2>5. QED
    BY <2>2, <2>3, <2>4
<1>4. G = Nat
  <2>1. G \in SUBSET Nat
    OBVIOUS
  <2> HIDE DEF G
  <2>2. QED
    BY <1>2, <1>3, <2>1, NatInduct
<1>5. n - 1 \in Nat /\ n - 1 + 1 = n /\ n <= n
  OBVIOUS
<1>6. n - 1 \in G
  BY <1>4, <1>5
<1>7. n - 1 + 1 <= n => f[n - 1 + 1] = g[n - 1 + 1]
  BY <1>6
<1> HIDE DEF G
<1>8. QED
  BY <1>5, <1>7

LEMMA FlattenRun ==
    ASSUME NEW pieces, Len(pieces) \in Nat \ {0}
    PROVE  \E f : Runs(f, pieces, Len(pieces)) /\ FlattenSeq(pieces) = f[Len(pieces)]
<1>1. FlattenSeq(pieces) = (CHOOSE f : Runs(f, pieces, Len(pieces)))[Len(pieces)]
  BY DEF FlattenSeq, Runs
<1>2. \E f : Runs(f, pieces, Len(pieces))
  BY RunExists
<1>3. QED
  BY <1>1, <1>2

\* Pieces that are given by a function of their number.
LEMMA FlattenNone == ASSUME NEW u PROVE FlattenSeq([j \in 1 .. 0 |-> u[j]]) = << >>
<1>1. [j \in 1 .. 0 |-> u[j]] = << >>
  OBVIOUS
<1>2. Len(<< >>) = 0
  OBVIOUS
<1>3. QED
  BY <1>1, <1>2 DEF FlattenSeq

LEMMA FlattenNext ==
    ASSUME NEW u, NEW v, NEW n \in Nat, NEW S,
           \A j \in 1 .. n : u[j] = v[j], v[n + 1] \in Seq(S)
    PROVE  FlattenSeq([j \in 1 .. n + 1 |-> v[j]]) = FlattenSeq([j \in 1 .. n |-> u[j]]) \o v[n + 1]
<1> DEFINE q == [j \in 1 .. n |-> u[j]]
           r == [j \in 1 .. n + 1 |-> v[j]]
<1>1. Len(q) = n /\ Len(r) = n + 1 /\ n + 1 \in Nat \ {0}
  OBVIOUS
<1>2. r[n + 1] = v[n + 1] /\ \A j \in 1 .. n : q[j] = r[j]
  OBVIOUS
<1>3. n = 0 => q = << >>
  OBVIOUS
<1> HIDE DEF q, r
<1>4. PICK g : Runs(g, r, n + 1) /\ FlattenSeq(r) = g[n + 1]
  BY <1>1, FlattenRun
<1>5. n + 1 \in 1 .. n + 1 /\ (n + 1 = 1 <=> n = 0) /\ n + 1 - 1 = n
  OBVIOUS
<1>6. g[n + 1] = IF n = 0 THEN r[n + 1] ELSE g[n] \o r[n + 1]
  <2>1. \A j \in 1 .. n + 1 : g[j] = IF j = 1 THEN r[j] ELSE g[j - 1] \o r[j]
    BY <1>4 DEF Runs
  <2>2. g[n + 1] = IF n + 1 = 1 THEN r[n + 1] ELSE g[n + 1 - 1] \o r[n + 1]
    BY <1>5, <2>1
  <2>3. QED
    BY <1>5, <2>2
<1>7. CASE n = 0
  <2>1. FlattenSeq(q) = << >>
    BY <1>1, <1>3, <1>7 DEF FlattenSeq
  <2>2. QED
    BY <1>2, <1>4, <1>6, <1>7, <2>1, ConcatEmptySeq DEF q, r
<1>8. CASE n # 0
  <2>1. PICK f : Runs(f, q, n) /\ FlattenSeq(q) = f[n]
    BY <1>1, <1>8, FlattenRun
  <2>2. f[n] = g[n]
    <3>1. n \in Nat /\ n # 0 /\ n <= n + 1 /\ n + 1 \in Nat
      BY <1>8
    <3>2. Runs(f, q, n) /\ Runs(g, r, n + 1) /\ \A j \in 1 .. n : q[j] = r[j]
      BY <1>2, <1>4, <2>1
    <3>3. PICK q1, r1, m : q1 = q /\ r1 = r /\ m = n + 1
      OBVIOUS
    <3>4. Runs(f, q1, n) /\ Runs(g, r1, m) /\ (\A j \in 1 .. n : q1[j] = r1[j]) /\ n <= m /\ m \in Nat
      BY <3>1, <3>2, <3>3
    <3>5. QED
      BY <3>1, <3>4, RunsAgree
  <2>3. QED
    BY <1>2, <1>4, <1>6, <1>8, <2>1, <2>2 DEF q, r
<1>9. QED
  BY <1>7, <1>8

LEMMA FlattenTyped ==
    ASSUME NEW u, NEW n \in Nat, NEW S, \A j \in 1 .. n : u[j] \in Seq(S)
    PROVE  FlattenSeq([j \in 1 .. n |-> u[j]]) \in Seq(S)
<1> DEFINE G == {m \in Nat : m <= n => FlattenSeq([j \in 1 .. m |-> u[j]]) \in Seq(S)}
<1>1. 0 \in G
  <2>1. FlattenSeq([j \in 1 .. 0 |-> u[j]]) = << >> /\ << >> \in Seq(S)
    BY FlattenNone
  <2>2. QED
    BY <2>1
<1>2. ASSUME NEW m \in G PROVE m + 1 \in G
  <2> SUFFICES ASSUME m + 1 <= n PROVE FlattenSeq([j \in 1 .. m + 1 |-> u[j]]) \in Seq(S)
    OBVIOUS
  <2>1. m <= n /\ m + 1 \in 1 .. n /\ m \in Nat
    OBVIOUS
  <2>2. FlattenSeq([j \in 1 .. m |-> u[j]]) \in Seq(S) /\ u[m + 1] \in Seq(S)
    BY <2>1
  <2>3. FlattenSeq([j \in 1 .. m + 1 |-> u[j]]) = FlattenSeq([j \in 1 .. m |-> u[j]]) \o u[m + 1]
    BY <2>1, <2>2, FlattenNext
  <2>4. QED
    BY <2>2, <2>3, ConcatProperties
<1>3. G = Nat
  <2>1. G \in SUBSET Nat
    OBVIOUS
  <2> HIDE DEF G
  <2>2. QED
    BY <1>1, <1>2, <2>1, NatInduct
<1>4. n \in G
  BY <1>3
<1>5. QED
  BY <1>4

Owed(u, n) == FlattenSeq([j \in 1 .. n |-> u[j]])

LEMMA FlattenSplit ==
    ASSUME NEW u, NEW n \in Nat, NEW m \in Nat, n <= m, NEW S, \A j \in 1 .. m : u[j] \in Seq(S)
    PROVE  \E rest \in Seq(S) : Owed(u, m) = Owed(u, n) \o rest
<1> DEFINE First(l) == FlattenSeq([j \in 1 .. l |-> u[j]])
           G == {d \in Nat : n + d <= m => \E rest \in Seq(S) : First(n + d) = First(n) \o rest}
<1>1. \A l \in 0 .. m : First(l) \in Seq(S)
  <2>1. SUFFICES ASSUME NEW l \in 0 .. m PROVE First(l) \in Seq(S)
    OBVIOUS
  <2>2. l \in Nat /\ \A j \in 1 .. l : u[j] \in Seq(S)
    OBVIOUS
  <2>3. QED
    BY <2>2, FlattenTyped
<1>2. \A l \in 0 .. m : l + 1 <= m => First(l + 1) = First(l) \o u[l + 1] /\ u[l + 1] \in Seq(S)
  <2>1. SUFFICES ASSUME NEW l \in 0 .. m, l + 1 <= m PROVE First(l + 1) = First(l) \o u[l + 1] /\ u[l + 1] \in Seq(S)
    OBVIOUS
  <2>2. l \in Nat /\ u[l + 1] \in Seq(S)
    BY <2>1
  <2>3. QED
    BY <2>2, FlattenNext
<1> HIDE DEF First
<1>3. 0 \in G
  <2>1. n + 0 = n /\ n \in 0 .. m /\ << >> \in Seq(S)
    OBVIOUS
  <2>2. First(n + 0) = First(n) \o << >>
    BY <1>1, <2>1, ConcatEmptySeq
  <2>3. QED
    BY <2>1, <2>2
<1>4. ASSUME NEW d \in G PROVE d + 1 \in G
  <2>a. d + 1 \in Nat
    OBVIOUS
  <2> SUFFICES ASSUME n + (d + 1) <= m PROVE \E rest \in Seq(S) : First(n + (d + 1)) = First(n) \o rest
    BY <2>a, Zenon
  <2>0. d \in Nat /\ (n + d <= m => \E rest \in Seq(S) : First(n + d) = First(n) \o rest)
    OBVIOUS
  <2> HIDE DEF G
  <2>1. n + d <= m /\ n + d \in 0 .. m /\ n + (d + 1) = (n + d) + 1 /\ n \in 0 .. m /\ (n + d) + 1 <= m
    BY <2>0
  <2>2. PICK rest \in Seq(S) : First(n + d) = First(n) \o rest
    BY <2>0, <2>1
  <2>3. First(n + (d + 1)) = (First(n) \o rest) \o u[(n + d) + 1] /\ u[(n + d) + 1] \in Seq(S) /\ First(n) \in Seq(S)
    BY <1>1, <1>2, <2>1, <2>2
  <2>4. /\ rest \o u[(n + d) + 1] \in Seq(S)
        /\ (First(n) \o rest) \o u[(n + d) + 1] = First(n) \o (rest \o u[(n + d) + 1])
    <3>1. PICK a, b : a = First(n) /\ b = u[(n + d) + 1]
      OBVIOUS
    <3>2. a \in Seq(S) /\ b \in Seq(S) /\ rest \in Seq(S)
      BY <2>2, <2>3, <3>1
    <3>3. rest \o b \in Seq(S) /\ (a \o rest) \o b = a \o (rest \o b)
      BY <3>2, ConcatProperties, ConcatAssociative
    <3>4. QED
      BY <3>1, <3>3
  <2>5. QED
    BY <2>3, <2>4
<1>5. G = Nat
  <2>1. G \in SUBSET Nat
    OBVIOUS
  <2> HIDE DEF G
  <2>2. QED
    BY <1>3, <1>4, <2>1, NatInduct
<1>6. m - n \in Nat /\ n + (m - n) = m /\ m <= m
  OBVIOUS
<1>7. n + (m - n) <= m => \E rest \in Seq(S) : First(n + (m - n)) = First(n) \o rest
  BY <1>5, <1>6
<1>8. QED
  BY <1>6, <1>7 DEF First, Owed

-----------------------------------------------------------------------------
(* Sequences. *)

LEMMA PrefixOfConcat ==
    ASSUME NEW S, NEW s \in Seq(S), NEW t \in Seq(S) PROVE IsPrefix(s, s \o t)
<1>1. Len(s) \in Nat /\ Len(t) \in Nat /\ Len(s \o t) = Len(s) + Len(t) /\ s \o t \in Seq(S)
  BY ConcatProperties, LenProperties
<1>2. SubSeq(s, 1, Len(s)) = s /\ SubSeq(s \o t, 1, Len(s)) = s
  BY SubSeqFull, SubSeqOfConcat1, <1>1
<1>3. QED
  BY <1>1, <1>2 DEF IsPrefix

LEMMA Regroup == \A S : \A a, b, c \in Seq(S) : (a \o b) \o c = a \o (b \o c)
  BY ConcatAssociative

\* Beats of the frames, and bytes, are pairs.
Places == Nat \X Nat

LEMMA PlacesRegroup == \A a, b, c \in Seq(Places) : (a \o b) \o c = a \o (b \o c)
  BY Regroup

LEMMA BeatsRegroup == \A a, b, c \in Seq(Nat \X Nat) : (a \o b) \o c = a \o (b \o c)
  BY PlacesRegroup DEF Places

LEMMA TailFacts ==
    ASSUME NEW S, NEW q \in Seq(S), q # << >>
    PROVE  /\ Len(q) \in Nat \ {0} /\ Head(q) = q[1] /\ Head(q) \in S
           /\ Tail(q) \in Seq(S) /\ Len(Tail(q)) = Len(q) - 1
           /\ \A j \in 1 .. Len(q) - 1 : Tail(q)[j] = q[j + 1]
           /\ Tail(q) = << >> <=> Len(q) - 1 = 0
           /\ Tail(q) # << >> => Head(Tail(q)) = Tail(q)[1]
<1>1. Len(q) \in Nat \ {0} /\ Head(q) = q[1] /\ Head(q) \in S
  OBVIOUS
<1>2. /\ Tail(q) \in Seq(S) /\ Len(Tail(q)) = Len(q) - 1
      /\ \A j \in 1 .. Len(Tail(q)) : Tail(q)[j] = q[j + 1]
  BY HeadTailProperties
<1>3. (Tail(q) = << >> <=> Len(Tail(q)) = 0) /\ (Tail(q) # << >> => Head(Tail(q)) = Tail(q)[1])
  BY <1>2, EmptySeq
<1>4. QED
  BY <1>1, <1>2, <1>3

LEMMA BytesFacts ==
    ASSUME NEW n \in Nat, NEW l \in Nat
    PROVE  /\ Bytes(n, l) \in Seq(Nat \X Nat) /\ Len(Bytes(n, l)) = l
           /\ Bytes(n, 0) = << >>
           /\ Bytes(n, l + 1) = Append(Bytes(n, l), << n, l + 1 >>)
           /\ Bytes(n, l + 1) = Bytes(n, l) \o << << n, l + 1 >> >>
<1>1. Bytes(n, l) \in Seq(Nat \X Nat) /\ Len(Bytes(n, l)) = l
  BY DEF Bytes
<1>2. Bytes(n, 0) = << >>
  BY DEF Bytes
<1>3. Bytes(n, l + 1) = Append(Bytes(n, l), << n, l + 1 >>)
  BY DEF Bytes
<1>4. << n, l + 1 >> \in Nat \X Nat
  OBVIOUS
<1>5. QED
  BY <1>1, <1>2, <1>3, <1>4, AppendIsConcat

LEMMA BytesSplit ==
    ASSUME NEW n \in Nat, NEW l \in Nat, NEW m \in Nat, l <= m
    PROVE  \E rest \in Seq(Nat \X Nat) : Bytes(n, m) = Bytes(n, l) \o rest
<1>1. Bytes(n, m) \in Seq(Nat \X Nat) /\ Len(Bytes(n, m)) = m
  BY BytesFacts
<1>2. SubSeq(Bytes(n, m), 1, l) = Bytes(n, l)
  BY DEF Bytes
<1>3. SubSeq(Bytes(n, m), l + 1, m) \in Seq(Nat \X Nat)
  BY DEF Bytes
<1>4. Bytes(n, m) = SubSeq(Bytes(n, m), 1, l) \o SubSeq(Bytes(n, m), l + 1, m)
  <2>1. Bytes(n, m) = SubSeq(Bytes(n, m), 1, m)
    BY <1>1, SubSeqFull
  <2>2. /\ 1 \in 1 .. Len(Bytes(n, m)) + 1 /\ l \in 0 .. Len(Bytes(n, m)) /\ m \in l .. Len(Bytes(n, m))
        /\ l \in 1 - 1 .. Len(Bytes(n, m))
    BY <1>1
  <2>3. QED
    BY <1>1, <2>1, <2>2, ConcatAdjacentSubSeq
<1>5. QED
  BY <1>2, <1>3, <1>4

-----------------------------------------------------------------------------
(* The inductive invariant.  Everything is told by the beat the stack is at. *)

\* The beat behind beat x, and the beats there are, one behind the last frame included.
NextBeat(frames, x) == IF x[2] = Beats(frames[x[1]]) THEN << x[1] + 1, 1 >> ELSE << x[1], x[2] + 1 >>

IsBeat(frames, x) ==
    /\ x \in Nat \X Nat /\ x[1] \in 1 .. Len(frames) + 1 /\ x[2] >= 1
    /\ x[2] <= IF x[1] > Len(frames) THEN 1 ELSE Beats(frames[x[1]])

\* The beats of q follow each other, and end follows the last.
Chain(frames, q, end) ==
    /\ \A j \in 1 .. Len(q) : IsBeat(frames, q[j]) /\ q[j][1] <= Len(frames)
    /\ \A j \in 1 .. Len(q) : NextBeat(frames, q[j]) = IF j < Len(q) THEN q[j + 1] ELSE end

\* The beat the stack takes next.
Pos == IF mac = "filter" /\ hw_fifo # << >> THEN Head(hw_fifo) ELSE << k, i >>

FeedInv ==
    /\ mac \in {"crossbar", "filter"} /\ core \in {"full", "small"} /\ input \in Scripts
    /\ held \in BOOLEAN /\ IsBeat(input, << k, i >>)
    /\ hw_fifo \in Seq(Nat \X Nat) /\ Len(hw_fifo) <= MacFifoDepth
    /\ mac = "crossbar" => hw_fifo = << >>
    /\ Chain(input, hw_fifo, << k, i >>)

LEMMA Width == Max16 = 65535
  BY DEF Max16

LEMMA WidthNat == Max16 \in Nat
  BY DEF Max16

LEMMA Modulo16 ==
    ASSUME NEW n \in Nat PROVE n % 65536 \in 0 .. Max16 /\ (n <= Max16 => n % 65536 = n)
<1>1. n % 65536 \in Nat /\ n % 65536 < 65536 /\ (n < 65536 => n % 65536 = n)
  OBVIOUS
<1>2. PICK m \in Nat : m = Max16
  BY WidthNat
<1>3. \A j \in Nat : j < 65536 <=> j <= m
  <2>1. m + 1 = 65536
    BY <1>2, Width
  <2>2. \A j \in Nat : j < m + 1 <=> j <= m
    OBVIOUS
  <2>3. QED
    BY <2>1, <2>2
<1>4. n % 65536 <= m /\ (n <= m => n % 65536 = n)
  BY <1>1, <1>3
<1>5. QED
  BY <1>1, <1>2, <1>4

\* A length of zero cuts nothing.
LEMMA Wraps ==
    ASSUME NEW c \in Nat, c < Max16, NEW length, length = 0 PROVE c # (length - 1) % 65536
<1>1. PICK n \in Int : n = -1
  OBVIOUS
<1>2. length - 1 = n
  BY <1>1
<1>3. c < 65535
  BY Width
<1>4. n % 65536 # c
  BY <1>1, <1>3
<1>5. QED
  BY <1>2, <1>4

LEMMA InputFacts ==
    ASSUME NEW frames \in Scripts
    PROVE  /\ Len(frames) \in Nat /\ DOMAIN frames = 1 .. Len(frames)
           /\ \A n \in 1 .. Len(frames) :
                /\ Beats(frames[n]) \in Nat \ {0}
                /\ frames[n].type = "ip" => /\ frames[n].size \in 1 .. Max16 /\ frames[n].length \in 0 .. Max16 - 8
                                        /\ frames[n].checksum \in 0 .. Max16 /\ Beats(frames[n]) = 2 + frames[n].size
                /\ frames[n].type = "arp" => Beats(frames[n]) = 2
                /\ frames[n].type \notin {"ip", "arp"} => Beats(frames[n]) = 1
<1>1. /\ Len(frames) \in Nat /\ DOMAIN frames = 1 .. Len(frames)
      /\ \A n \in DOMAIN frames : frames[n].type = "ip" =>
           frames[n].size \in 1 .. Max16 /\ frames[n].length \in 0 .. Max16 - 8 /\ frames[n].checksum \in 0 .. Max16
  BY RxAssumption DEF RxAssumption
<1>2. SUFFICES ASSUME NEW n \in 1 .. Len(frames)
      PROVE  /\ Beats(frames[n]) \in Nat \ {0}
             /\ frames[n].type = "ip" => Beats(frames[n]) = 2 + frames[n].size
             /\ frames[n].type = "arp" => Beats(frames[n]) = 2
             /\ frames[n].type \notin {"ip", "arp"} => Beats(frames[n]) = 1
  BY <1>1
<1>3. CASE frames[n].type = "ip"
  <2>1. Beats(frames[n]) = 2 + frames[n].size /\ frames[n].size \in 1 .. Max16
    BY <1>1, <1>2, <1>3 DEF Beats
  <2>2. QED
    BY <1>3, <2>1
<1>4. CASE frames[n].type = "arp"
  BY <1>4 DEF Beats
<1>5. CASE frames[n].type \notin {"ip", "arp"}
  BY <1>5 DEF Beats
<1>6. QED
  BY <1>3, <1>4, <1>5

LEMMA NextIsBeat ==
    ASSUME NEW frames \in Scripts, NEW x, IsBeat(frames, x), x[1] <= Len(frames)
    PROVE  IsBeat(frames, NextBeat(frames, x)) /\ NextBeat(frames, x) \in Nat \X Nat
<1>1. Len(frames) \in Nat /\ x \in Nat \X Nat /\ x[1] \in 1 .. Len(frames) /\ x[2] \in Nat /\ x[2] >= 1
      /\ \A n \in 1 .. Len(frames) : Beats(frames[n]) \in Nat \ {0}
  BY InputFacts DEF IsBeat
<1>2. x[2] <= Beats(frames[x[1]])
  BY <1>1 DEF IsBeat
<1>3. CASE x[2] = Beats(frames[x[1]])
  <2>1. NextBeat(frames, x) = << x[1] + 1, 1 >>
    BY <1>3 DEF NextBeat
  <2>2. x[1] + 1 \in 1 .. Len(frames) + 1 /\ x[1] + 1 \in Nat
    BY <1>1
  <2>3. 1 <= IF x[1] + 1 > Len(frames) THEN 1 ELSE Beats(frames[x[1] + 1])
    BY <1>1, <2>2
  <2>4. QED
    BY <2>1, <2>2, <2>3 DEF IsBeat
<1>4. CASE x[2] # Beats(frames[x[1]])
  <2>1. NextBeat(frames, x) = << x[1], x[2] + 1 >>
    BY <1>4 DEF NextBeat
  <2>2. x[2] + 1 \in Nat /\ x[2] + 1 >= 1 /\ x[2] + 1 <= Beats(frames[x[1]]) /\ x[1] \in 1 .. Len(frames) + 1 /\ x[1] \in Nat
    BY <1>1, <1>2, <1>4
  <2>3. ~(x[1] > Len(frames))
    BY <1>1
  <2>4. QED
    BY <2>1, <2>2, <2>3 DEF IsBeat
<1>5. QED
  BY <1>3, <1>4

\* The beat at the head of a FIFO, or else the one that comes in next.
First(q, end) == IF q = << >> THEN end ELSE Head(q)

LEMMA ChainPush ==
    ASSUME NEW frames, NEW q \in Seq(Nat \X Nat), NEW end \in Nat \X Nat,
           Chain(frames, q, end), IsBeat(frames, end), end[1] <= Len(frames)
    PROVE  /\ Chain(frames, q \o << end >>, NextBeat(frames, end))
           /\ q \o << end >> \in Seq(Nat \X Nat) /\ Len(q \o << end >>) = Len(q) + 1
           /\ \A e : First(q \o << end >>, e) = First(q, end)
<1>1. PICK r : r = q \o << end >>
  OBVIOUS
<1>a. PICK n : n = Len(q)
  OBVIOUS
<1>2. /\ r \in Seq(Nat \X Nat) /\ Len(r) = n + 1 /\ n \in Nat /\ r[n + 1] = end
      /\ \A j \in 1 .. n : r[j] = q[j]
  BY <1>1, <1>a
<1>3. \A e : First(r, e) = First(q, end)
  <2>1. r # << >> /\ Head(r) = IF q = << >> THEN end ELSE Head(q)
    BY <1>1
  <2>2. QED
    BY <2>1 DEF First
<1>4. ASSUME NEW j \in 1 .. n + 1
      PROVE  /\ IsBeat(frames, r[j]) /\ r[j][1] <= Len(frames)
             /\ NextBeat(frames, r[j]) = IF j < n + 1 THEN r[j + 1] ELSE NextBeat(frames, end)
  <2>1. CASE j = n + 1
    BY <1>2, <2>1
  <2>2. CASE j # n + 1
    <3>1. j \in 1 .. n /\ j < n + 1 /\ (j < n => j + 1 \in 1 .. n) /\ (~(j < n) => j + 1 = n + 1)
      BY <1>2, <2>2
    <3>2. IsBeat(frames, q[j]) /\ q[j][1] <= Len(frames) /\ NextBeat(frames, q[j]) = IF j < n THEN q[j + 1] ELSE end
      BY <1>a, <3>1 DEF Chain
    <3>3. r[j] = q[j] /\ r[j + 1] = IF j < n THEN q[j + 1] ELSE end
      BY <1>2, <3>1
    <3>4. NextBeat(frames, r[j]) = r[j + 1]
      BY <3>2, <3>3
    <3>5. QED
      BY <3>1, <3>2, <3>3, <3>4
  <2>3. QED
    BY <2>1, <2>2
<1>5. Chain(frames, r, NextBeat(frames, end))
  <2>1. PICK l : l = Len(r)
    OBVIOUS
  <2>2. l = n + 1
    BY <1>2, <2>1
  <2>3. /\ \A j \in 1 .. l : IsBeat(frames, r[j]) /\ r[j][1] <= Len(frames)
        /\ \A j \in 1 .. l : NextBeat(frames, r[j]) = IF j < l THEN r[j + 1] ELSE NextBeat(frames, end)
    BY <1>4, <2>2
  <2>4. QED
    BY <2>1, <2>3 DEF Chain
<1>6. r \in Seq(Nat \X Nat) /\ Len(r) = Len(q) + 1
  BY <1>a, <1>2
<1>7. QED
  BY <1>1, <1>3, <1>5, <1>6, Zenon

LEMMA ChainPop ==
    ASSUME NEW frames, NEW q \in Seq(Nat \X Nat), NEW end, Chain(frames, q, end), q # << >>
    PROVE  /\ Chain(frames, Tail(q), end) /\ Tail(q) \in Seq(Nat \X Nat) /\ Len(Tail(q)) = Len(q) - 1
           /\ First(Tail(q), end) = NextBeat(frames, Head(q))
           /\ IsBeat(frames, Head(q)) /\ Head(q)[1] <= Len(frames) /\ Head(q) = q[1]
<1>1. PICK r : r = Tail(q)
  OBVIOUS
<1>a. PICK n : n = Len(q)
  OBVIOUS
<1>2. /\ r \in Seq(Nat \X Nat) /\ n \in Nat \ {0} /\ Len(r) = n - 1 /\ Head(q) = q[1]
      /\ \A j \in 1 .. n - 1 : r[j] = q[j + 1]
      /\ 1 \in 1 .. n /\ (r = << >> <=> n - 1 = 0) /\ (r # << >> => Head(r) = r[1])
  <2>1. /\ Len(q) \in Nat \ {0} /\ Head(q) = q[1]
        /\ r \in Seq(Nat \X Nat) /\ Len(r) = Len(q) - 1 /\ \A j \in 1 .. Len(q) - 1 : r[j] = q[j + 1]
        /\ (r = << >> <=> Len(q) - 1 = 0) /\ (r # << >> => Head(r) = r[1])
    BY <1>1, TailFacts
  <2>2. QED
    BY <1>a, <2>1
<1>3. IsBeat(frames, q[1]) /\ q[1][1] <= Len(frames) /\ NextBeat(frames, q[1]) = IF 1 < n THEN q[1 + 1] ELSE end
  BY <1>a, <1>2 DEF Chain
<1>4. (r = << >> <=> ~(1 < n)) /\ (r # << >> => Head(r) = q[1 + 1])
  BY <1>2
<1>5. ASSUME NEW j \in 1 .. n - 1
      PROVE  /\ IsBeat(frames, r[j]) /\ r[j][1] <= Len(frames)
             /\ NextBeat(frames, r[j]) = IF j < n - 1 THEN r[j + 1] ELSE end
  <2>1. j + 1 \in 1 .. n /\ (j < n - 1 <=> j + 1 < n) /\ (j < n - 1 => j + 1 \in 1 .. n - 1)
    BY <1>2
  <2>2. /\ IsBeat(frames, q[j + 1]) /\ q[j + 1][1] <= Len(frames)
        /\ NextBeat(frames, q[j + 1]) = IF j + 1 < n THEN q[(j + 1) + 1] ELSE end
    BY <1>a, <2>1 DEF Chain
  <2>3. r[j] = q[j + 1] /\ (j < n - 1 => r[j + 1] = q[(j + 1) + 1])
    BY <1>2, <2>1
  <2>4. QED
    BY <2>1, <2>2, <2>3
<1>6. Chain(frames, r, end)
  <2>1. PICK l : l = Len(r)
    OBVIOUS
  <2>2. /\ \A j \in 1 .. l : IsBeat(frames, r[j]) /\ r[j][1] <= Len(frames)
        /\ \A j \in 1 .. l : NextBeat(frames, r[j]) = IF j < l THEN r[j + 1] ELSE end
    BY <1>2, <1>5, <2>1
  <2>3. QED
    BY <2>1, <2>2 DEF Chain
<1>7. First(r, end) = NextBeat(frames, Head(q))
  BY <1>2, <1>3, <1>4 DEF First
<1>8. QED
  BY <1>1, <1>a, <1>2, <1>3, <1>6, <1>7

\* One cycle of a FIFO of beats: the head is taken, or a beat comes in, or both.
FifoCycle(frames, q, end, pops, takes, r, new) ==
    /\ frames \in Scripts /\ q \in Seq(Nat \X Nat) /\ end \in Nat \X Nat /\ pops \in BOOLEAN /\ takes \in BOOLEAN
    /\ Chain(frames, q, end) /\ IsBeat(frames, end) /\ (pops => q # << >>) /\ (takes => end[1] <= Len(frames))
    /\ r = (IF pops THEN Tail(q) ELSE q) \o (IF takes THEN << end >> ELSE << >>)
    /\ new = IF takes THEN NextBeat(frames, end) ELSE end

LEMMA ChainMove ==
    ASSUME NEW frames, NEW q, NEW end, NEW pops, NEW takes, NEW r, NEW new,
           FifoCycle(frames, q, end, pops, takes, r, new)
    PROVE  /\ Chain(frames, r, new) /\ r \in Seq(Nat \X Nat) /\ IsBeat(frames, new)
           /\ Len(r) <= IF takes THEN Len(q) + 1 ELSE Len(q)
           /\ pops => First(r, new) = NextBeat(frames, Head(q))
           /\ ~pops => First(r, new) = First(q, end)
<1>0. /\ frames \in Scripts /\ q \in Seq(Nat \X Nat) /\ end \in Nat \X Nat /\ pops \in BOOLEAN /\ takes \in BOOLEAN
      /\ Chain(frames, q, end) /\ IsBeat(frames, end) /\ (pops => q # << >>) /\ (takes => end[1] <= Len(frames))
      /\ r = (IF pops THEN Tail(q) ELSE q) \o (IF takes THEN << end >> ELSE << >>)
      /\ new = IF takes THEN NextBeat(frames, end) ELSE end
  BY DEF FifoCycle
<1>1. PICK p : p = IF pops THEN Tail(q) ELSE q
  OBVIOUS
<1>2. /\ Chain(frames, p, end) /\ p \in Seq(Nat \X Nat) /\ Len(p) \in Nat /\ Len(q) \in Nat /\ Len(p) <= Len(q)
      /\ pops => First(p, end) = NextBeat(frames, Head(q))
      /\ ~pops => p = q
  <2>1. CASE pops
    <3>1. /\ Chain(frames, Tail(q), end) /\ Tail(q) \in Seq(Nat \X Nat) /\ Len(Tail(q)) = Len(q) - 1
          /\ First(Tail(q), end) = NextBeat(frames, Head(q))
      BY <1>0, <2>1, ChainPop
    <3>2. Len(q) \in Nat \ {0}
      BY <1>0, <2>1, TailFacts
    <3>3. QED
      BY <1>0, <1>1, <2>1, <3>1, <3>2
  <2>2. CASE ~pops
    <3>1. Len(q) \in Nat
      BY LenProperties
    <3>2. QED
      BY <1>0, <1>1, <2>2, <3>1
  <2>3. QED
    BY <1>0, <2>1, <2>2
<1>3. CASE takes
  <2>1. r = p \o << end >> /\ new = NextBeat(frames, end)
    BY <1>0, <1>1, <1>3
  <2>2. /\ Chain(frames, r, new) /\ r \in Seq(Nat \X Nat) /\ Len(r) = Len(p) + 1
        /\ First(r, new) = First(p, end)
    <3>1. /\ Chain(frames, p \o << end >>, NextBeat(frames, end)) /\ p \o << end >> \in Seq(Nat \X Nat)
          /\ Len(p \o << end >>) = Len(p) + 1 /\ \A e : First(p \o << end >>, e) = First(p, end)
      BY <1>0, <1>2, <1>3, ChainPush
    <3>2. QED
      BY <1>0, <2>1, <3>1, Zenon
  <2>3. IsBeat(frames, new)
    BY <1>0, <1>3, <2>1, NextIsBeat
  <2>4. Len(r) <= Len(q) + 1
    <3>1. PICK a, b : a = Len(p) /\ b = Len(q)
      OBVIOUS
    <3>2. a \in Nat /\ b \in Nat /\ a <= b
      BY <1>0, <1>2, <3>1
    <3>3. a + 1 <= b + 1
      BY <3>2
    <3>4. QED
      BY <1>0, <2>2, <3>1, <3>3, Zenon
  <2>5. QED
    BY <1>0, <1>2, <1>3, <2>2, <2>3, <2>4
<1>4. CASE ~takes
  <2>1. r = p /\ new = end
    BY <1>0, <1>1, <1>2, <1>4, ConcatEmptySeq
  <2>2. QED
    BY <1>0, <1>2, <1>4, <2>1
<1>5. QED
  BY <1>0, <1>3, <1>4

LEMMA HeadFacts ==
    ASSUME FeedInv
    PROVE  /\ IsBeat(input, Pos) /\ Pos \in Nat \X Nat
           /\ \A idle : HwValid(idle) => HwHead = Pos /\ Pos[1] <= Len(input)
           /\ Done = Pos[1] - 1
           /\ mac = "filter" /\ hw_fifo # << >> => Pos = Head(hw_fifo)
           /\ mac = "crossbar" \/ hw_fifo = << >> => Pos = << k, i >>
<1>1. /\ IsBeat(input, << k, i >>) /\ << k, i >> \in Nat \X Nat /\ << k, i >>[1] = k
  BY DEF FeedInv, IsBeat
<1>2. CASE mac = "filter" /\ hw_fifo # << >>
  <2>1. IsBeat(input, Head(hw_fifo)) /\ Head(hw_fifo)[1] <= Len(input)
    BY <1>2, ChainPop DEF FeedInv
  <2>2. Pos = Head(hw_fifo) /\ HwHead = Head(hw_fifo) /\ (\A idle : HwValid(idle)) /\ Done = HwHead[1] - 1
    BY <1>2 DEF Done, Pos, HwHead, HwValid
  <2>3. QED
    BY <1>2, <2>1, <2>2 DEF IsBeat
<1>3. CASE mac = "filter" /\ hw_fifo = << >>
  <2>1. Pos = << k, i >> /\ (\A idle : ~HwValid(idle)) /\ Done = k - 1
    BY <1>3 DEF Done, Pos, HwValid
  <2>2. QED
    BY <1>1, <1>3, <2>1
<1>4. CASE mac = "crossbar"
  <2>1. Pos = << k, i >> /\ HwHead = << k, i >> /\ \A idle : HwValid(idle) => k <= Len(input)
    BY <1>4 DEF Pos, HwHead, HwValid, CoreValid
  <2>2. Done = k - 1
    BY <1>4, <2>1 DEF Done
  <2>3. QED
    BY <1>1, <1>4, <2>1, <2>2
<1>5. QED
  BY <1>2, <1>3, <1>4 DEF FeedInv

\* The beats come one after the other, through the MAC's FIFO or without it.
LEMMA FeedStep ==
    ASSUME FeedInv, NEW idle, NEW echoReady, Broadcast(idle, echoReady), UNCHANGED configVars
    PROVE  FeedInv' /\ Pos' = IF HwTakes(idle, echoReady) THEN NextBeat(input, Pos) ELSE Pos
<1> DEFINE at == << k, i >>
           takes == CoreTakes(idle, echoReady)
           pops == HwTakes(idle, echoReady)
<1>1. /\ mac \in {"crossbar", "filter"} /\ core \in {"full", "small"} /\ input \in Scripts
      /\ IsBeat(input, at) /\ at \in Nat \X Nat /\ at[1] = k /\ at[2] = i
      /\ hw_fifo \in Seq(Nat \X Nat) /\ Chain(input, hw_fifo, at)
  BY DEF FeedInv, IsBeat
<1>2. mac' = mac /\ core' = core /\ input' = input
  BY DEF configVars
<1>3. takes => CoreValid(idle) /\ k <= Len(input)
  <2>1. CASE mac = "filter"
    BY <2>1 DEF CoreTakes, CoreValid
  <2>2. CASE mac = "crossbar"
    BY <2>2 DEF CoreTakes, HwTakes, HwValid, CoreValid
  <2>3. QED
    BY <1>1, <2>1, <2>2
<1>4. << k', i' >> = IF takes THEN NextBeat(input, at) ELSE at
  BY <1>1 DEF Broadcast, NextBeat
<1>5. held' \in BOOLEAN
  BY DEF Broadcast
<1>6. CASE mac = "crossbar"
  <2>1. hw_fifo' = << >> /\ hw_fifo = << >> /\ (takes <=> pops)
    BY <1>6 DEF Broadcast, FeedInv, CoreTakes
  <2>2. Pos' = << k', i' >> /\ Pos = at
    BY <1>2, <1>6 DEF Pos
  <2>3. IsBeat(input, << k', i' >>)
    BY <1>1, <1>3, <1>4, NextIsBeat
  <2>4. Chain(input, << >>, << k', i' >>)
    BY DEF Chain
  <2>5. FeedInv'
    <3>1. Len(<< >>) <= MacFifoDepth /\ << >> \in Seq(Nat \X Nat)
      BY RxAssumption DEF RxAssumption
    <3>2. QED
      BY <1>1, <1>2, <1>5, <2>1, <2>3, <2>4, <3>1 DEF FeedInv
  <2>6. QED
    BY <1>4, <2>1, <2>2, <2>5
<1>7. CASE mac = "filter"
  <2>1. /\ hw_fifo' = (IF pops THEN Tail(hw_fifo) ELSE hw_fifo)
                       \o (IF Len(hw_fifo) < MacFifoDepth THEN IF takes THEN << at >> ELSE << >> ELSE << >>)
        /\ pops => hw_fifo # << >>
        /\ takes => Len(hw_fifo) < MacFifoDepth
    BY <1>7 DEF Broadcast, Fifo, HwTakes, HwValid, CoreTakes, RxReady
  <2>2. PICK P \in BOOLEAN, T \in BOOLEAN : (P <=> pops) /\ (T <=> takes)
    <3>1. (IF pops THEN TRUE ELSE FALSE) \in BOOLEAN /\ (IF takes THEN TRUE ELSE FALSE) \in BOOLEAN
      OBVIOUS
    <3>2. QED
      BY <3>1
  <2> HIDE DEF pops, takes
  <2>3. PICK r, new : r = hw_fifo' /\ new = << k', i' >>
    OBVIOUS
  <2>4. /\ r = (IF P THEN Tail(hw_fifo) ELSE hw_fifo) \o (IF T THEN << at >> ELSE << >>)
        /\ new = IF T THEN NextBeat(input, at) ELSE at
        /\ P => hw_fifo # << >>
        /\ T => Len(hw_fifo) < MacFifoDepth /\ at[1] <= Len(input)
    <3>1. (IF T THEN << at >> ELSE << >>)
            = (IF Len(hw_fifo) < MacFifoDepth THEN IF takes THEN << at >> ELSE << >> ELSE << >>)
      BY <2>1, <2>2, Zenon
    <3>2. (IF P THEN Tail(hw_fifo) ELSE hw_fifo) = (IF pops THEN Tail(hw_fifo) ELSE hw_fifo)
      BY <2>2, Zenon
    <3>3. r = (IF P THEN Tail(hw_fifo) ELSE hw_fifo) \o (IF T THEN << at >> ELSE << >>)
      BY <2>1, <2>3, <3>1, <3>2, Zenon
    <3>4. new = IF T THEN NextBeat(input, at) ELSE at
      BY <1>4, <2>2, <2>3, Zenon
    <3>5. QED
      BY <1>1, <1>3, <2>1, <2>2, <3>3, <3>4, Zenon
  <2> HIDE DEF at
  <2>5. /\ Chain(input, r, new) /\ r \in Seq(Nat \X Nat) /\ IsBeat(input, new)
        /\ Len(r) <= IF T THEN Len(hw_fifo) + 1 ELSE Len(hw_fifo)
        /\ P => First(r, new) = NextBeat(input, Head(hw_fifo))
        /\ ~P => First(r, new) = First(hw_fifo, at)
    <3>1. FifoCycle(input, hw_fifo, at, P, T, r, new)
      BY <1>1, <2>4, Zenon DEF FifoCycle
    <3>2. QED
      BY <3>1, ChainMove
  <2>6. Len(r) <= MacFifoDepth
    <3>1. PICK a, b : a = Len(r) /\ b = Len(hw_fifo)
      OBVIOUS
    <3>2. a \in Nat /\ b \in Nat /\ MacFifoDepth \in Nat /\ b <= MacFifoDepth
      BY <1>1, <2>5, <3>1, RxAssumption DEF FeedInv, RxAssumption
    <3>3. (a <= IF T THEN b + 1 ELSE b) /\ (T => b < MacFifoDepth)
      BY <2>4, <2>5, <3>1
    <3>4. a <= MacFifoDepth
      BY <3>2, <3>3
    <3>5. QED
      BY <3>1, <3>4
  <2>7. FeedInv'
    <3>1. mac # "crossbar"
      BY <1>7
    <3>2. QED
      BY <1>1, <1>2, <1>5, <2>3, <2>5, <2>6, <3>1 DEF FeedInv
  <2>8. Pos = First(hw_fifo, at) /\ Pos' = First(r, new)
    BY <1>2, <1>7, <2>3 DEF Pos, First, at
  <2>9. P => Pos = Head(hw_fifo)
    BY <2>4, <2>8 DEF First
  <2>10. Pos' = IF pops THEN NextBeat(input, Pos) ELSE Pos
    BY <2>2, <2>5, <2>8, <2>9, Zenon
  <2>11. QED
    BY <2>7, <2>10 DEF pops
<1>8. QED
  BY <1>1, <1>6, <1>7

-----------------------------------------------------------------------------
(* What the CPU gets. *)

\* A FIFO and who reads it: reading changes nothing of the two together.
Read(got, q, pops) == IF pops THEN Append(got, Head(q)) ELSE got
Left(q, pops)      == IF pops THEN Tail(q) ELSE q

LEMMA FifoKeeps ==
    ASSUME NEW S, NEW got \in Seq(S), NEW q \in Seq(S), NEW x \in Seq(S), NEW pops, pops => q # << >>
    PROVE  /\ Read(got, q, pops) \o (Left(q, pops) \o x) = (got \o q) \o x
           /\ Read(got, q, pops) \in Seq(S) /\ Left(q, pops) \o x \in Seq(S)
           /\ Len(Left(q, pops) \o x) <= Len(q) + Len(x)
<1>1. /\ Len(q) \in Nat /\ Len(x) \in Nat /\ (got \o q) \o x = got \o (q \o x)
      /\ q \o x \in Seq(S) /\ Len(q \o x) = Len(q) + Len(x)
  BY LenProperties, ConcatAssociative, ConcatProperties
<1>2. CASE ~pops
  <2>1. Read(got, q, pops) = got /\ Left(q, pops) = q
    BY <1>2 DEF Read, Left
  <2>2. Len(q \o x) <= Len(q) + Len(x)
    BY <1>1
  <2>3. QED
    BY <1>1, <2>1, <2>2, Zenon
<1>3. CASE pops
  <2>1. /\ Len(q) \in Nat \ {0} /\ Head(q) \in S /\ Tail(q) \in Seq(S) /\ Len(Tail(q)) = Len(q) - 1
        /\ << Head(q) >> \in Seq(S)
    BY <1>3, TailFacts
  <2>2. q = << Head(q) >> \o Tail(q)
    BY <1>3
  <2>3. Append(got, Head(q)) = got \o << Head(q) >> /\ Append(got, Head(q)) \in Seq(S)
    BY <2>1, AppendIsConcat, AppendProperties
  <2>4. (got \o << Head(q) >>) \o (Tail(q) \o x) = (got \o q) \o x
    <3>1. (got \o << Head(q) >>) \o (Tail(q) \o x) = got \o (<< Head(q) >> \o (Tail(q) \o x))
      <4>1. Tail(q) \o x \in Seq(S)
        BY <2>1, ConcatProperties
      <4>2. QED
        BY <2>1, <4>1, ConcatAssociative
    <3>2. << Head(q) >> \o (Tail(q) \o x) = (<< Head(q) >> \o Tail(q)) \o x
      BY <2>1, ConcatAssociative
    <3>3. QED
      BY <1>1, <2>2, <3>1, <3>2, Zenon
  <2>5. Tail(q) \o x \in Seq(S) /\ Len(Tail(q) \o x) = Len(Tail(q)) + Len(x)
    BY <2>1, ConcatProperties
  <2>6. Len(Tail(q) \o x) <= Len(q) + Len(x)
    BY <1>1, <2>1, <2>5
  <2>7. Read(got, q, pops) = Append(got, Head(q)) /\ Left(q, pops) = Tail(q)
    BY <1>3 DEF Read, Left
  <2>8. QED
    BY <2>3, <2>4, <2>5, <2>6, <2>7, Zenon
<1>4. QED
  BY <1>2, <1>3

CpuPiece(frames, m) == IF frames[m].mine THEN << >> ELSE Bytes(m, Beats(frames[m]))
CpuWhole(frames, n) == FlattenSeq([m \in 1 .. n |-> CpuPiece(frames, m)])
CpuRest(frames, x)  == IF x[1] > Len(frames) \/ frames[x[1]].mine THEN << >> ELSE Bytes(x[1], x[2] - 1)

\* The beats for the CPU before beat x, and what beat x adds.
CpuUpTo(frames, x) == CpuWhole(frames, x[1] - 1) \o CpuRest(frames, x)

LEMMA CpuGrows ==
    ASSUME NEW frames \in Scripts, NEW x, IsBeat(frames, x)
    PROVE  /\ CpuUpTo(frames, x) \in Seq(Nat \X Nat)
           /\ x[1] <= Len(frames) => CpuUpTo(frames, NextBeat(frames, x))
                = CpuUpTo(frames, x) \o (IF frames[x[1]].mine THEN << >> ELSE << x >>)
<1>1. /\ Len(frames) \in Nat /\ x \in Nat \X Nat /\ x[1] \in 1 .. Len(frames) + 1 /\ x[2] \in Nat \ {0}
      /\ \A m \in 1 .. Len(frames) : Beats(frames[m]) \in Nat \ {0}
      /\ x = << x[1], x[2] >>
  BY InputFacts DEF IsBeat
<1>2. ASSUME NEW m \in 1 .. Len(frames) PROVE CpuPiece(frames, m) \in Seq(Nat \X Nat)
  <2>1. m \in Nat /\ Beats(frames[m]) \in Nat
    BY <1>1
  <2>2. QED
    BY <2>1, BytesFacts DEF CpuPiece
<1>3. x[1] - 1 \in Nat /\ x[1] - 1 + 1 = x[1] /\ x[2] - 1 \in Nat /\ x[2] - 1 + 1 = x[2]
      /\ \A m \in 1 .. x[1] - 1 : m \in 1 .. Len(frames)
  BY <1>1
<1>4. CpuWhole(frames, x[1] - 1) \in Seq(Nat \X Nat)
  <2>1. \A m \in 1 .. x[1] - 1 : CpuPiece(frames, m) \in Seq(Nat \X Nat)
    BY <1>2, <1>3
  <2>2. QED
    BY <1>3, <2>1, FlattenTyped DEF CpuWhole
<1>5. CpuRest(frames, x) \in Seq(Nat \X Nat)
  <2>1. x[1] \in Nat /\ x[2] - 1 \in Nat
    BY <1>1, <1>3
  <2>2. Bytes(x[1], x[2] - 1) \in Seq(Nat \X Nat) /\ << >> \in Seq(Nat \X Nat)
    BY <2>1, BytesFacts
  <2>3. QED
    BY <2>2, Zenon DEF CpuRest
<1>6. ASSUME x[1] <= Len(frames)
      PROVE  CpuUpTo(frames, NextBeat(frames, x))
                = CpuUpTo(frames, x) \o (IF frames[x[1]].mine THEN << >> ELSE << x >>)
  <2>1. x[1] \in 1 .. Len(frames)
    BY <1>1, <1>6
  <2>2. /\ Bytes(x[1], x[2] - 1) \in Seq(Nat \X Nat) /\ << x >> \in Seq(Nat \X Nat)
        /\ Bytes(x[1], x[2]) = Bytes(x[1], x[2] - 1) \o << x >>
    <3>1. x[1] \in Nat /\ x[2] - 1 \in Nat
      BY <1>1, <1>3
    <3>2. Bytes(x[1], x[2] - 1 + 1) = Bytes(x[1], x[2] - 1) \o << << x[1], x[2] - 1 + 1 >> >>
      BY <3>1, BytesFacts
    <3>3. Bytes(x[1], x[2] - 1) \in Seq(Nat \X Nat)
      BY <3>1, BytesFacts
    <3>4. << x >> \in Seq(Nat \X Nat)
      BY <1>1
    <3>5. QED
      BY <1>1, <1>3, <3>2, <3>3, <3>4, Zenon
  <2> DEFINE new == IF frames[x[1]].mine THEN << >> ELSE << x >>
  <2>3. new \in Seq(Nat \X Nat) /\ (CpuWhole(frames, x[1] - 1) \o CpuRest(frames, x)) \o new
          = CpuWhole(frames, x[1] - 1) \o (CpuRest(frames, x) \o new)
    <3>1. << >> \in Seq(Nat \X Nat)
      OBVIOUS
    <3>2. new \in Seq(Nat \X Nat)
      BY <2>2, <3>1, Zenon
    <3> HIDE DEF new
    <3>3. PICK S, a, b, c : /\ S = Nat \X Nat /\ a = CpuWhole(frames, x[1] - 1) /\ b = CpuRest(frames, x) /\ c = new
      OBVIOUS
    <3>4. a \in Seq(S) /\ b \in Seq(S) /\ c \in Seq(S)
      BY <1>4, <1>5, <3>2, <3>3
    <3>5. (a \o b) \o c = a \o (b \o c)
      BY <3>4, ConcatAssociative
    <3>6. QED
      BY <3>2, <3>3, <3>5
  <2>4. CpuRest(frames, x) \o new = IF frames[x[1]].mine THEN << >> ELSE Bytes(x[1], x[2])
    <3>1. ~(x[1] > Len(frames))
      BY <1>1, <1>6
    <3>2. CASE frames[x[1]].mine
      BY <3>2 DEF CpuRest
    <3>3. CASE ~frames[x[1]].mine
      BY <2>2, <3>1, <3>3 DEF CpuRest
    <3>4. QED
      BY <3>2, <3>3
  <2>5. CASE x[2] = Beats(frames[x[1]])
    <3>1. NextBeat(frames, x) = << x[1] + 1, 1 >>
      BY <2>5 DEF NextBeat
    <3>2. CpuWhole(frames, x[1]) = CpuWhole(frames, x[1] - 1) \o CpuPiece(frames, x[1])
      <4> DEFINE u == [m \in 1 .. Len(frames) |-> CpuPiece(frames, m)]
                 n == x[1] - 1
      <4>1. n \in Nat /\ n + 1 = x[1] /\ u[n + 1] \in Seq(Nat \X Nat) /\ u[n + 1] = CpuPiece(frames, x[1])
        BY <1>2, <1>3, <2>1
      <4>2. /\ [m \in 1 .. n |-> u[m]] = [m \in 1 .. n |-> CpuPiece(frames, m)]
            /\ [m \in 1 .. n + 1 |-> u[m]] = [m \in 1 .. x[1] |-> CpuPiece(frames, m)]
        BY <1>1, <1>3, <2>1
      <4>3. FlattenSeq([m \in 1 .. n + 1 |-> u[m]]) = FlattenSeq([m \in 1 .. n |-> u[m]]) \o u[n + 1]
        <5> HIDE DEF u, n
        <5>1. QED
          BY <4>1, FlattenNext
      <4>4. QED
        BY <4>1, <4>2, <4>3 DEF CpuWhole
    <3>3. CpuPiece(frames, x[1]) = CpuRest(frames, x) \o new
      BY <2>4, <2>5 DEF CpuPiece
    <3>4. CpuRest(frames, << x[1] + 1, 1 >>) = << >>
      <4>1. << x[1] + 1, 1 >>[1] = x[1] + 1 /\ << x[1] + 1, 1 >>[2] - 1 = 0 /\ x[1] + 1 \in Nat
        BY <1>1
      <4>2. Bytes(x[1] + 1, 0) = << >>
        BY <4>1, BytesFacts
      <4>3. QED
        BY <4>1, <4>2 DEF CpuRest
    <3>5. /\ CpuWhole(frames, x[1]) \o << >> = CpuWhole(frames, x[1])
          /\ << x[1] + 1, 1 >>[1] - 1 = x[1]
      <4>1. CpuWhole(frames, x[1]) \in Seq(Nat \X Nat)
        BY <1>2, <1>4, <2>1, <3>2, ConcatProperties
      <4>2. QED
        BY <1>1, <4>1, ConcatEmptySeq
    <3> HIDE DEF new
    <3>6. CpuUpTo(frames, NextBeat(frames, x)) = CpuWhole(frames, x[1] - 1) \o (CpuRest(frames, x) \o new)
      BY <3>1, <3>2, <3>3, <3>4, <3>5, Zenon DEF CpuUpTo
    <3>7. QED
      BY <2>3, <3>6, Zenon DEF CpuUpTo, new
  <2>6. CASE x[2] # Beats(frames[x[1]])
    <3>1. NextBeat(frames, x) = << x[1], x[2] + 1 >>
      BY <2>6 DEF NextBeat
    <3>2. << x[1], x[2] + 1 >>[1] = x[1] /\ << x[1], x[2] + 1 >>[2] - 1 = x[2] /\ ~(x[1] > Len(frames))
      BY <1>1, <1>6
    <3>3. CpuRest(frames, << x[1], x[2] + 1 >>) = CpuRest(frames, x) \o new
      BY <2>4, <3>2 DEF CpuRest
    <3> HIDE DEF new
    <3>4. CpuUpTo(frames, NextBeat(frames, x)) = CpuWhole(frames, x[1] - 1) \o (CpuRest(frames, x) \o new)
      BY <3>1, <3>2, <3>3, Zenon DEF CpuUpTo
    <3>5. QED
      BY <2>3, <3>4, Zenon DEF CpuUpTo, new
  <2>7. QED
    BY <2>5, <2>6
<1>7. CpuUpTo(frames, x) \in Seq(Nat \X Nat)
  BY <1>4, <1>5, ConcatProperties DEF CpuUpTo
<1>8. QED
  BY <1>6, <1>7

CpuInv ==
    /\ cpu_fifo \in Seq(Nat \X Nat) /\ Len(cpu_fifo) <= MacFifoDepth /\ cpuGot \in Seq(Nat \X Nat)
    /\ CpuCopies

LEMMA CpuCopiesIs ==
    ASSUME k \in Nat PROVE CpuCopies <=> (mac = "filter" => cpuGot \o cpu_fifo = CpuUpTo(input, << k, i >>))
<1>1. CpuOwed(k - 1) = CpuWhole(input, k - 1)
  BY DEF CpuOwed, CpuWhole, CpuPiece
<1>2. CpuPart = CpuRest(input, << k, i >>)
  BY DEF CpuPart, CpuRest
<1>3. << k, i >>[1] - 1 = k - 1
  OBVIOUS
<1>4. QED
  BY <1>1, <1>2, <1>3, Zenon DEF CpuCopies, CpuUpTo

LEMMA CpuStep ==
    ASSUME FeedInv, CpuInv, NEW idle, NEW echoReady, Broadcast(idle, echoReady), UNCHANGED configVars
    PROVE  CpuInv'
<1> DEFINE at == << k, i >>
           takes == CoreTakes(idle, echoReady)
           pops == cpu_fifo # << >> /\ idle # "cpu"
<1>1. /\ mac \in {"crossbar", "filter"} /\ input \in Scripts /\ IsBeat(input, at) /\ at \in Nat \X Nat
      /\ k \in Nat /\ at[1] = k
      /\ cpu_fifo \in Seq(Nat \X Nat) /\ Len(cpu_fifo) <= MacFifoDepth /\ cpuGot \in Seq(Nat \X Nat)
      /\ MacFifoDepth \in Nat
  BY RxAssumption DEF FeedInv, CpuInv, IsBeat, RxAssumption
<1>2. mac' = mac /\ input' = input
  BY DEF configVars
<1>3. CASE mac = "crossbar"
  <2>1. cpu_fifo' = cpu_fifo /\ cpuGot' = cpuGot /\ mac' # "filter"
    BY <1>2, <1>3 DEF Broadcast
  <2>2. QED
    BY <1>1, <2>1 DEF CpuInv, CpuCopies
<1>4. CASE mac = "filter"
  <2> DEFINE new == IF CpuValid(idle) THEN << at >> ELSE << >>
  <2>1. /\ cpu_fifo' = (IF pops THEN Tail(cpu_fifo) ELSE cpu_fifo)
                       \o (IF Len(cpu_fifo) < MacFifoDepth THEN new ELSE << >>)
        /\ cpuGot' = IF pops THEN Append(cpuGot, Head(cpu_fifo)) ELSE cpuGot
        /\ << k', i' >> = IF takes THEN NextBeat(input, at) ELSE at
    BY <1>1, <1>4 DEF Broadcast, Fifo, NextBeat
  <2>2. /\ CpuValid(idle) => Len(cpu_fifo) < MacFifoDepth
        /\ CpuValid(idle) <=> takes /\ ~input[k].mine
        /\ takes => k <= Len(input)
    BY <1>4 DEF CpuValid, RxReady, MacMatch, CoreTakes, CoreValid
  <2>3. << at >> \in Seq(Nat \X Nat) /\ << >> \in Seq(Nat \X Nat) /\ Len(<< at >>) = 1 /\ Len(<< >>) = 0
    BY <1>1
  <2>4. /\ (IF Len(cpu_fifo) < MacFifoDepth THEN new ELSE << >>) = new
        /\ new \in Seq(Nat \X Nat)
        /\ new # << >> => Len(cpu_fifo) < MacFifoDepth /\ Len(new) = 1
    BY <2>2, <2>3, Zenon
  <2>5. /\ cpuGot' \o cpu_fifo' = (cpuGot \o cpu_fifo) \o new
        /\ cpuGot' \in Seq(Nat \X Nat) /\ cpu_fifo' \in Seq(Nat \X Nat)
        /\ Len(cpu_fifo') <= Len(cpu_fifo) + Len(new)
    <3>1. PICK S, got, q, x, p : /\ S = Nat \X Nat /\ got = cpuGot /\ q = cpu_fifo /\ x = new /\ p = pops
      OBVIOUS
    <3>2. got \in Seq(S) /\ q \in Seq(S) /\ x \in Seq(S) /\ (p => q # << >>)
      BY <1>1, <2>4, <3>1
    <3>3. /\ Read(got, q, p) \o (Left(q, p) \o x) = (got \o q) \o x
          /\ Read(got, q, p) \in Seq(S) /\ Left(q, p) \o x \in Seq(S)
          /\ Len(Left(q, p) \o x) <= Len(q) + Len(x)
      BY <3>2, FifoKeeps
    <3> HIDE DEF pops, new
    <3>4. cpu_fifo' = Left(q, p) \o x /\ cpuGot' = Read(got, q, p)
      BY <2>1, <2>4, <3>1, Zenon DEF Read, Left
    <3>5. QED
      BY <3>1, <3>3, <3>4, Zenon
  <2> HIDE DEF new, pops
  <2>6. Len(cpu_fifo') <= MacFifoDepth
    <3>1. PICK a, b : a = Len(cpu_fifo') /\ b = Len(cpu_fifo)
      OBVIOUS
    <3>2. a \in Nat /\ b \in Nat /\ b <= MacFifoDepth /\ MacFifoDepth \in Nat
      <4>1. Len(cpu_fifo') \in Nat /\ Len(cpu_fifo) \in Nat
        BY <1>1, <2>5, LenProperties
      <4>2. QED
        BY <1>1, <3>1, <4>1
    <3>3. CASE new = << >>
      <4>1. a <= b + 0
        BY <2>3, <2>5, <3>1, <3>3
      <4>2. QED
        BY <3>1, <3>2, <4>1
    <3>4. CASE new # << >>
      <4>1. a <= b + 1 /\ b < MacFifoDepth
        BY <2>4, <2>5, <3>1, <3>4
      <4>2. QED
        BY <3>1, <3>2, <4>1
    <3>5. QED
      BY <3>3, <3>4
  <2>7. cpuGot \o cpu_fifo = CpuUpTo(input, at)
    BY <1>1, <1>4, CpuCopiesIs DEF CpuInv
  <2>8. CpuUpTo(input, << k', i' >>) = CpuUpTo(input, at) \o new
    <3>1. CASE takes
      <4>1. CpuUpTo(input, NextBeat(input, at)) = CpuUpTo(input, at) \o (IF input[k].mine THEN << >> ELSE << at >>)
        BY <1>1, <2>2, <3>1, CpuGrows
      <4>2. (IF input[k].mine THEN << >> ELSE << at >>) = new
        BY <2>2, <3>1 DEF new
      <4>3. QED
        BY <2>1, <3>1, <4>1, <4>2, Zenon
    <3>2. CASE ~takes
      <4>1. new = << >> /\ << k', i' >> = at /\ CpuUpTo(input, at) \in Seq(Nat \X Nat)
        BY <1>1, <2>1, <2>2, <3>2, CpuGrows DEF new
      <4>2. QED
        BY <4>1, ConcatEmptySeq
    <3>3. QED
      BY <3>1, <3>2
  <2>9. k' \in Nat
    <3>1. k' = k \/ k' = k + 1
      BY DEF Broadcast
    <3>2. QED
      BY <1>1, <3>1
  <2>10. CpuCopies'
    <3>1. cpuGot' \o cpu_fifo' = CpuUpTo(input', << k', i' >>)
      BY <1>2, <2>5, <2>7, <2>8, Zenon
    <3>2. CpuOwed(k - 1)' = CpuWhole(input', k' - 1)
      BY DEF CpuOwed, CpuWhole, CpuPiece
    <3>3. CpuPart' = CpuRest(input', << k', i' >>)
      BY DEF CpuPart, CpuRest
    <3>4. << k', i' >>[1] - 1 = k' - 1
      OBVIOUS
    <3>5. QED
      BY <3>1, <3>2, <3>3, <3>4, Zenon DEF CpuCopies, CpuUpTo
  <2>11. QED
    BY <2>5, <2>6, <2>10 DEF CpuInv
<1>5. QED
  BY <1>1, <1>3, <1>4

-----------------------------------------------------------------------------
(* The receivers. *)

\* The user of the IP crossbar that frame f is for.
IpUserOf(f) == IF core = "small" THEN "udp" ELSE f.proto

Bodied(f, b) == f.type = "ip" /\ f.ok /\ b > 3

\* The receivers' states at beat b of frame f.
ReceiverInv(f, b) ==
    /\ arpRx # "IDLE" => f.type = "arp" /\ b = 2
    /\ ipRx # "IDLE" => f.type = "ip" /\ b >= 2
    /\ f.type = "ip" /\ b >= 3 => ipRx # "IDLE"
    /\ ipRx = "RECEIVE" => f.ok
    /\ ipRx = "DROP" => ~f.ok
    /\ udpRx # "IDLE" \/ icmpRx # "IDLE" => ipRx = "RECEIVE" /\ b >= 3
    /\ udpRx # "IDLE" => IpUserOf(f) = "udp"
    /\ icmpRx # "IDLE" => IpUserOf(f) = "icmp"
    /\ Bodied(f, b) /\ IpUserOf(f) = "udp" => udpRx # "IDLE"
    /\ Bodied(f, b) /\ IpUserOf(f) = "icmp" => icmpRx # "IDLE"
    /\ udpRx = "RECEIVE" => f.proto = "udp" /\ count = b - 3 /\ (f.length = 0 \/ count < f.length)
    /\ udpRx = "DROP" => f.proto # "udp" \/ (f.length > 0 /\ b - 3 >= f.length)

AllIdle == arpRx = "IDLE" /\ ipRx = "IDLE" /\ udpRx = "IDLE" /\ icmpRx = "IDLE"

ReceiverTypes ==
    /\ ipRx \in {"IDLE", "RECEIVE", "DROP"} /\ udpRx \in {"IDLE", "RECEIVE", "DROP"} /\ icmpRx \in {"IDLE", "RECEIVE"}
    /\ arpRx \in {"IDLE", "CHECK", "TERMINATE"}
    /\ checksum \in 0 .. ChecksumCycles /\ count \in 0 .. Max16

StackInv ==
    /\ ReceiverTypes
    /\ IF Pos[1] <= Len(input) THEN ReceiverInv(input[Pos[1]], Pos[2]) ELSE AllIdle

LEMMA ReceiverTypesStep ==
    ASSUME ReceiverTypes, NEW idle, NEW echoReady, RxNext(idle, echoReady) PROVE ReceiverTypes'
<1> DEFINE takes == HwTakes(idle, echoReady)
<1>1. ipRx' \in {"IDLE", "RECEIVE", "DROP"}
  BY DEF RxNext, IpRxNext, UntilLast, ReceiverTypes
<1>2. udpRx' \in {"IDLE", "RECEIVE", "DROP"}
  BY DEF RxNext, UdpRxNext, UntilLast, ReceiverTypes
<1>3. icmpRx' \in {"IDLE", "RECEIVE"}
  BY DEF RxNext, IcmpRxNext, UntilLast, ReceiverTypes
<1>4. arpRx' \in {"IDLE", "CHECK", "TERMINATE"}
  BY DEF RxNext, ArpRxNext, UntilLast, ReceiverTypes
<1>5. checksum' \in 0 .. ChecksumCycles
  <2>1. ChecksumCycles \in Nat /\ checksum \in 0 .. ChecksumCycles
    BY RxAssumption DEF RxAssumption, ReceiverTypes
  <2>2. checksum' = 0 \/ checksum' = checksum \/ (checksum' = checksum + 1 /\ checksum # ChecksumCycles)
    BY DEF RxNext, ChecksumNext
  <2>3. QED
    BY <2>1, <2>2
<1>6. count' \in 0 .. Max16
  <2>1. count \in 0 .. Max16 /\ count \in Nat /\ Max16 \in Nat
    BY WidthNat DEF ReceiverTypes
  <2>2. count' = 0 \/ count' = count \/ count' = (count + 1) % 65536
    BY DEF RxNext, CountNext
  <2>3. count + 1 \in Nat /\ 0 \in 0 .. Max16
    BY <2>1
  <2>4. (count + 1) % 65536 \in 0 .. Max16
    BY <2>3, Modulo16
  <2>5. CASE count' = 0
    BY <2>3, <2>5
  <2>6. CASE count' = count
    BY <2>1, <2>6
  <2>7. CASE count' = (count + 1) % 65536
    BY <2>4, <2>7
  <2>8. QED
    BY <2>2, <2>5, <2>6, <2>7
<1>7. QED
  BY <1>1, <1>2, <1>3, <1>4, <1>5, <1>6 DEF ReceiverTypes

\* What the receivers see of a beat that is there.
LEMMA View ==
    ASSUME FeedInv, NEW idle, HwValid(idle)
    PROVE  /\ Pos[1] \in 1 .. Len(input) /\ F = input[Pos[1]] /\ Beat = Pos[2]
           /\ IsLast <=> Pos[2] = Beats(input[Pos[1]])
           /\ Pos[2] \in 1 .. Beats(input[Pos[1]])
           /\ HwByte = << Pos[1], Pos[2] - 2 >>
           /\ IpValid(idle) <=> input[Pos[1]].type = "ip" /\ Pos[2] >= 2
           /\ ToUdp(idle) <=> /\ input[Pos[1]].type = "ip" /\ Pos[2] >= 3 /\ ipRx = "RECEIVE"
                              /\ IpUserOf(input[Pos[1]]) = "udp"
           /\ ToIcmp(idle) <=> /\ input[Pos[1]].type = "ip" /\ Pos[2] >= 3 /\ ipRx = "RECEIVE"
                               /\ IpUserOf(input[Pos[1]]) = "icmp"
<1>1. HwHead = Pos /\ Pos[1] <= Len(input) /\ IsBeat(input, Pos) /\ input \in Scripts
  BY HeadFacts DEF FeedInv
<1>2. /\ Len(input) \in Nat /\ Pos[1] \in 1 .. Len(input) /\ Pos[2] \in Nat /\ Pos[2] >= 1
      /\ Beats(input[Pos[1]]) \in Nat /\ Pos[2] <= Beats(input[Pos[1]])
  BY <1>1, InputFacts DEF IsBeat
<1>3. F = input[Pos[1]] /\ Beat = Pos[2] /\ HwByte = << Pos[1], Pos[2] - 2 >>
  BY <1>1 DEF F, Beat, HwByte
<1>4. IsLast <=> Pos[2] = Beats(input[Pos[1]])
  BY <1>3 DEF IsLast
<1>5. IpValid(idle) <=> input[Pos[1]].type = "ip" /\ Pos[2] >= 2
  BY <1>3 DEF IpValid
<1>6. UserValid(idle) <=> input[Pos[1]].type = "ip" /\ Pos[2] >= 3 /\ ipRx = "RECEIVE"
  BY <1>2, <1>3, <1>5 DEF UserValid
<1>7. IpUser = IpUserOf(input[Pos[1]])
  BY <1>3 DEF IpUser, IpUserOf
<1>8. Pos[2] \in 1 .. Beats(input[Pos[1]])
  BY <1>2
<1>9. QED
  BY <1>2, <1>3, <1>4, <1>5, <1>6, <1>7, <1>8, Zenon DEF ToUdp, ToIcmp

\* Who must be ready for a beat to be taken.
LEMMA TakeFacts ==
    ASSUME FeedInv, NEW idle, NEW echoReady, HwTakes(idle, echoReady)
    PROVE  /\ HwValid(idle)
           /\ input[Pos[1]].type = "arp" => Pos[2] = 1 \/ arpRx = "TERMINATE"
           /\ input[Pos[1]].type = "ip" /\ Pos[2] >= 2 => ipRx = "DROP" \/ ipRx = "RECEIVE"
           /\ ToUdp(idle) => udpRx = "DROP" \/ udpRx = "RECEIVE"
           /\ ToUdp(idle) /\ udpRx = "RECEIVE" /\ UdpUser = "tty" => TtyReady
           /\ ToIcmp(idle) => icmpRx = "DROP" \/ (icmpRx = "RECEIVE" /\ echoReady)
<1>1. HwValid(idle) /\ HwReady(idle, echoReady)
  BY DEF HwTakes
<1>2. /\ F = input[Pos[1]] /\ Beat = Pos[2] /\ Pos[2] \in Nat
      /\ ToUdp(idle) => F.type = "ip" /\ Pos[2] >= 3 /\ ipRx = "RECEIVE" /\ IpUser = "udp"
      /\ ToIcmp(idle) => F.type = "ip" /\ Pos[2] >= 3 /\ ipRx = "RECEIVE" /\ IpUser = "icmp"
  <2>1. /\ F = input[Pos[1]] /\ Beat = Pos[2] /\ Pos[2] \in Nat
        /\ ToUdp(idle) \/ ToIcmp(idle) => F.type = "ip" /\ Pos[2] >= 3 /\ ipRx = "RECEIVE"
    BY <1>1, View
  <2>2. (ToUdp(idle) => IpUser = "udp") /\ (ToIcmp(idle) => IpUser = "icmp")
    BY DEF ToUdp, ToIcmp
  <2>3. QED
    BY <2>1, <2>2, Zenon
<1>3. F.type = "arp" => Beat = 1 \/ arpRx = "TERMINATE"
  <2>1. CASE F.type = "arp"
    <3>1. HwReady(idle, echoReady) <=> (Beat = 1 \/ arpRx = "TERMINATE")
      BY <2>1 DEF HwReady
    <3>2. QED
      BY <1>1, <3>1
  <2>2. QED
    BY <2>1
<1>4. F.type = "ip" => Beat = 1 \/ StateReady(ipRx, IpUserReady(idle, echoReady))
  BY <1>1 DEF HwReady
<1>5. \A state, receives : StateReady(state, receives) => state = "DROP" \/ (state = "RECEIVE" /\ receives)
  BY DEF StateReady
<1>6. ToUdp(idle) \/ ToIcmp(idle) => IpUserReady(idle, echoReady) /\ Beat # 2
  <2>1. SUFFICES ASSUME ToUdp(idle) \/ ToIcmp(idle) PROVE IpUserReady(idle, echoReady) /\ Beat # 2
    OBVIOUS
  <2>2. F.type = "ip" /\ Beat # 1 /\ Beat # 2 /\ ipRx = "RECEIVE"
    BY <1>2, <2>1
  <2>3. QED
    BY <1>4, <1>5, <2>2
<1>7. ToUdp(idle) => StateReady(udpRx, UdpUserReady(idle))
  <2>1. SUFFICES ASSUME ToUdp(idle) PROVE StateReady(udpRx, UdpUserReady(idle))
    OBVIOUS
  <2>2. IpUserReady(idle, echoReady) <=> (Beat = 2 \/ StateReady(udpRx, UdpUserReady(idle)))
    BY <1>2, <2>1 DEF IpUserReady
  <2>3. QED
    BY <1>6, <2>1, <2>2
<1>8. ToIcmp(idle) => StateReady(icmpRx, echoReady)
  <2>1. SUFFICES ASSUME ToIcmp(idle) PROVE StateReady(icmpRx, echoReady)
    OBVIOUS
  <2>2. IpUserReady(idle, echoReady) <=> (Beat = 2 \/ StateReady(icmpRx, echoReady))
    BY <1>2, <2>1 DEF IpUserReady
  <2>3. QED
    BY <1>6, <2>1, <2>2
<1>9. UdpUserReady(idle) /\ UdpUser = "tty" => TtyReady
  <2>1. UdpUser = "tty" => (UdpUserReady(idle) <=> TtyReady)
    BY DEF UdpUserReady
  <2>2. QED
    BY <2>1
<1>10. Pos[2] >= 2 => Pos[2] # 1
  BY <1>2
<1>11. input[Pos[1]].type = "arp" => Pos[2] = 1 \/ arpRx = "TERMINATE"
  BY <1>2, <1>3
<1>12. input[Pos[1]].type = "ip" /\ Pos[2] >= 2 => ipRx = "DROP" \/ ipRx = "RECEIVE"
  BY <1>2, <1>4, <1>5, <1>10
<1>13. ToUdp(idle) => udpRx = "DROP" \/ (udpRx = "RECEIVE" /\ UdpUserReady(idle))
  BY <1>5, <1>7
<1>14. ToIcmp(idle) => icmpRx = "DROP" \/ (icmpRx = "RECEIVE" /\ echoReady)
  BY <1>5, <1>8
<1>15. ToUdp(idle) /\ udpRx = "RECEIVE" /\ UdpUser = "tty" => TtyReady
  BY <1>9, <1>13
<1>16. QED
  BY <1>1, <1>11, <1>12, <1>13, <1>14, <1>15

\* A cycle in which the receivers' beat is not there.
LEMMA StackWaits ==
    ASSUME FeedInv, StackInv, NEW idle, NEW echoReady, RxNext(idle, echoReady), ~HwValid(idle)
    PROVE  /\ Pos' = Pos /\ input' = input /\ core' = core
           /\ ipRx' = ipRx /\ udpRx' = udpRx /\ icmpRx' = icmpRx
           /\ count' = IF udpRx = "IDLE" THEN 0 ELSE count
           /\ arpRx' = IF arpRx = "CHECK" THEN "TERMINATE" ELSE arpRx
<1>1. ~HwTakes(idle, echoReady) /\ ~IpValid(idle) /\ ~ToUdp(idle) /\ ~ToIcmp(idle)
  BY DEF HwTakes, IpValid, ToUdp, ToIcmp, UserValid
<1>2. Pos' = Pos /\ input' = input /\ core' = core
  BY <1>1, FeedStep DEF RxNext, configVars
<1>3. ipRx' = ipRx
  BY <1>1 DEF RxNext, IpRxNext, UntilLast
<1>4. udpRx' = udpRx
  BY <1>1 DEF RxNext, UdpRxNext, UntilLast, StackInv, ReceiverTypes
<1>5. icmpRx' = icmpRx
  BY <1>1 DEF RxNext, IcmpRxNext, UntilLast, StackInv, ReceiverTypes
<1>6. count' = IF udpRx = "IDLE" THEN 0 ELSE count
  BY <1>1 DEF RxNext, CountNext
<1>7. arpRx' = IF arpRx = "CHECK" THEN "TERMINATE" ELSE arpRx
  BY <1>1 DEF RxNext, ArpRxNext, UntilLast, StackInv, ReceiverTypes
<1>8. QED
  BY <1>2, <1>3, <1>4, <1>5, <1>6, <1>7

\* A cycle in which it is: every receiver's next state, with and without the beat taken.
LEMMA StackMoves ==
    ASSUME FeedInv, StackInv, NEW idle, NEW echoReady, RxNext(idle, echoReady), HwValid(idle),
           NEW f, f = input[Pos[1]], NEW b, b = Pos[2], NEW ends,
           ends <=> HwTakes(idle, echoReady) /\ b = Beats(f)
    PROVE  /\ arpRx = "IDLE" => arpRx' = "IDLE" \/ (arpRx' = "CHECK" /\ f.type = "arp" /\ b = 2)
           /\ arpRx = "CHECK" => arpRx' = "TERMINATE"
           /\ arpRx = "TERMINATE" => arpRx' = IF ends THEN "IDLE" ELSE "TERMINATE"
           /\ ipRx # "IDLE" => ipRx' = IF ends THEN "IDLE" ELSE ipRx
           /\ ipRx = "IDLE" /\ ipRx' # "IDLE" =>
                f.type = "ip" /\ b >= 2 /\ (ipRx' = "RECEIVE" => f.ok) /\ (ipRx' = "DROP" => ~f.ok)
           /\ icmpRx # "IDLE" => icmpRx' = IF ends THEN "IDLE" ELSE icmpRx
           /\ icmpRx = "IDLE" => icmpRx' = IF ToIcmp(idle) THEN "RECEIVE" ELSE "IDLE"
           /\ udpRx = "IDLE" => /\ count' = 0
                                /\ udpRx' = IF ~ToUdp(idle) THEN "IDLE"
                                            ELSE IF f.proto = "udp" THEN "RECEIVE" ELSE "DROP"
           /\ udpRx = "RECEIVE" => udpRx' = IF ends THEN "IDLE"
                                           ELSE IF HwTakes(idle, echoReady) /\ Cut THEN "DROP" ELSE "RECEIVE"
           /\ udpRx = "RECEIVE" => count' = IF HwTakes(idle, echoReady) THEN (count + 1) % 65536 ELSE count
           /\ udpRx = "DROP" => udpRx' = IF ends THEN "IDLE" ELSE "DROP"
           /\ Cut <=> count = (f.length - 1) % 65536
<1> DEFINE takes == HwTakes(idle, echoReady)
<1>1. /\ F = f /\ Beat = b /\ (IsLast <=> b = Beats(f))
      /\ IpValid(idle) <=> f.type = "ip" /\ b >= 2
  BY View
<1>2. ends <=> takes /\ IsLast
  BY <1>1
<1>3. \A state : UntilLast(state, takes) = IF ends THEN "IDLE" ELSE state
  BY <1>2 DEF UntilLast
<1>4. /\ arpRx' = ArpRxNext(idle, takes) /\ ipRx' = IpRxNext(idle, takes) /\ icmpRx' = IcmpRxNext(idle, takes)
      /\ udpRx' = UdpRxNext(idle, takes) /\ count' = CountNext(takes)
  BY DEF RxNext
<1> HIDE DEF takes
<1>5. /\ arpRx = "IDLE" => arpRx' = "IDLE" \/ (arpRx' = "CHECK" /\ f.type = "arp" /\ b = 2)
      /\ arpRx = "CHECK" => arpRx' = "TERMINATE"
      /\ arpRx = "TERMINATE" => arpRx' = IF ends THEN "IDLE" ELSE "TERMINATE"
  BY <1>1, <1>3, <1>4 DEF ArpRxNext
<1>6. ipRx # "IDLE" => ipRx' = IF ends THEN "IDLE" ELSE ipRx
  BY <1>3, <1>4 DEF IpRxNext
<1>7. ipRx = "IDLE" /\ ipRx' # "IDLE" =>
        f.type = "ip" /\ b >= 2 /\ (ipRx' = "RECEIVE" => f.ok) /\ (ipRx' = "DROP" => ~f.ok)
  <2>1. SUFFICES ASSUME ipRx = "IDLE", ipRx' # "IDLE"
        PROVE  f.type = "ip" /\ b >= 2 /\ (ipRx' = "RECEIVE" => f.ok) /\ (ipRx' = "DROP" => ~f.ok)
    OBVIOUS
  <2>2. IpValid(idle) /\ ipRx' = IF F.ok THEN "RECEIVE" ELSE "DROP"
    BY <1>4, <2>1 DEF IpRxNext
  <2>3. (ipRx' = "RECEIVE" => f.ok) /\ (ipRx' = "DROP" => ~f.ok)
    BY <1>1, <2>2
  <2>4. QED
    BY <1>1, <2>2, <2>3
<1>8. /\ icmpRx # "IDLE" => icmpRx' = IF ends THEN "IDLE" ELSE icmpRx
      /\ icmpRx = "IDLE" => icmpRx' = IF ToIcmp(idle) THEN "RECEIVE" ELSE "IDLE"
  BY <1>3, <1>4 DEF IcmpRxNext
<1>9. /\ udpRx = "IDLE" => udpRx' = IF ~ToUdp(idle) THEN "IDLE" ELSE IF f.proto = "udp" THEN "RECEIVE" ELSE "DROP"
      /\ udpRx = "RECEIVE" => udpRx' = IF ends THEN "IDLE" ELSE IF takes /\ Cut THEN "DROP" ELSE "RECEIVE"
      /\ udpRx = "DROP" => udpRx' = IF ends THEN "IDLE" ELSE "DROP"
  BY <1>1, <1>2, <1>3, <1>4 DEF UdpRxNext
<1>10. /\ udpRx = "IDLE" => count' = 0
       /\ udpRx = "RECEIVE" => count' = IF takes THEN (count + 1) % 65536 ELSE count
  BY <1>4 DEF CountNext
<1>11. Cut <=> count = (f.length - 1) % 65536
  BY <1>1 DEF Cut
<1>12. QED
  BY <1>5, <1>6, <1>7, <1>8, <1>9, <1>10, <1>11 DEF takes

LEMMA StackStep ==
    ASSUME FeedInv, StackInv, NEW idle, NEW echoReady, RxNext(idle, echoReady)
    PROVE  StackInv'
<1> DEFINE takes == HwTakes(idle, echoReady)
<1>1. ReceiverTypes /\ ReceiverTypes'
  BY ReceiverTypesStep DEF StackInv
<1>2. /\ input' = input /\ core' = core /\ input \in Scripts /\ IsBeat(input, Pos)
      /\ Pos' = IF takes THEN NextBeat(input, Pos) ELSE Pos
      /\ Len(input) \in Nat
  BY FeedStep, HeadFacts, InputFacts DEF RxNext, configVars, FeedInv
<1>3. PICK f, b, p : f = input[Pos[1]] /\ b = Pos[2] /\ p = Pos[1]
  OBVIOUS
<1>4. CASE ~HwValid(idle)
  <2>1. Pos' = Pos
    BY <1>4, StackWaits
  <2>2. CASE p <= Len(input)
    <3>1. ReceiverInv(f, b)
      BY <1>3, <2>2 DEF StackInv
    <3>2. ReceiverInv(f, b)'
      BY <1>2, <1>4, <3>1, StackWaits DEF ReceiverInv, Bodied, IpUserOf
    <3>3. QED
      BY <1>1, <1>2, <1>3, <2>1, <2>2, <3>2 DEF StackInv
  <2>3. CASE ~(p <= Len(input))
    <3>1. AllIdle
      BY <1>3, <2>3 DEF StackInv
    <3>2. AllIdle'
      BY <1>4, <3>1, StackWaits DEF AllIdle
    <3>3. QED
      BY <1>1, <1>2, <1>3, <2>1, <2>3, <3>2 DEF StackInv
  <2>4. QED
    BY <2>2, <2>3
<1>5. CASE HwValid(idle)
  <2>1. /\ p \in 1 .. Len(input) /\ b \in 1 .. Beats(f) /\ ReceiverInv(f, b)
        /\ ToUdp(idle) <=> f.type = "ip" /\ b >= 3 /\ ipRx = "RECEIVE" /\ IpUserOf(f) = "udp"
        /\ ToIcmp(idle) <=> f.type = "ip" /\ b >= 3 /\ ipRx = "RECEIVE" /\ IpUserOf(f) = "icmp"
    BY <1>3, <1>5, View DEF StackInv
  <2>2. /\ Beats(f) \in Nat /\ b \in Nat
        /\ f.type = "ip" => Beats(f) = 2 + f.size /\ f.size \in Nat /\ f.size <= Max16 /\ f.length \in Nat
                            /\ f.length <= Max16
        /\ f.type = "arp" => Beats(f) = 2
    <3>1. /\ Beats(f) \in Nat \ {0}
          /\ f.type = "ip" => f.size \in 1 .. Max16 /\ f.length \in 0 .. Max16 - 8 /\ Beats(f) = 2 + f.size
          /\ f.type = "arp" => Beats(f) = 2
      BY <1>2, <1>3, <2>1, InputFacts
    <3>2. QED
      BY <2>1, <3>1, WidthNat
  <2>3. PICK ends \in BOOLEAN : ends <=> takes /\ b = Beats(f)
    <3>1. (IF takes /\ b = Beats(f) THEN TRUE ELSE FALSE) \in BOOLEAN
      OBVIOUS
    <3>2. QED
      BY <3>1
  <2>4. PICK ok \in BOOLEAN : ok <=> f.ok
    <3>1. (IF f.ok THEN TRUE ELSE FALSE) \in BOOLEAN
      OBVIOUS
    <3>2. QED
      BY <3>1
  <2>5. PICK u : u = IpUserOf(f)
    OBVIOUS
  <2>6. /\ arpRx # "IDLE" => f.type = "arp" /\ b = 2
        /\ ipRx # "IDLE" => f.type = "ip" /\ b >= 2
        /\ f.type = "ip" /\ b >= 3 => ipRx # "IDLE"
        /\ ipRx = "RECEIVE" => ok
        /\ ipRx = "DROP" => ~ok
        /\ udpRx # "IDLE" \/ icmpRx # "IDLE" => ipRx = "RECEIVE" /\ b >= 3
        /\ udpRx # "IDLE" => u = "udp"
        /\ icmpRx # "IDLE" => u = "icmp"
        /\ f.type = "ip" /\ ok /\ b > 3 /\ u = "udp" => udpRx # "IDLE"
        /\ f.type = "ip" /\ ok /\ b > 3 /\ u = "icmp" => icmpRx # "IDLE"
        /\ udpRx = "RECEIVE" => f.proto = "udp" /\ count = b - 3 /\ (f.length = 0 \/ count < f.length)
        /\ udpRx = "DROP" => f.proto # "udp" \/ (f.length > 0 /\ b - 3 >= f.length)
    BY <2>1, <2>4, <2>5, Zenon DEF ReceiverInv, Bodied
  <2>7. /\ arpRx = "IDLE" => arpRx' = "IDLE" \/ (arpRx' = "CHECK" /\ f.type = "arp" /\ b = 2)
        /\ arpRx = "CHECK" => arpRx' = "TERMINATE"
        /\ arpRx = "TERMINATE" => arpRx' = IF ends THEN "IDLE" ELSE "TERMINATE"
        /\ ipRx # "IDLE" => ipRx' = IF ends THEN "IDLE" ELSE ipRx
        /\ ipRx = "IDLE" /\ ipRx' # "IDLE" =>
                f.type = "ip" /\ b >= 2 /\ (ipRx' = "RECEIVE" => ok) /\ (ipRx' = "DROP" => ~ok)
        /\ icmpRx # "IDLE" => icmpRx' = IF ends THEN "IDLE" ELSE icmpRx
        /\ icmpRx = "IDLE" => icmpRx' = IF ToIcmp(idle) THEN "RECEIVE" ELSE "IDLE"
        /\ udpRx = "IDLE" => /\ count' = 0
                             /\ udpRx' = IF ~ToUdp(idle) THEN "IDLE" ELSE IF f.proto = "udp" THEN "RECEIVE" ELSE "DROP"
        /\ udpRx = "RECEIVE" => udpRx' = IF ends THEN "IDLE" ELSE IF takes /\ Cut THEN "DROP" ELSE "RECEIVE"
        /\ udpRx = "RECEIVE" => count' = IF takes THEN (count + 1) % 65536 ELSE count
        /\ udpRx = "DROP" => udpRx' = IF ends THEN "IDLE" ELSE "DROP"
        /\ Cut <=> count = (f.length - 1) % 65536
    <3> HIDE DEF takes
    <3>1. ends <=> HwTakes(idle, echoReady) /\ b = Beats(f)
      BY <2>3 DEF takes
    <3>2. QED
      BY <1>3, <1>5, <2>4, <3>1, StackMoves DEF takes
  <2>8. takes => /\ f.type = "arp" => b = 1 \/ arpRx = "TERMINATE"
                 /\ f.type = "ip" /\ b >= 2 => ipRx = "DROP" \/ ipRx = "RECEIVE"
                 /\ ToUdp(idle) => udpRx = "DROP" \/ udpRx = "RECEIVE"
                 /\ ToIcmp(idle) => icmpRx = "DROP" \/ icmpRx = "RECEIVE"
    BY <1>3, TakeFacts
  <2>9. (IpUserOf(f))' = u
    BY <1>2, <2>5 DEF IpUserOf
  <2>10. CASE ends
    <3>1. Pos' = << p + 1, 1 >>
      BY <1>2, <1>3, <2>3, <2>10 DEF NextBeat
    <3>2. f.type = "ip" => b >= 3
      BY <2>2, <2>3, <2>10, <1>2, <1>3, <2>1, InputFacts
    <3> HIDE DEF takes
    <3>3. takes /\ b = Beats(f)
      BY <2>3, <2>10
    <3>4. arpRx' = "IDLE" /\ ipRx' = "IDLE"
      BY <1>1, <2>2, <2>6, <2>7, <2>8, <2>10, <3>2, <3>3 DEF ReceiverTypes
    <3>5. udpRx' = "IDLE" /\ icmpRx' = "IDLE"
      BY <1>1, <2>1, <2>6, <2>7, <2>8, <2>10, <3>3 DEF ReceiverTypes
    <3>6. AllIdle'
      BY <3>4, <3>5 DEF AllIdle
    <3>7. ReceiverInv(input[Pos[1]], Pos[2])'
      <4>1. Pos[2]' = 1 /\ ~(1 >= 3) /\ ~(1 > 3)
        BY <3>1
      <4>2. QED
        BY <3>4, <3>5, <4>1 DEF ReceiverInv, Bodied
    <3>8. QED
      BY <1>1, <3>6, <3>7 DEF StackInv
  <2>11. CASE ~ends
    <3>1. PICK c : c = IF takes THEN b + 1 ELSE b
      OBVIOUS
    <3>2. Pos'[1] = p /\ Pos'[2] = c
      BY <1>2, <1>3, <2>3, <2>11, <3>1 DEF NextBeat
    <3> HIDE DEF takes
    <3>3. takes => b < Beats(f)
      BY <2>1, <2>2, <2>3, <2>11
    <3>4. /\ arpRx' # "IDLE" => f.type = "arp" /\ c = 2
          /\ ipRx' # "IDLE" => f.type = "ip" /\ c >= 2
          /\ f.type = "ip" /\ c >= 3 => ipRx' # "IDLE"
          /\ ipRx' = "RECEIVE" => ok
          /\ ipRx' = "DROP" => ~ok
      BY <1>1, <2>2, <2>6, <2>7, <2>8, <2>11, <3>1, <3>3 DEF ReceiverTypes
    <3>5. /\ udpRx' # "IDLE" \/ icmpRx' # "IDLE" => ipRx' = "RECEIVE" /\ c >= 3
          /\ udpRx' # "IDLE" => u = "udp"
          /\ icmpRx' # "IDLE" => u = "icmp"
      BY <1>1, <2>1, <2>2, <2>5, <2>6, <2>7, <2>11, <3>1 DEF ReceiverTypes
    <3>6. /\ f.type = "ip" /\ ok /\ c > 3 /\ u = "udp" => udpRx' # "IDLE"
          /\ f.type = "ip" /\ ok /\ c > 3 /\ u = "icmp" => icmpRx' # "IDLE"
      BY <1>1, <2>1, <2>2, <2>5, <2>6, <2>7, <2>8, <2>11, <3>1 DEF ReceiverTypes
    <3>a. ASSUME udpRx = "IDLE"
         PROVE  /\ udpRx' = "RECEIVE" => f.proto = "udp" /\ count' = c - 3 /\ (f.length = 0 \/ count' < f.length)
                /\ udpRx' = "DROP" => f.proto # "udp" \/ (f.length > 0 /\ c - 3 >= f.length)
      <4>1. ToUdp(idle) => b = 3 /\ c = b
        BY <2>1, <2>2, <2>5, <2>6, <2>8, <3>1, <3>a
      <4>2. f.type = "ip" => f.length = 0 \/ 0 < f.length
        BY <2>2
      <4>3. udpRx' # "IDLE" => ToUdp(idle) /\ count' = 0
        BY <2>7, <3>a
      <4>4. udpRx' = "RECEIVE" => f.proto = "udp" /\ count' = c - 3 /\ (f.length = 0 \/ count' < f.length)
        BY <2>1, <2>7, <3>a, <4>1, <4>2, <4>3
      <4>5. udpRx' = "DROP" => f.proto # "udp"
        BY <2>7, <3>a
      <4>6. QED
        BY <4>4, <4>5
    <3>b. ASSUME udpRx = "RECEIVE"
         PROVE  /\ udpRx' = "RECEIVE" => f.proto = "udp" /\ count' = c - 3 /\ (f.length = 0 \/ count' < f.length)
                /\ udpRx' = "DROP" => f.proto # "udp" \/ (f.length > 0 /\ c - 3 >= f.length)
      <4>1. /\ f.type = "ip" /\ f.proto = "udp" /\ count = b - 3 /\ (f.length = 0 \/ count < f.length)
            /\ count \in Nat /\ f.length \in Nat /\ f.size \in Nat /\ f.size <= Max16 /\ f.length <= Max16
            /\ Beats(f) = 2 + f.size /\ b >= 3
        BY <1>1, <2>2, <2>6, <3>b, WidthNat DEF ReceiverTypes
      <4>2. CASE ~takes
        BY <2>7, <2>11, <3>1, <3>b, <4>1, <4>2
      <4>3. CASE takes
        <5>1. count + 1 = c - 3 /\ count + 1 < f.size /\ count + 1 \in Nat
          BY <2>1, <3>1, <3>3, <4>1, <4>3
        <5>2. count + 1 <= Max16
          BY <4>1, <5>1, WidthNat
        <5>3. count' = count + 1
          BY <2>7, <3>b, <4>3, <5>1, <5>2, Modulo16
        <5>4. f.length # 0 => (f.length - 1) % 65536 = f.length - 1
          <6>1. f.length # 0 => f.length - 1 \in Nat /\ f.length - 1 <= Max16
            BY <4>1, WidthNat
          <6>2. QED
            BY <6>1, Modulo16
        <5>5. f.length = 0 => ~Cut
          <6>1. SUFFICES ASSUME f.length = 0 PROVE ~Cut
            OBVIOUS
          <6>2. count < Max16
            BY <4>1, <5>2, WidthNat
          <6>3. count # (f.length - 1) % 65536
            BY <4>1, <6>1, <6>2, Wraps
          <6>4. QED
            BY <2>7, <6>3
        <5>6. udpRx' = "RECEIVE" => ~Cut
          BY <2>7, <2>11, <3>b, <4>3
        <5>7. udpRx' = "RECEIVE" => f.length = 0 \/ count' < f.length
          <6>1. SUFFICES ASSUME udpRx' = "RECEIVE", f.length # 0 PROVE count' < f.length
            OBVIOUS
          <6>2. count # f.length - 1 /\ count < f.length
            BY <2>7, <4>1, <5>4, <5>6, <6>1
          <6>3. QED
            BY <4>1, <5>3, <6>2
        <5>8. udpRx' = "DROP" => f.length > 0 /\ c - 3 >= f.length
          <6>1. SUFFICES ASSUME udpRx' = "DROP" PROVE f.length > 0 /\ c - 3 >= f.length
            OBVIOUS
          <6>2. Cut
            BY <2>7, <2>11, <3>b, <4>3, <6>1
          <6>3. f.length # 0 /\ count = f.length - 1
            BY <2>7, <5>4, <5>5, <6>2
          <6>4. QED
            BY <4>1, <5>1, <6>3
        <5>9. QED
          BY <4>1, <5>1, <5>3, <5>7, <5>8
      <4>4. QED
        BY <4>2, <4>3
    <3>c. ASSUME udpRx = "DROP"
         PROVE  /\ udpRx' = "RECEIVE" => f.proto = "udp" /\ count' = c - 3 /\ (f.length = 0 \/ count' < f.length)
                /\ udpRx' = "DROP" => f.proto # "udp" \/ (f.length > 0 /\ c - 3 >= f.length)
      <4>1. udpRx' = "DROP" /\ f.type = "ip" /\ f.length \in Nat
        BY <2>2, <2>6, <2>7, <2>11, <3>c
      <4>2. f.proto # "udp" \/ (f.length > 0 /\ b - 3 >= f.length)
        BY <2>6, <3>c
      <4>3. f.proto # "udp" \/ (f.length > 0 /\ c - 3 >= f.length)
        BY <2>2, <3>1, <4>1, <4>2
      <4>4. QED
        BY <4>1, <4>3
    <3>7. udpRx' = "RECEIVE" => f.proto = "udp" /\ count' = c - 3 /\ (f.length = 0 \/ count' < f.length)
      BY <1>1, <3>a, <3>b, <3>c DEF ReceiverTypes
    <3>8. udpRx' = "DROP" => f.proto # "udp" \/ (f.length > 0 /\ c - 3 >= f.length)
      BY <1>1, <3>a, <3>b, <3>c DEF ReceiverTypes
    <3>9. ReceiverInv(f, c)'
      BY <2>4, <2>9, <3>4, <3>5, <3>6, <3>7, <3>8, Zenon DEF ReceiverInv, Bodied
    <3>10. QED
      BY <1>1, <1>2, <1>3, <2>1, <3>2, <3>9 DEF StackInv
  <2>12. QED
    BY <2>10, <2>11
<1>6. QED
  BY <1>4, <1>5

-----------------------------------------------------------------------------
(* What the users get. *)

LEMMA OwedFacts ==
    ASSUME NEW u, NEW N \in Nat, NEW S, \A m \in 1 .. N : u[m] \in Seq(S)
    PROVE  /\ \A n \in 0 .. N : Owed(u, n) \in Seq(S)
           /\ \A n \in 1 .. N : Owed(u, n) = Owed(u, n - 1) \o u[n]
           /\ \A n \in 0 .. N : \E rest \in Seq(S) : Owed(u, N) = Owed(u, n) \o rest
<1>1. ASSUME NEW n \in 0 .. N PROVE Owed(u, n) \in Seq(S)
  <2>1. n \in Nat /\ \A m \in 1 .. n : u[m] \in Seq(S)
    OBVIOUS
  <2>2. FlattenSeq([m \in 1 .. n |-> u[m]]) \in Seq(S)
    BY <2>1, FlattenTyped
  <2>3. QED
    BY <2>2, Zenon DEF Owed
<1>2. ASSUME NEW n \in 1 .. N PROVE Owed(u, n) = Owed(u, n - 1) \o u[n]
  <2>1. PICK l \in Nat : l = n - 1
    OBVIOUS
  <2>2. n = l + 1 /\ u[l + 1] \in Seq(S)
    BY <2>1
  <2>3. FlattenSeq([m \in 1 .. l + 1 |-> u[m]]) = FlattenSeq([m \in 1 .. l |-> u[m]]) \o u[l + 1]
    BY <2>2, FlattenNext
  <2>4. QED
    BY <2>1, <2>2, <2>3, Zenon DEF Owed
<1>3. ASSUME NEW n \in 0 .. N PROVE \E rest \in Seq(S) : Owed(u, N) = Owed(u, n) \o rest
  <2>1. n \in Nat /\ n <= N
    OBVIOUS
  <2>2. QED
    BY <2>1, FlattenSplit
<1>4. QED
  BY <1>1, <1>2, <1>3

\* Concerns, with core as a parameter.
IsFor(c, f, port) == /\ f.type = "ip" /\ f.ok /\ f.proto = "udp" /\ f.port = port
                     /\ port = "tty" => f.src = Partner
                     /\ port = "app" => c = "full"

\* Bytes of the frame's payload that are before beat b; beat b is one of them.
Before(f, b) == IF b - 3 <= 0 THEN 0 ELSE IF b - 3 <= PayloadLength(f) THEN b - 3 ELSE PayloadLength(f)
Carries(f, b) == b >= 3 /\ b - 2 <= PayloadLength(f)

LEMMA BeforeFacts ==
    ASSUME NEW f, f.size \in Nat \ {0}, f.length \in Nat, Beats(f) = 2 + f.size, NEW b \in 1 .. Beats(f)
    PROVE  /\ PayloadLength(f) \in Nat \ {0} /\ PayloadLength(f) <= f.size
           /\ Before(f, b) \in Nat /\ Before(f, b) <= PayloadLength(f) /\ Before(f, 1) = 0
           /\ Carries(f, b) => Before(f, b) = b - 3 /\ b - 2 \in Nat /\ Before(f, b) + 1 = b - 2
           /\ Carries(f, b) /\ b # Beats(f) => Before(f, b + 1) = b - 2
           /\ Carries(f, b) /\ b = Beats(f) => b - 2 = PayloadLength(f)
           /\ ~Carries(f, b) /\ b # Beats(f) => Before(f, b + 1) = Before(f, b)
           /\ ~Carries(f, b) /\ b = Beats(f) => Before(f, b) = PayloadLength(f)
           /\ Carries(f, b) => Before(f, b) < PayloadLength(f)
           /\ Carries(f, b) <=> b >= 3 /\ b - 2 <= PayloadLength(f)
<1>1. PICK size, length, l : size = f.size /\ length = f.length /\ l = PayloadLength(f)
  OBVIOUS
<1>2. size \in Nat \ {0} /\ length \in Nat /\ l = IF length \in 1 .. size THEN length ELSE size
  BY <1>1 DEF PayloadLength
<1>3. l \in Nat \ {0} /\ l <= size /\ b \in 1 .. 2 + size /\ Beats(f) = 2 + size
  BY <1>1, <1>2
<1>4. Before(f, 1) = 0
  BY DEF Before
<1>5. \A c \in Nat : Before(f, c) = IF c - 3 <= 0 THEN 0 ELSE IF c - 3 <= l THEN c - 3 ELSE l
  BY <1>1 DEF Before
<1>6. Carries(f, b) <=> b >= 3 /\ b - 2 <= l
  BY <1>1 DEF Carries
<1>7. b \in Nat /\ b + 1 \in Nat
  BY <1>3
<1>8. /\ Before(f, b) = IF b - 3 <= 0 THEN 0 ELSE IF b - 3 <= l THEN b - 3 ELSE l
      /\ Before(f, b + 1) = IF b + 1 - 3 <= 0 THEN 0 ELSE IF b + 1 - 3 <= l THEN b + 1 - 3 ELSE l
  BY <1>5, <1>7
<1>9. /\ Before(f, b) \in Nat /\ Before(f, b) <= l
      /\ Carries(f, b) => Before(f, b) = b - 3 /\ b - 2 \in Nat /\ Before(f, b) + 1 = b - 2 /\ Before(f, b) < l
  BY <1>3, <1>6, <1>7, <1>8
<1>10. /\ Carries(f, b) /\ b # Beats(f) => Before(f, b + 1) = b - 2
       /\ Carries(f, b) /\ b = Beats(f) => b - 2 = l
  <2>1. SUFFICES ASSUME b >= 3, b - 2 <= l
        PROVE  (b # 2 + size => Before(f, b + 1) = b - 2) /\ (b = 2 + size => b - 2 = l)
    BY <1>3, <1>6
  <2>2. b + 1 - 3 = b - 2 /\ ~(b + 1 - 3 <= 0)
    BY <1>7, <2>1
  <2>3. Before(f, b + 1) = b - 2
    BY <1>8, <2>1, <2>2
  <2>4. b = 2 + size => b - 2 = l
    BY <1>2, <1>3, <2>1
  <2>5. QED
    BY <2>3, <2>4
<1>11. /\ ~Carries(f, b) /\ b # Beats(f) => Before(f, b + 1) = Before(f, b)
       /\ ~Carries(f, b) /\ b = Beats(f) => Before(f, b) = l
  <2>1. CASE b < 3
    <3>1. Before(f, b) = 0 /\ Before(f, b + 1) = 0 /\ (b # 2 + size \/ size = 0)
      BY <1>3, <1>7, <1>8, <2>1
    <3>2. QED
      BY <1>2, <1>3, <2>1, <3>1
  <2>2. CASE b >= 3 /\ b - 2 > l
    <3>1. ~(b - 3 <= 0) /\ (b - 3 <= l => b - 3 = l) /\ ~(b + 1 - 3 <= 0) /\ ~(b + 1 - 3 <= l)
      BY <1>3, <1>7, <2>2
    <3>2. Before(f, b) = l /\ Before(f, b + 1) = l
      BY <1>8, <3>1
    <3>3. QED
      BY <3>2
  <2>3. CASE b >= 3 /\ b - 2 <= l
    BY <1>6, <2>3
  <2>4. QED
    BY <1>3, <1>7, <2>1, <2>2, <2>3
<1>12. QED
  BY <1>1, <1>3, <1>4, <1>6, <1>9, <1>10, <1>11

\* For the streamer's user: the pieces frame after frame, and the bytes before beat x.
TtyPieces(c, frames) ==
    [m \in 1 .. Len(frames) |->
       IF IsFor(c, frames[m], "tty") THEN Bytes(m, PayloadLength(frames[m])) ELSE << >>]
TtyRest(c, frames, x) ==
    IF x[1] <= Len(frames) /\ IsFor(c, frames[x[1]], "tty") THEN Bytes(x[1], Before(frames[x[1]], x[2]))
    ELSE << >>
TtyUpTo(c, frames, x) == Owed(TtyPieces(c, frames), x[1] - 1) \o TtyRest(c, frames, x)

LEMMA AtBeat ==
    ASSUME NEW frames \in Scripts, NEW x, IsBeat(frames, x), x[1] <= Len(frames)
    PROVE  /\ Len(frames) \in Nat /\ x[1] \in 1 .. Len(frames) /\ x[1] \in Nat
           /\ x[1] - 1 \in 0 .. Len(frames) /\ x[2] \in 1 .. Beats(frames[x[1]]) /\ x[2] \in Nat
           /\ x = << x[1], x[2] >>
           /\ \A c, port : IsFor(c, frames[x[1]], port) =>
                frames[x[1]].size \in Nat \ {0} /\ frames[x[1]].length \in Nat
                /\ Beats(frames[x[1]]) = 2 + frames[x[1]].size
<1>1. /\ Len(frames) \in Nat /\ x \in Nat \X Nat /\ x[1] \in 1 .. Len(frames) + 1 /\ x[2] >= 1
      /\ x[2] <= Beats(frames[x[1]])
  BY InputFacts DEF IsBeat
<1>2. /\ Beats(frames[x[1]]) \in Nat
      /\ frames[x[1]].type = "ip" => frames[x[1]].size \in 1 .. Max16 /\ frames[x[1]].length \in 0 .. Max16 - 8
                                     /\ Beats(frames[x[1]]) = 2 + frames[x[1]].size
  <2>1. x[1] \in 1 .. Len(frames)
    BY <1>1
  <2>2. QED
    BY <2>1, InputFacts
<1>3. \A c, port : IsFor(c, frames[x[1]], port) => frames[x[1]].type = "ip"
  BY DEF IsFor
<1>4. QED
  BY <1>1, <1>2, <1>3, WidthNat

LEMMA TtyTyped ==
    ASSUME NEW c, NEW frames \in Scripts
    PROVE  \A m \in 1 .. Len(frames) :
             /\ TtyPieces(c, frames)[m] \in Seq(Nat \X Nat)
             /\ TtyPieces(c, frames)[m] =
                  IF IsFor(c, frames[m], "tty") THEN Bytes(m, PayloadLength(frames[m])) ELSE << >>
<1>1. SUFFICES ASSUME NEW m \in 1 .. Len(frames)
      PROVE  (IF IsFor(c, frames[m], "tty") THEN Bytes(m, PayloadLength(frames[m])) ELSE << >>) \in Seq(Nat \X Nat)
  BY DEF TtyPieces
<1>2. CASE IsFor(c, frames[m], "tty")
  <2>1. frames[m].type = "ip"
    BY <1>2 DEF IsFor
  <2>2. frames[m].size \in 1 .. Max16 /\ frames[m].length \in 0 .. Max16 - 8 /\ m \in Nat
    BY <1>1, <2>1, InputFacts
  <2>3. PayloadLength(frames[m]) \in Nat
    BY <2>2, WidthNat DEF PayloadLength
  <2>4. QED
    BY <1>2, <2>2, <2>3, BytesFacts
<1>3. CASE ~IsFor(c, frames[m], "tty")
  BY <1>3
<1>4. QED
  BY <1>2, <1>3

LEMMA TtyGrows ==
    ASSUME NEW c, NEW frames \in Scripts, NEW x, IsBeat(frames, x), x[1] <= Len(frames)
    PROVE  TtyUpTo(c, frames, NextBeat(frames, x)) =
             TtyUpTo(c, frames, x) \o
               (IF IsFor(c, frames[x[1]], "tty") /\ Carries(frames[x[1]], x[2])
                THEN << << x[1], x[2] - 2 >> >> ELSE << >>)
<1> DEFINE f == frames[x[1]]
           for == IsFor(c, f, "tty")
           new == IF for /\ Carries(f, x[2]) THEN << << x[1], x[2] - 2 >> >> ELSE << >>
           whole == Owed(TtyPieces(c, frames), x[1] - 1)
           rest == TtyRest(c, frames, x)
<1>1. /\ Len(frames) \in Nat /\ x[1] \in 1 .. Len(frames) /\ x[1] \in Nat
      /\ x[1] - 1 \in 0 .. Len(frames) /\ x[2] \in 1 .. Beats(f) /\ x[2] \in Nat
      /\ for => f.size \in Nat \ {0} /\ f.length \in Nat /\ Beats(f) = 2 + f.size
  BY AtBeat
<1>2. /\ for => /\ PayloadLength(f) \in Nat \ {0} /\ Before(f, x[2]) \in Nat
                /\ Carries(f, x[2]) => Before(f, x[2]) + 1 = x[2] - 2 /\ x[2] - 2 \in Nat
                /\ Carries(f, x[2]) /\ x[2] # Beats(f) => Before(f, x[2] + 1) = x[2] - 2
                /\ Carries(f, x[2]) /\ x[2] = Beats(f) => x[2] - 2 = PayloadLength(f)
                /\ ~Carries(f, x[2]) /\ x[2] # Beats(f) => Before(f, x[2] + 1) = Before(f, x[2])
                /\ ~Carries(f, x[2]) /\ x[2] = Beats(f) => Before(f, x[2]) = PayloadLength(f)
  BY <1>1, BeforeFacts
<1>3. whole \in Seq(Nat \X Nat) /\ Owed(TtyPieces(c, frames), x[1]) = whole \o TtyPieces(c, frames)[x[1]]
  <2>1. /\ \A n \in 0 .. Len(frames) : Owed(TtyPieces(c, frames), n) \in Seq(Nat \X Nat)
        /\ \A n \in 1 .. Len(frames) : Owed(TtyPieces(c, frames), n)
             = Owed(TtyPieces(c, frames), n - 1) \o TtyPieces(c, frames)[n]
    BY <1>1, TtyTyped, OwedFacts
  <2>2. QED
    BY <1>1, <2>1
<1>4. rest = (IF for THEN Bytes(x[1], Before(f, x[2])) ELSE << >>) /\ rest \in Seq(Nat \X Nat)
  <2>1. rest = IF for THEN Bytes(x[1], Before(f, x[2])) ELSE << >>
    BY <1>1 DEF TtyRest
  <2>2. for => Bytes(x[1], Before(f, x[2])) \in Seq(Nat \X Nat)
    BY <1>1, <1>2, BytesFacts
  <2>3. << >> \in Seq(Nat \X Nat)
    OBVIOUS
  <2> HIDE DEF for, rest
  <2>4. QED
    BY <2>1, <2>2, <2>3
<1>5. new \in Seq(Nat \X Nat)
  <2>1. for /\ Carries(f, x[2]) => << << x[1], x[2] - 2 >> >> \in Seq(Nat \X Nat)
    BY <1>1, <1>2
  <2>2. << >> \in Seq(Nat \X Nat)
    OBVIOUS
  <2>3. QED
    BY <2>1, <2>2, Zenon
<1> HIDE DEF for, new, whole, rest
<1>6. (whole \o rest) \o new = whole \o (rest \o new)
  <2>1. whole \in Seq(Nat \X Nat) /\ rest \in Seq(Nat \X Nat) /\ new \in Seq(Nat \X Nat)
    BY <1>3, <1>4, <1>5
  <2>2. QED
    BY <2>1, BeatsRegroup
<1>7. for /\ Carries(f, x[2]) => rest \o new = Bytes(x[1], x[2] - 2)
  <2>1. SUFFICES ASSUME for, Carries(f, x[2]) PROVE rest \o new = Bytes(x[1], x[2] - 2)
    OBVIOUS
  <2>2. PICK l : l = Before(f, x[2])
    OBVIOUS
  <2>3. l \in Nat /\ l + 1 = x[2] - 2
    BY <1>2, <2>1, <2>2
  <2>4. Bytes(x[1], l + 1) = Bytes(x[1], l) \o << << x[1], l + 1 >> >>
    BY <1>1, <2>3, BytesFacts
  <2>5. rest = Bytes(x[1], l) /\ new = << << x[1], l + 1 >> >>
    BY <1>4, <2>1, <2>2, <2>3 DEF new
  <2>6. QED
    BY <2>3, <2>4, <2>5
<1>8. ~(for /\ Carries(f, x[2])) => rest \o new = rest
  <2>1. SUFFICES ASSUME ~(for /\ Carries(f, x[2])) PROVE rest \o new = rest
    OBVIOUS
  <2>2. new = << >>
    BY <2>1 DEF new
  <2>3. QED
    BY <1>4, <2>2, ConcatEmptySeq
<1>9. CASE x[2] = Beats(f)
  <2>1. NextBeat(frames, x) = << x[1] + 1, 1 >>
    BY <1>9 DEF NextBeat
  <2>2. rest \o new = TtyPieces(c, frames)[x[1]]
    <3>1. TtyPieces(c, frames)[x[1]] = IF for THEN Bytes(x[1], PayloadLength(f)) ELSE << >>
      BY <1>1, TtyTyped DEF for
    <3>2. QED
      BY <1>2, <1>4, <1>7, <1>8, <1>9, <3>1
  <2>3. TtyRest(c, frames, << x[1] + 1, 1 >>) = << >>
    <3>1. x[1] + 1 \in Nat /\ << x[1] + 1, 1 >>[1] = x[1] + 1 /\ << x[1] + 1, 1 >>[2] = 1
      BY <1>1
    <3>2. Bytes(x[1] + 1, Before(frames[x[1] + 1], 1)) = << >>
      <4>1. Before(frames[x[1] + 1], 1) = 0
        BY DEF Before
      <4>2. QED
        BY <3>1, <4>1, BytesFacts
    <3>3. QED
      BY <3>1, <3>2 DEF TtyRest
  <2>4. << x[1] + 1, 1 >>[1] - 1 = x[1]
    BY <1>1
  <2>5. TtyUpTo(c, frames, NextBeat(frames, x)) = whole \o (rest \o new)
    <3>1. whole \o (rest \o new) \in Seq(Nat \X Nat)
      BY <1>3, <1>4, <1>5, ConcatProperties
    <3>2. Owed(TtyPieces(c, frames), x[1]) \o << >> = whole \o (rest \o new)
      BY <1>3, <2>2, <3>1, ConcatEmptySeq
    <3>3. QED
      BY <2>1, <2>3, <2>4, <3>2, Zenon DEF TtyUpTo
  <2>6. QED
    BY <1>6, <2>5, Zenon DEF TtyUpTo, for, new, whole, rest
<1>10. CASE x[2] # Beats(f)
  <2>1. NextBeat(frames, x) = << x[1], x[2] + 1 >>
    BY <1>10 DEF NextBeat
  <2>2. TtyRest(c, frames, << x[1], x[2] + 1 >>) = rest \o new
    <3>1. << x[1], x[2] + 1 >>[1] = x[1] /\ << x[1], x[2] + 1 >>[2] = x[2] + 1 /\ x[1] <= Len(frames)
      OBVIOUS
    <3>2. TtyRest(c, frames, << x[1], x[2] + 1 >>) = IF for THEN Bytes(x[1], Before(f, x[2] + 1)) ELSE << >>
      BY <3>1, Zenon DEF TtyRest, for
    <3>3. QED
      BY <1>2, <1>4, <1>7, <1>8, <1>10, <3>2
  <2>3. << x[1], x[2] + 1 >>[1] - 1 = x[1] - 1
    OBVIOUS
  <2>4. TtyUpTo(c, frames, NextBeat(frames, x)) = whole \o (rest \o new)
    BY <2>1, <2>2, <2>3, Zenon DEF TtyUpTo, whole
  <2>5. QED
    BY <1>6, <2>4, Zenon DEF TtyUpTo, for, new, whole, rest
<1>11. QED
  BY <1>9, <1>10

\* UDPRX gives a port's user a beat just when it carries a byte of a datagram for it.
LEMMA Delivers ==
    ASSUME FeedInv, StackInv, NEW idle, NEW echoReady, HwTakes(idle, echoReady), NEW port \in {"tty", "app"},
           NEW f, f = input[Pos[1]], NEW b, b = Pos[2]
    PROVE  /\ (UdpSource(idle) /\ UdpUser = port /\ (port = "tty" => TtyMine))
                <=> IsFor(core, f, port) /\ Carries(f, b)
           /\ UdpSource(idle) /\ UdpUser = port /\ (port = "tty" => TtyMine) =>
                (UdpLast <=> b - 2 = PayloadLength(f))
<1> DEFINE given == UdpSource(idle) /\ UdpUser = port /\ (port = "tty" => TtyMine)
<1>1. /\ HwValid(idle) /\ F = f /\ Beat = b /\ (IsLast <=> b = Beats(f))
      /\ Pos[1] \in 1 .. Len(input) /\ b \in 1 .. Beats(f) /\ ReceiverInv(f, b)
      /\ input \in Scripts /\ core \in {"full", "small"} /\ ReceiverTypes
  BY TakeFacts, View DEF StackInv, FeedInv
<1>2. /\ ToUdp(idle) <=> f.type = "ip" /\ b >= 3 /\ ipRx = "RECEIVE" /\ IpUserOf(f) = "udp"
      /\ f.type = "ip" /\ b >= 2 => ipRx = "DROP" \/ ipRx = "RECEIVE"
      /\ ToUdp(idle) => udpRx = "DROP" \/ udpRx = "RECEIVE"
  BY <1>1, View, TakeFacts
<1>3. PICK size, length, l : size = f.size /\ length = f.length /\ l = PayloadLength(f)
  OBVIOUS
<1>4. /\ f.type = "ip" => /\ Beats(f) = 2 + size /\ size \in Nat \ {0} /\ length \in Nat /\ length <= Max16 /\ size <= Max16
      /\ l = IF length \in 1 .. size THEN length ELSE size
      /\ b \in Nat /\ Max16 \in Nat
  <2>1. f.type = "ip" => size \in 1 .. Max16 /\ length \in 0 .. Max16 - 8 /\ Beats(f) = 2 + size
    BY <1>1, <1>3, InputFacts
  <2>2. Beats(f) \in Nat
    BY <1>1, InputFacts
  <2>3. l = IF length \in 1 .. size THEN length ELSE size
    BY <1>3 DEF PayloadLength
  <2>4. QED
    BY <1>1, <2>1, <2>2, <2>3, WidthNat
<1>5. Carries(f, b) <=> b >= 3 /\ b - 2 <= l
  BY <1>3 DEF Carries
<1>6. /\ ipRx = "RECEIVE" => f.ok
      /\ ipRx = "DROP" => ~f.ok
      /\ udpRx = "RECEIVE" => f.proto = "udp" /\ count = b - 3 /\ (length = 0 \/ count < length)
      /\ udpRx = "DROP" => f.proto # "udp" \/ (length > 0 /\ b - 3 >= length)
  BY <1>1, <1>3 DEF ReceiverInv
<1>7. UdpSource(idle) <=> ToUdp(idle) /\ udpRx = "RECEIVE"
  BY DEF UdpSource
<1>8. /\ TtyMine <=> f.src = Partner /\ f.port = "tty"
      /\ UdpUser = IF core = "small" THEN "tty" ELSE f.port
      /\ IpUserOf(f) = IF core = "small" THEN "udp" ELSE f.proto
  BY <1>1 DEF TtyMine, UdpUser, IpUserOf
<1>9. ASSUME given PROVE IsFor(core, f, port) /\ Carries(f, b) /\ count = b - 3 /\ (length = 0 \/ count < length)
  <2>1. /\ f.type = "ip" /\ b >= 3 /\ ipRx = "RECEIVE" /\ udpRx = "RECEIVE" /\ f.proto = "udp"
        /\ count = b - 3 /\ (length = 0 \/ count < length)
    BY <1>2, <1>6, <1>7, <1>9
  <2>2. b - 2 <= l
    BY <1>1, <1>4, <2>1
  <2>3. f.port = port /\ (port = "tty" => f.src = Partner) /\ (port = "app" => core = "full")
    BY <1>1, <1>8, <1>9
  <2>4. f.ok
    BY <1>6, <2>1
  <2>5. IsFor(core, f, port)
    BY <2>1, <2>3, <2>4 DEF IsFor
  <2>6. QED
    BY <1>5, <2>1, <2>2, <2>5
<1>10. ASSUME IsFor(core, f, port), Carries(f, b) PROVE given
  <2>1. /\ f.type = "ip" /\ f.proto = "udp" /\ f.port = port
        /\ (port = "tty" => f.src = Partner) /\ (port = "app" => core = "full") /\ f.ok
    BY <1>10 DEF IsFor
  <2>2. b >= 3 /\ b - 2 <= l
    BY <1>5, <1>10
  <2>3. b >= 2
    BY <1>4, <2>2
  <2>4. ipRx = "RECEIVE"
    BY <1>2, <1>6, <2>1, <2>3
  <2>5. ToUdp(idle)
    BY <1>2, <1>8, <2>1, <2>2, <2>4
  <2>6. udpRx # "DROP"
    <3>1. ~(length > 0 /\ b - 3 >= length)
      BY <1>1, <1>4, <2>1, <2>2
    <3>2. QED
      BY <1>6, <2>1, <3>1
  <2>7. UdpSource(idle)
    BY <1>2, <1>7, <2>5, <2>6
  <2>8. UdpUser = port /\ (port = "tty" => TtyMine)
    BY <1>1, <1>8, <2>1
  <2>9. QED
    BY <2>7, <2>8
<1>11. ASSUME given PROVE UdpLast <=> b - 2 = l
  <2>1. /\ f.type = "ip" /\ b >= 3 /\ b - 2 <= l /\ count = b - 3 /\ (length = 0 \/ count < length)
    BY <1>5, <1>9, <1>11 DEF IsFor
  <2>2. Cut <=> length # 0 /\ count = length - 1
    <3>1. Cut <=> count = (length - 1) % 65536
      BY <1>1, <1>3 DEF Cut
    <3>2. CASE length = 0
      <4>1. count \in Nat /\ count < Max16
        BY <1>1, <1>4, <2>1
      <4>2. count # (length - 1) % 65536
        BY <3>2, <4>1, Wraps
      <4>3. QED
        BY <3>1, <3>2, <4>2
    <3>3. CASE length # 0
      <4>1. length - 1 \in Nat /\ length - 1 <= Max16
        BY <1>4, <2>1, <3>3
      <4>2. (length - 1) % 65536 = length - 1
        BY <4>1, Modulo16
      <4>3. QED
        BY <3>1, <3>3, <4>2
    <3>4. QED
      BY <3>2, <3>3
  <2>3. UdpLast <=> b = 2 + size \/ (length # 0 /\ b - 3 = length - 1)
    BY <1>1, <1>4, <2>1, <2>2 DEF UdpLast
  <2>4. b = 2 + size \/ (length # 0 /\ b - 3 = length - 1) <=> b - 2 = l
    <3>1. b \in Nat /\ b <= 2 + size /\ size \in Nat \ {0} /\ length \in Nat /\ b >= 3
      BY <1>1, <1>4, <2>1
    <3>2. CASE length \in 1 .. size
      <4>1. l = length /\ length # 0 /\ b - 2 <= length /\ length <= size
        BY <1>4, <2>1, <3>2
      <4>2. QED
        BY <3>1, <4>1
    <3>3. CASE length \notin 1 .. size
      <4>1. l = size /\ (length = 0 \/ length > size)
        BY <1>4, <2>1, <3>1, <3>3
      <4>2. QED
        BY <3>1, <4>1
    <3>4. QED
      BY <3>2, <3>3
  <2>5. QED
    BY <2>3, <2>4
<1>12. QED
  BY <1>3, <1>9, <1>10, <1>11

TtyInv ==
    /\ rx_fifo \in Seq(Nat \X Nat) /\ ttyGot \in Seq(Nat \X Nat) /\ Len(rx_fifo) <= RxFifoDepth
    /\ ttyGot \o rx_fifo = TtyUpTo(core, input, Pos)

LEMMA TtyStep ==
    ASSUME FeedInv, StackInv, TtyInv, NEW idle, NEW echoReady, RxNext(idle, echoReady)
    PROVE  TtyInv'
<1> DEFINE takes == HwTakes(idle, echoReady)
           reads == rx_fifo # << >> /\ idle # "tty"
           stored == UdpSource(idle) /\ takes /\ UdpUser = "tty"
           new == IF stored /\ TtyMine THEN << HwByte >> ELSE << >>
<1>1. /\ input' = input /\ core' = core /\ input \in Scripts /\ IsBeat(input, Pos)
      /\ Pos' = IF takes THEN NextBeat(input, Pos) ELSE Pos
  BY FeedStep, HeadFacts DEF RxNext, configVars, FeedInv
<1>2. /\ rx_fifo' = Left(rx_fifo, reads) \o (IF Len(rx_fifo) < RxFifoDepth THEN new ELSE << >>)
      /\ ttyGot' = Read(ttyGot, rx_fifo, reads)
  BY DEF RxNext, Streamer, Fifo, Read, Left
<1>3. /\ rx_fifo \in Seq(Nat \X Nat) /\ ttyGot \in Seq(Nat \X Nat) /\ Len(rx_fifo) <= RxFifoDepth
      /\ ttyGot \o rx_fifo = TtyUpTo(core, input, Pos) /\ RxFifoDepth \in Nat
  BY RxAssumption DEF TtyInv, RxAssumption
<1>4. stored => TtyReady /\ ToUdp(idle) /\ HwValid(idle)
  BY TakeFacts DEF UdpSource
<1>5. HwValid(idle) => /\ HwByte = << Pos[1], Pos[2] - 2 >> /\ Pos[1] \in Nat /\ Pos[2] \in Nat
                       /\ ToUdp(idle) => Pos[2] - 2 \in Nat
  <2>1. SUFFICES ASSUME HwValid(idle)
        PROVE  /\ HwByte = << Pos[1], Pos[2] - 2 >> /\ Pos[1] \in Nat /\ Pos[2] \in Nat
               /\ ToUdp(idle) => Pos[2] - 2 \in Nat
    OBVIOUS
  <2>2. HwByte = << Pos[1], Pos[2] - 2 >> /\ (ToUdp(idle) => Pos[2] >= 3)
    BY <2>1, View
  <2>3. Pos[1] \in Nat /\ Pos[2] \in Nat
    BY HeadFacts
  <2>4. QED
    BY <2>2, <2>3
<1>6. new \in Seq(Nat \X Nat) /\ (new # << >> => Len(rx_fifo) < RxFifoDepth /\ Len(new) = 1)
      /\ (IF Len(rx_fifo) < RxFifoDepth THEN new ELSE << >>) = new
  <2>1. stored => << HwByte >> \in Seq(Nat \X Nat) /\ Len(<< HwByte >>) = 1 /\ Len(rx_fifo) < RxFifoDepth
    BY <1>4, <1>5 DEF TtyReady
  <2>2. << >> \in Seq(Nat \X Nat)
    OBVIOUS
  <2> HIDE DEF stored
  <2>3. QED
    BY <2>1, <2>2, Zenon
<1> HIDE DEF new, reads, stored
<1>7. /\ ttyGot' \o rx_fifo' = (ttyGot \o rx_fifo) \o new
      /\ ttyGot' \in Seq(Nat \X Nat) /\ rx_fifo' \in Seq(Nat \X Nat)
      /\ Len(rx_fifo') <= Len(rx_fifo) + Len(new)
  <2>1. PICK S, got, q, x, p : S = Nat \X Nat /\ got = ttyGot /\ q = rx_fifo /\ x = new /\ p = reads
    OBVIOUS
  <2>2. got \in Seq(S) /\ q \in Seq(S) /\ x \in Seq(S) /\ (p => q # << >>)
    BY <1>3, <1>6, <2>1 DEF reads
  <2>3. /\ Read(got, q, p) \o (Left(q, p) \o x) = (got \o q) \o x
        /\ Read(got, q, p) \in Seq(S) /\ Left(q, p) \o x \in Seq(S)
        /\ Len(Left(q, p) \o x) <= Len(q) + Len(x)
    BY <2>2, FifoKeeps
  <2>4. rx_fifo' = Left(q, p) \o x /\ ttyGot' = Read(got, q, p)
    BY <1>2, <1>6, <2>1, Zenon
  <2>5. QED
    BY <2>1, <2>3, <2>4, Zenon
<1>8. Len(rx_fifo') <= RxFifoDepth
  <2>1. PICK a, b : a = Len(rx_fifo') /\ b = Len(rx_fifo)
    OBVIOUS
  <2>2. a \in Nat /\ b \in Nat /\ b <= RxFifoDepth /\ RxFifoDepth \in Nat
    <3>1. Len(rx_fifo') \in Nat /\ Len(rx_fifo) \in Nat
      BY <1>3, <1>7, LenProperties
    <3>2. QED
      BY <1>3, <2>1, <3>1
  <2>3. CASE new = << >>
    <3>1. Len(new) = 0
      BY <2>3
    <3>2. a <= b + 0
      BY <1>7, <2>1, <3>1
    <3>3. QED
      BY <2>1, <2>2, <3>2
  <2>4. CASE new # << >>
    <3>1. a <= b + 1 /\ b < RxFifoDepth
      BY <1>6, <1>7, <2>1, <2>4
    <3>2. QED
      BY <2>1, <2>2, <3>1
  <2>5. QED
    BY <2>3, <2>4
<1>9. TtyUpTo(core, input, Pos') = TtyUpTo(core, input, Pos) \o new
  <2>1. CASE takes
    <3>1. Pos[1] <= Len(input)
      BY <2>1, HeadFacts DEF HwTakes
    <3>2. PICK f, b : f = input[Pos[1]] /\ b = Pos[2]
      OBVIOUS
    <3>3. (UdpSource(idle) /\ UdpUser = "tty" /\ TtyMine) <=> IsFor(core, f, "tty") /\ Carries(f, b)
      BY <2>1, <3>2, Delivers
    <3>4. (IF IsFor(core, f, "tty") /\ Carries(f, b) THEN << << Pos[1], Pos[2] - 2 >> >> ELSE << >>) = new
      <4>1. CASE UdpSource(idle) /\ UdpUser = "tty" /\ TtyMine
        BY <1>4, <1>5, <2>1, <3>3, <4>1 DEF new, stored
      <4>2. CASE ~(UdpSource(idle) /\ UdpUser = "tty" /\ TtyMine)
        BY <3>3, <4>2 DEF new, stored
      <4>3. QED
        BY <4>1, <4>2
    <3>5. TtyUpTo(core, input, NextBeat(input, Pos)) =
             TtyUpTo(core, input, Pos) \o
               (IF IsFor(core, f, "tty") /\ Carries(f, b) THEN << << Pos[1], Pos[2] - 2 >> >> ELSE << >>)
      BY <1>1, <3>1, <3>2, TtyGrows
    <3>6. QED
      BY <1>1, <2>1, <3>4, <3>5, Zenon
  <2>2. CASE ~takes
    <3>1. new = << >> /\ Pos' = Pos
      BY <1>1, <2>2 DEF new, stored
    <3>2. QED
      BY <1>3, <1>7, <3>1, ConcatEmptySeq, ConcatProperties
  <2>3. QED
    BY <2>1, <2>2
<1>10. QED
  BY <1>1, <1>3, <1>7, <1>8, <1>9, Zenon DEF TtyInv

\* For the user of the other port: the datagrams it has, and the one it is getting.
AppPieces(c, frames) ==
    [m \in 1 .. Len(frames) |->
       IF IsFor(c, frames[m], "app") THEN << Bytes(m, PayloadLength(frames[m])) >> ELSE << >>]
Unfinished(f, b) == Before(f, b) < PayloadLength(f)
AppLast(c, frames, x) ==
    IF x[1] <= Len(frames) /\ IsFor(c, frames[x[1]], "app") /\ ~Unfinished(frames[x[1]], x[2])
    THEN << Bytes(x[1], PayloadLength(frames[x[1]])) >> ELSE << >>
AppUpTo(c, frames, x) == Owed(AppPieces(c, frames), x[1] - 1) \o AppLast(c, frames, x)
AppPart(c, frames, x) ==
    IF x[1] <= Len(frames) /\ IsFor(c, frames[x[1]], "app") /\ Unfinished(frames[x[1]], x[2])
    THEN Bytes(x[1], Before(frames[x[1]], x[2])) ELSE << >>

LEMMA AppTyped ==
    ASSUME NEW c, NEW frames \in Scripts
    PROVE  \A m \in 1 .. Len(frames) :
             /\ AppPieces(c, frames)[m] \in Seq(Seq(Places))
             /\ AppPieces(c, frames)[m] =
                  IF IsFor(c, frames[m], "app") THEN << Bytes(m, PayloadLength(frames[m])) >> ELSE << >>
             /\ IsFor(c, frames[m], "app") => Bytes(m, PayloadLength(frames[m])) \in Seq(Places)
<1>1. SUFFICES ASSUME NEW m \in 1 .. Len(frames)
      PROVE  /\ IsFor(c, frames[m], "app") => Bytes(m, PayloadLength(frames[m])) \in Seq(Places)
             /\ (IF IsFor(c, frames[m], "app") THEN << Bytes(m, PayloadLength(frames[m])) >> ELSE << >>)
                  \in Seq(Seq(Places))
  BY DEF AppPieces
<1>2. ASSUME IsFor(c, frames[m], "app") PROVE Bytes(m, PayloadLength(frames[m])) \in Seq(Places)
  <2>1. frames[m].type = "ip"
    BY <1>2 DEF IsFor
  <2>2. frames[m].size \in 1 .. Max16 /\ frames[m].length \in 0 .. Max16 - 8 /\ m \in Nat
    BY <1>1, <2>1, InputFacts
  <2>3. PayloadLength(frames[m]) \in Nat
    BY <2>2, WidthNat DEF PayloadLength
  <2>4. Bytes(m, PayloadLength(frames[m])) \in Seq(Nat \X Nat)
    BY <2>2, <2>3, BytesFacts
  <2>5. QED
    BY <2>4 DEF Places
<1>3. PICK S, one : S = Seq(Places) /\ one = Bytes(m, PayloadLength(frames[m]))
  OBVIOUS
<1>4. one \in S => << one >> \in Seq(S)
  OBVIOUS
<1>5. << >> \in Seq(S)
  OBVIOUS
<1>6. QED
  BY <1>2, <1>3, <1>4, <1>5, Zenon

\* What a beat adds to what the user of the other port has got.
AppGrow(c, frames, x, next) ==
    /\ IsFor(c, frames[x[1]], "app") /\ Carries(frames[x[1]], x[2]) /\ x[2] - 2 = PayloadLength(frames[x[1]]) =>
         /\ AppUpTo(c, frames, next) =
              Append(AppUpTo(c, frames, x), Append(AppPart(c, frames, x), << x[1], x[2] - 2 >>))
         /\ AppPart(c, frames, next) = << >>
    /\ IsFor(c, frames[x[1]], "app") /\ Carries(frames[x[1]], x[2]) /\ x[2] - 2 # PayloadLength(frames[x[1]]) =>
         /\ AppUpTo(c, frames, next) = AppUpTo(c, frames, x)
         /\ AppPart(c, frames, next) = Append(AppPart(c, frames, x), << x[1], x[2] - 2 >>)
    /\ ~(IsFor(c, frames[x[1]], "app") /\ Carries(frames[x[1]], x[2])) =>
         /\ AppUpTo(c, frames, next) = AppUpTo(c, frames, x)
         /\ AppPart(c, frames, next) = AppPart(c, frames, x)

LEMMA AppGrows ==
    ASSUME NEW c, NEW frames \in Scripts, NEW x, IsBeat(frames, x), x[1] <= Len(frames)
    PROVE  /\ AppUpTo(c, frames, x) \in Seq(Seq(Places)) /\ AppPart(c, frames, x) \in Seq(Places)
           /\ AppGrow(c, frames, x, NextBeat(frames, x))
<1>0. PICK f, b : f = frames[x[1]] /\ b = x[2]
  OBVIOUS
<1> DEFINE for == IsFor(c, f, "app")
           whole == Owed(AppPieces(c, frames), x[1] - 1)
           next == NextBeat(frames, x)
<1>1. /\ Len(frames) \in Nat /\ x[1] \in 1 .. Len(frames) /\ x[1] \in Nat
      /\ x[1] - 1 \in 0 .. Len(frames) /\ b \in 1 .. Beats(f) /\ b \in Nat
      /\ for => f.size \in Nat \ {0} /\ f.length \in Nat /\ Beats(f) = 2 + f.size
  BY <1>0, AtBeat
<1>2. PICK l, n : l = PayloadLength(f) /\ n = Before(f, b)
  OBVIOUS
<1>3. /\ for => /\ l \in Nat \ {0} /\ n \in Nat /\ n <= l
                /\ Carries(f, b) => n + 1 = b - 2 /\ n < l /\ b - 2 <= l
                /\ Carries(f, b) /\ b # Beats(f) => Before(f, b + 1) = b - 2
                /\ Carries(f, b) /\ b = Beats(f) => b - 2 = l
                /\ ~Carries(f, b) /\ b # Beats(f) => Before(f, b + 1) = n
                /\ ~Carries(f, b) /\ b = Beats(f) => n = l
  <2>1. SUFFICES ASSUME for
        PROVE  /\ l \in Nat \ {0} /\ n \in Nat /\ n <= l
               /\ Carries(f, b) => n + 1 = b - 2 /\ n < l /\ b - 2 <= l
               /\ Carries(f, b) /\ b # Beats(f) => Before(f, b + 1) = b - 2
               /\ Carries(f, b) /\ b = Beats(f) => b - 2 = l
               /\ ~Carries(f, b) /\ b # Beats(f) => Before(f, b + 1) = n
               /\ ~Carries(f, b) /\ b = Beats(f) => n = l
    OBVIOUS
  <2>2. QED
    BY <1>1, <1>2, <2>1, BeforeFacts
<1>4. whole \in Seq(Seq(Places)) /\ Owed(AppPieces(c, frames), x[1]) = whole \o AppPieces(c, frames)[x[1]]
  <2>1. PICK S, u : S = Seq(Places) /\ u = AppPieces(c, frames)
    OBVIOUS
  <2>2. \A m \in 1 .. Len(frames) : u[m] \in Seq(S)
    BY <2>1, AppTyped
  <2>3. /\ \A m \in 0 .. Len(frames) : Owed(u, m) \in Seq(S)
        /\ \A m \in 1 .. Len(frames) : Owed(u, m) = Owed(u, m - 1) \o u[m]
    BY <1>1, <2>2, OwedFacts
  <2>4. QED
    BY <1>1, <2>1, <2>3
<1>5. for => Bytes(x[1], l) \in Seq(Places) /\ Bytes(x[1], n) \in Seq(Places)
             /\ AppPieces(c, frames)[x[1]] = << Bytes(x[1], l) >>
  <2>1. for => Bytes(x[1], l) \in Seq(Nat \X Nat) /\ Bytes(x[1], n) \in Seq(Nat \X Nat)
    BY <1>1, <1>3, BytesFacts
  <2>2. for => AppPieces(c, frames)[x[1]] = << Bytes(x[1], l) >>
    BY <1>0, <1>1, <1>2, AppTyped
  <2>3. QED
    BY <2>1, <2>2 DEF Places
<1>6. ~for => AppPieces(c, frames)[x[1]] = << >>
  BY <1>0, <1>1, AppTyped
<1> HIDE DEF for, whole
<1>7. /\ AppUpTo(c, frames, x) = whole \o AppLast(c, frames, x)
      /\ AppLast(c, frames, x) = IF for /\ ~(n < l) THEN << Bytes(x[1], l) >> ELSE << >>
      /\ AppPart(c, frames, x) = IF for /\ n < l THEN Bytes(x[1], n) ELSE << >>
  BY <1>0, <1>2 DEF AppUpTo, AppLast, AppPart, Unfinished, for, whole
<1>8. b # Beats(f) =>
        /\ next = << x[1], b + 1 >>
        /\ AppUpTo(c, frames, next) = whole \o AppLast(c, frames, next)
        /\ AppLast(c, frames, next) = IF for /\ ~(Before(f, b + 1) < l) THEN << Bytes(x[1], l) >> ELSE << >>
        /\ AppPart(c, frames, next) = IF for /\ Before(f, b + 1) < l THEN Bytes(x[1], Before(f, b + 1)) ELSE << >>
  <2>1. SUFFICES ASSUME b # Beats(f), next = << x[1], b + 1 >>
        PROVE  /\ AppUpTo(c, frames, next) = whole \o AppLast(c, frames, next)
               /\ AppLast(c, frames, next) = IF for /\ ~(Before(f, b + 1) < l) THEN << Bytes(x[1], l) >> ELSE << >>
               /\ AppPart(c, frames, next) = IF for /\ Before(f, b + 1) < l THEN Bytes(x[1], Before(f, b + 1)) ELSE << >>
    BY <1>0 DEF NextBeat
  <2>2. next[1] = x[1] /\ next[2] = b + 1
    BY <2>1
  <2> HIDE DEF next
  <2>3. QED
    BY <1>0, <1>2, <2>2, Zenon DEF AppUpTo, AppLast, AppPart, Unfinished, for, whole
<1>9. b = Beats(f) =>
        /\ AppUpTo(c, frames, next) = Owed(AppPieces(c, frames), x[1]) \o << >>
        /\ AppPart(c, frames, next) = << >>
  <2>1. SUFFICES ASSUME b = Beats(f), next = << x[1] + 1, 1 >>
        PROVE  /\ AppUpTo(c, frames, next) = Owed(AppPieces(c, frames), x[1]) \o << >>
               /\ AppPart(c, frames, next) = << >>
    BY <1>0 DEF NextBeat
  <2>2. next[1] = x[1] + 1 /\ next[2] = 1 /\ next[1] - 1 = x[1] /\ x[1] + 1 \in Nat
    BY <1>1, <2>1
  <2>3. \A g : Before(g, 1) = 0
    BY DEF Before
  <2>4. next[1] <= Len(frames) /\ IsFor(c, frames[next[1]], "app") => 0 < PayloadLength(frames[next[1]])
    <3>1. SUFFICES ASSUME next[1] <= Len(frames), IsFor(c, frames[next[1]], "app")
          PROVE  0 < PayloadLength(frames[next[1]])
      OBVIOUS
    <3>2. next[1] \in 1 .. Len(frames) /\ frames[next[1]].type = "ip"
      BY <1>1, <2>2, <3>1 DEF IsFor
    <3>3. frames[next[1]].size \in 1 .. Max16 /\ frames[next[1]].length \in 0 .. Max16 - 8
      BY <3>2, InputFacts
    <3>4. QED
      BY <3>3, WidthNat DEF PayloadLength
  <2>5. Bytes(x[1] + 1, 0) = << >>
    BY <2>2, BytesFacts
  <2> HIDE DEF next
  <2>6. AppLast(c, frames, next) = << >>
    BY <2>2, <2>3, <2>4 DEF AppLast, Unfinished
  <2>7. AppPart(c, frames, next) = << >>
    BY <2>2, <2>3, <2>5 DEF AppPart
  <2>8. QED
    BY <2>2, <2>6, <2>7, Zenon DEF AppUpTo
<1> HIDE DEF next
<1>10. PICK S, w, one : S = Seq(Places) /\ w = whole /\ one = Bytes(x[1], l)
  OBVIOUS
<1>11. w \in Seq(S) /\ w \o << >> = w /\ (one \in S => << one >> \in Seq(S) /\ w \o << one >> = Append(w, one)
                                                   /\ w \o << one >> \in Seq(S) /\ (w \o << one >>) \o << >> = w \o << one >>)
  <2>1. w \in Seq(S)
    BY <1>4, <1>10
  <2>2. w \o << >> = w
    BY <2>1, ConcatEmptySeq
  <2>3. SUFFICES ASSUME one \in S
        PROVE  << one >> \in Seq(S) /\ w \o << one >> = Append(w, one) /\ w \o << one >> \in Seq(S)
               /\ (w \o << one >>) \o << >> = w \o << one >>
    BY <2>1, <2>2
  <2>4. << one >> \in Seq(S) /\ w \o << one >> = Append(w, one)
    BY <2>1, <2>3, AppendIsConcat
  <2>5. w \o << one >> \in Seq(S)
    BY <2>1, <2>4, ConcatProperties
  <2>6. (w \o << one >>) \o << >> = w \o << one >>
    BY <2>5, ConcatEmptySeq
  <2>7. QED
    BY <2>4, <2>5, <2>6
<1>12. for => one \in S
  BY <1>5, <1>10
<1>13. AppUpTo(c, frames, x) \in Seq(Seq(Places)) /\ AppPart(c, frames, x) \in Seq(Places)
  <2>1. << >> \in Seq(Places)
    OBVIOUS
  <2>2. AppPart(c, frames, x) \in Seq(Places)
    BY <1>5, <1>7, <2>1, Zenon
  <2>3. AppUpTo(c, frames, x) \in Seq(S)
    BY <1>7, <1>10, <1>11, <1>12, Zenon
  <2>4. QED
    BY <1>10, <2>2, <2>3, Zenon
<1>14. ASSUME for, Carries(f, b)
       PROVE  /\ AppUpTo(c, frames, x) = w /\ n + 1 = b - 2
              /\ Append(AppPart(c, frames, x), << x[1], b - 2 >>) = Bytes(x[1], n + 1)
  <2>1. l \in Nat \ {0} /\ n \in Nat /\ n + 1 = b - 2 /\ n < l
    BY <1>3, <1>14
  <2>2. AppLast(c, frames, x) = << >> /\ AppPart(c, frames, x) = Bytes(x[1], n)
    BY <1>7, <1>14, <2>1
  <2>3. Bytes(x[1], n + 1) = Append(Bytes(x[1], n), << x[1], n + 1 >>)
    BY <1>1, <2>1, BytesFacts
  <2>4. AppUpTo(c, frames, x) = w
    BY <1>7, <1>10, <1>11, <2>2, Zenon
  <2>5. QED
    BY <2>1, <2>2, <2>3, <2>4
<1>15. ASSUME for, Carries(f, b), b - 2 = l
       PROVE  /\ AppUpTo(c, frames, next) =
                   Append(AppUpTo(c, frames, x), Append(AppPart(c, frames, x), << x[1], b - 2 >>))
              /\ AppPart(c, frames, next) = << >>
  <2>1. AppUpTo(c, frames, x) = w /\ Append(AppPart(c, frames, x), << x[1], b - 2 >>) = one
    BY <1>10, <1>14, <1>15
  <2>2. CASE b = Beats(f)
    <3>1. AppUpTo(c, frames, next) = (w \o << one >>) \o << >> /\ AppPart(c, frames, next) = << >>
      BY <1>4, <1>5, <1>9, <1>10, <1>15, <2>2, Zenon
    <3>2. QED
      BY <1>11, <1>12, <1>15, <2>1, <3>1, Zenon
  <2>3. CASE b # Beats(f)
    <3>1. ~(Before(f, b + 1) < l)
      BY <1>3, <1>15, <2>3
    <3>2. AppUpTo(c, frames, next) = w \o << one >> /\ AppPart(c, frames, next) = << >>
      BY <1>8, <1>10, <1>15, <2>3, <3>1, Zenon
    <3>3. QED
      BY <1>11, <1>12, <1>15, <2>1, <3>2, Zenon
  <2>4. QED
    BY <2>2, <2>3
<1>16. ASSUME for, Carries(f, b), b - 2 # l
       PROVE  /\ AppUpTo(c, frames, next) = AppUpTo(c, frames, x)
              /\ AppPart(c, frames, next) = Append(AppPart(c, frames, x), << x[1], b - 2 >>)
  <2>1. b # Beats(f) /\ Before(f, b + 1) = n + 1 /\ Before(f, b + 1) < l
    BY <1>1, <1>3, <1>16
  <2>2. AppUpTo(c, frames, next) = w \o << >> /\ AppPart(c, frames, next) = Bytes(x[1], n + 1)
    BY <1>8, <1>10, <1>16, <2>1, Zenon
  <2>3. QED
    BY <1>11, <1>14, <1>16, <2>2, Zenon
<1>17. ASSUME ~(for /\ Carries(f, b))
       PROVE  /\ AppUpTo(c, frames, next) = AppUpTo(c, frames, x)
              /\ AppPart(c, frames, next) = AppPart(c, frames, x)
  <2>1. CASE ~for
    <3>1. AppUpTo(c, frames, x) = w /\ AppPart(c, frames, x) = << >>
      BY <1>7, <1>10, <1>11, <2>1, Zenon
    <3>2. CASE b = Beats(f)
      <4>1. AppUpTo(c, frames, next) = (w \o << >>) \o << >>
        BY <1>4, <1>6, <1>9, <1>10, <2>1, <3>2, Zenon
      <4>2. QED
        BY <1>9, <1>11, <3>1, <3>2, <4>1, Zenon
    <3>3. CASE b # Beats(f)
      BY <1>8, <1>10, <1>11, <2>1, <3>1, <3>3, Zenon
    <3>4. QED
      BY <3>2, <3>3
  <2>2. CASE for /\ ~Carries(f, b)
    <3>1. CASE b = Beats(f)
      <4>1. n = l /\ ~(n < l)
        BY <1>3, <2>2, <3>1
      <4>2. AppUpTo(c, frames, x) = w \o << one >> /\ AppPart(c, frames, x) = << >>
        BY <1>7, <1>10, <2>2, <4>1, Zenon
      <4>3. AppUpTo(c, frames, next) = (w \o << one >>) \o << >> /\ AppPart(c, frames, next) = << >>
        BY <1>4, <1>5, <1>9, <1>10, <2>2, <3>1, Zenon
      <4>4. QED
        BY <1>11, <1>12, <2>2, <4>2, <4>3, Zenon
    <3>2. CASE b # Beats(f)
      <4>1. Before(f, b + 1) = n
        BY <1>3, <2>2, <3>2
      <4>2. /\ AppLast(c, frames, next) = IF for /\ ~(n < l) THEN << Bytes(x[1], l) >> ELSE << >>
            /\ AppPart(c, frames, next) = IF for /\ n < l THEN Bytes(x[1], n) ELSE << >>
        BY <1>8, <3>2, <4>1
      <4>3. AppLast(c, frames, next) = AppLast(c, frames, x) /\ AppPart(c, frames, next) = AppPart(c, frames, x)
        BY <1>7, <4>2
      <4>4. QED
        BY <1>7, <1>8, <3>2, <4>3
    <3>3. QED
      BY <3>1, <3>2
  <2>3. QED
    BY <1>17, <2>1, <2>2
<1>18. AppGrow(c, frames, x, next)
  BY <1>0, <1>2, <1>15, <1>16, <1>17, Zenon DEF for, AppGrow
<1>19. QED
  BY <1>13, <1>18, Zenon DEF next

AppInv ==
    /\ appGot = AppUpTo(core, input, Pos)
    /\ appOpen = AppPart(core, input, Pos)

LEMMA AppStep ==
    ASSUME FeedInv, StackInv, AppInv, NEW idle, NEW echoReady, RxNext(idle, echoReady)
    PROVE  AppInv'
<1> DEFINE takes == HwTakes(idle, echoReady)
           given == UdpSource(idle) /\ takes /\ UdpUser = "app"
<1>1. /\ input' = input /\ core' = core /\ input \in Scripts /\ IsBeat(input, Pos)
      /\ Pos' = IF takes THEN NextBeat(input, Pos) ELSE Pos
  BY FeedStep, HeadFacts DEF RxNext, configVars, FeedInv
<1>2. /\ appOpen' = IF ~given THEN appOpen ELSE IF UdpLast THEN << >> ELSE Append(appOpen, HwByte)
      /\ appGot' = IF given /\ UdpLast THEN Append(appGot, Append(appOpen, HwByte)) ELSE appGot
  BY DEF RxNext, App
<1>3. CASE ~takes
  <2>1. appOpen' = appOpen /\ appGot' = appGot /\ Pos' = Pos
    BY <1>1, <1>2, <1>3
  <2>2. QED
    BY <1>1, <2>1 DEF AppInv
<1>4. CASE takes
  <2>1. Pos[1] <= Len(input) /\ HwValid(idle)
    BY <1>4, HeadFacts DEF HwTakes
  <2>2. PICK f, b : f = input[Pos[1]] /\ b = Pos[2]
    OBVIOUS
  <2>3. HwByte = << Pos[1], b - 2 >>
    BY <2>1, <2>2, View
  <2>4. /\ UdpSource(idle) /\ UdpUser = "app" <=> IsFor(core, f, "app") /\ Carries(f, b)
        /\ UdpSource(idle) /\ UdpUser = "app" => (UdpLast <=> b - 2 = PayloadLength(f))
    <3>1. "app" \in {"tty", "app"} /\ "app" # "tty"
      OBVIOUS
    <3>2. PICK port : port = "app"
      OBVIOUS
    <3>3. /\ (UdpSource(idle) /\ UdpUser = port /\ (port = "tty" => TtyMine)) <=> IsFor(core, f, port) /\ Carries(f, b)
          /\ UdpSource(idle) /\ UdpUser = port /\ (port = "tty" => TtyMine) => (UdpLast <=> b - 2 = PayloadLength(f))
      BY <1>4, <2>2, <3>1, <3>2, Delivers
    <3>4. QED
      BY <3>1, <3>2, <3>3
  <2>5. AppGrow(core, input, Pos, NextBeat(input, Pos))
    BY <1>1, <2>1, AppGrows
  <2>6. appGot = AppUpTo(core, input, Pos) /\ appOpen = AppPart(core, input, Pos) /\ Pos' = NextBeat(input, Pos)
    BY <1>1, <1>4 DEF AppInv
  <2>7. CASE IsFor(core, f, "app") /\ Carries(f, b) /\ b - 2 = PayloadLength(f)
    <3>1. given /\ UdpLast
      BY <1>4, <2>4, <2>7
    <3>2. appGot' = Append(appGot, Append(appOpen, HwByte)) /\ appOpen' = << >>
      BY <1>2, <3>1
    <3>3. QED
      BY <1>1, <2>2, <2>3, <2>5, <2>6, <2>7, <3>2, Zenon DEF AppInv, AppGrow
  <2>8. CASE IsFor(core, f, "app") /\ Carries(f, b) /\ b - 2 # PayloadLength(f)
    <3>1. given /\ ~UdpLast
      BY <1>4, <2>4, <2>8
    <3>2. appGot' = appGot /\ appOpen' = Append(appOpen, HwByte)
      BY <1>2, <3>1
    <3>3. QED
      BY <1>1, <2>2, <2>3, <2>5, <2>6, <2>8, <3>2, Zenon DEF AppInv, AppGrow
  <2>9. CASE ~(IsFor(core, f, "app") /\ Carries(f, b))
    <3>1. ~given
      BY <2>4, <2>9
    <3>2. appGot' = appGot /\ appOpen' = appOpen
      BY <1>2, <3>1
    <3>3. QED
      BY <1>1, <2>2, <2>5, <2>6, <2>9, <3>2, Zenon DEF AppInv, AppGrow
  <2>10. QED
    BY <2>7, <2>8, <2>9
<1>5. QED
  BY <1>3, <1>4

\* What is owed, by the definitions of the property and by those of the proof.
LEMMA OwedIs ==
    ASSUME FeedInv
    PROVE  \A n \in 0 .. Len(input) : /\ TtyOwed(n) = Owed(TtyPieces(core, input), n)
                                      /\ AppOwed(n) = Owed(AppPieces(core, input), n)
<1>1. SUFFICES ASSUME NEW n \in 0 .. Len(input)
      PROVE  TtyOwed(n) = Owed(TtyPieces(core, input), n) /\ AppOwed(n) = Owed(AppPieces(core, input), n)
  OBVIOUS
<1>2. Len(input) \in Nat /\ \A m \in 1 .. n : m \in 1 .. Len(input)
  BY InputFacts DEF FeedInv
<1>3. \A f, port : Concerns(f, port) <=> IsFor(core, f, port)
  BY Zenon DEF Concerns, IsFor
<1>4. [m \in 1 .. n |-> IF Concerns(input[m], "tty") THEN Payload(m) ELSE << >>]
        = [m \in 1 .. n |-> TtyPieces(core, input)[m]]
  BY <1>2, <1>3 DEF TtyPieces, Payload
<1>5. [m \in 1 .. n |-> IF Concerns(input[m], "app") THEN << Payload(m) >> ELSE << >>]
        = [m \in 1 .. n |-> AppPieces(core, input)[m]]
  BY <1>2, <1>3 DEF AppPieces, Payload
<1>6. QED
  BY <1>4, <1>5, Zenon DEF TtyOwed, AppOwed, Owed

LEMMA MiddleOf ==
    ASSUME NEW S, NEW w \in Seq(S), NEW part \in Seq(S), NEW rest \in Seq(S), NEW more \in Seq(S)
    PROVE  IsPrefix(w, w \o part) /\ IsPrefix(w \o part, (w \o (part \o rest)) \o more)
<1>1. w \o part \in Seq(S) /\ rest \o more \in Seq(S)
  BY ConcatProperties
<1>2. PICK a : a = w \o part
  OBVIOUS
<1>3. a \in Seq(S)
  BY <1>1, <1>2
<1>4. (w \o part) \o rest = w \o (part \o rest) /\ (a \o rest) \o more = a \o (rest \o more)
  <2>1. (w \o part) \o rest = w \o (part \o rest)
    BY ConcatAssociative
  <2>2. (a \o rest) \o more = a \o (rest \o more)
    BY <1>3, ConcatAssociative
  <2>3. QED
    BY <2>1, <2>2
<1>5. IsPrefix(w, w \o part) /\ IsPrefix(w \o part, (w \o part) \o (rest \o more))
  BY <1>1, PrefixOfConcat
<1>6. QED
  BY <1>2, <1>4, <1>5

\* What a user has got is some of what the frames so far owe, and all of what those before do.
LEMMA Between ==
    ASSUME NEW S, NEW u, NEW N \in Nat, \A m \in 1 .. N : u[m] \in Seq(S), NEW n \in 1 .. N
    PROVE  /\ \A part, rest \in Seq(S) : u[n] = part \o rest =>
                /\ IsPrefix(Owed(u, n - 1), Owed(u, n - 1) \o part)
                /\ IsPrefix(Owed(u, n - 1) \o part, Owed(u, N))
           /\ Owed(u, n - 1) \in Seq(S)
           /\ \E more \in Seq(S) : Owed(u, N) = (Owed(u, n - 1) \o u[n]) \o more
<1>1. n \in 0 .. N /\ n - 1 \in 0 .. N
  OBVIOUS
<1>2. /\ Owed(u, n - 1) \in Seq(S) /\ Owed(u, n) = Owed(u, n - 1) \o u[n]
      /\ \E more \in Seq(S) : Owed(u, N) = Owed(u, n) \o more
  <2>1. /\ \A m \in 0 .. N : Owed(u, m) \in Seq(S)
        /\ \A m \in 1 .. N : Owed(u, m) = Owed(u, m - 1) \o u[m]
        /\ \A m \in 0 .. N : \E more \in Seq(S) : Owed(u, N) = Owed(u, m) \o more
    BY OwedFacts
  <2>2. QED
    BY <1>1, <2>1
<1>3. PICK more \in Seq(S) : Owed(u, N) = (Owed(u, n - 1) \o u[n]) \o more
  BY <1>2
<1>4. PICK w \in Seq(S) : w = Owed(u, n - 1)
  BY <1>2
<1>5. \A part, rest \in Seq(S) : IsPrefix(w, w \o part) /\ IsPrefix(w \o part, (w \o (part \o rest)) \o more)
  BY MiddleOf
<1>6. QED
  BY <1>2, <1>3, <1>4, <1>5

LEMMA Nothing == ASSUME NEW S PROVE << >> \in Seq(S) /\ << >> \o << >> = << >>
<1>1. << >> \in Seq(S)
  OBVIOUS
<1>2. QED
  BY <1>1, ConcatEmptySeq

LEMMA PrefixItself == ASSUME NEW S, NEW s \in Seq(S) PROVE IsPrefix(s, s)
<1>1. << >> \in Seq(S) /\ s \o << >> = s
  BY ConcatEmptySeq
<1>2. PICK e \in Seq(S) : e = << >>
  BY <1>1
<1>3. IsPrefix(s, s \o e)
  BY PrefixOfConcat
<1>4. QED
  BY <1>1, <1>2, <1>3

LEMMA PartOf ==
    ASSUME NEW S, NEW u, NEW N \in Nat, \A m \in 1 .. N : u[m] \in Seq(S), NEW n \in 1 .. N + 1,
           NEW part \in Seq(S), n <= N => \E rest \in Seq(S) : u[n] = part \o rest, n > N => part = << >>
    PROVE  IsPrefix(Owed(u, n - 1), Owed(u, n - 1) \o part) /\ IsPrefix(Owed(u, n - 1) \o part, Owed(u, N))
<1>1. CASE n <= N
  <2>1. n \in 1 .. N
    BY <1>1
  <2>2. \A a, rest \in Seq(S) : u[n] = a \o rest =>
             /\ IsPrefix(Owed(u, n - 1), Owed(u, n - 1) \o a)
             /\ IsPrefix(Owed(u, n - 1) \o a, Owed(u, N))
    BY <2>1, Between
  <2>3. PICK rest \in Seq(S) : u[n] = part \o rest
    BY <1>1
  <2>4. QED
    BY <2>2, <2>3, Zenon
<1>2. CASE n > N
  <2>1. n - 1 = N /\ N \in 0 .. N /\ part = << >>
    BY <1>2
  <2>2. PICK w : w = Owed(u, N)
    OBVIOUS
  <2>3. w \in Seq(S)
    BY <2>1, <2>2, OwedFacts
  <2>4. w \o << >> = w /\ IsPrefix(w, w)
    BY <2>3, ConcatEmptySeq, PrefixItself
  <2>5. QED
    BY <2>1, <2>2, <2>4, Zenon
<1>3. QED
  BY <1>1, <1>2

\* At any beat the streamer's user has what is owed of the frames before, and is owed what it has.
LEMMA TtyBetween ==
    ASSUME NEW c, NEW frames \in Scripts, NEW x, IsBeat(frames, x)
    PROVE  /\ IsPrefix(Owed(TtyPieces(c, frames), x[1] - 1), TtyUpTo(c, frames, x))
           /\ IsPrefix(TtyUpTo(c, frames, x), Owed(TtyPieces(c, frames), Len(frames)))
<1>1. PICK S, u, N, part : S = Nat \X Nat /\ u = TtyPieces(c, frames) /\ N = Len(frames) /\ part = TtyRest(c, frames, x)
  OBVIOUS
<1>2. N \in Nat /\ x[1] \in 1 .. N + 1
  BY <1>1, InputFacts DEF IsBeat
<1>3. \A m \in 1 .. N : u[m] \in Seq(S)
  BY <1>1, TtyTyped
<1>4. x[1] > N => part = << >>
  BY <1>1, <1>2 DEF TtyRest
<1>5. part \in Seq(S) /\ (x[1] <= N => \E rest \in Seq(S) : u[x[1]] = part \o rest)
  <2>1. CASE x[1] <= N /\ IsFor(c, frames[x[1]], "tty")
    <3>1. PICK f, b : f = frames[x[1]] /\ b = x[2]
      OBVIOUS
    <3>2. /\ x[1] \in 1 .. N /\ x[1] \in Nat /\ b \in 1 .. Beats(f) /\ f.size \in Nat \ {0}
          /\ f.length \in Nat /\ Beats(f) = 2 + f.size
      BY <1>1, <2>1, <3>1, AtBeat
    <3>3. Before(f, b) \in Nat /\ PayloadLength(f) \in Nat /\ Before(f, b) <= PayloadLength(f)
      BY <3>2, BeforeFacts
    <3>4. u[x[1]] = Bytes(x[1], PayloadLength(f)) /\ part = Bytes(x[1], Before(f, b))
      BY <1>1, <2>1, <3>1, <3>2, TtyTyped DEF TtyRest
    <3>5. /\ Bytes(x[1], Before(f, b)) \in Seq(Nat \X Nat)
          /\ \E rest \in Seq(Nat \X Nat) : Bytes(x[1], PayloadLength(f)) = Bytes(x[1], Before(f, b)) \o rest
      BY <3>2, <3>3, BytesFacts, BytesSplit
    <3>6. QED
      BY <1>1, <3>4, <3>5
  <2>2. CASE x[1] <= N /\ ~IsFor(c, frames[x[1]], "tty")
    <3>1. x[1] \in 1 .. N /\ u[x[1]] = << >> /\ part = << >>
      BY <1>1, <1>2, <2>2, TtyTyped DEF TtyRest
    <3>2. << >> \in Seq(S) /\ << >> \o << >> = << >>
      BY Nothing, Zenon
    <3>3. QED
      BY <3>1, <3>2, Zenon
  <2>3. CASE x[1] > N
    <3>1. part \in Seq(S)
      BY <1>4, <2>3, Nothing, Zenon
    <3>2. QED
      BY <1>2, <2>3, <3>1
  <2>4. x[1] <= N \/ x[1] > N
    BY <1>2
  <2>5. QED
    BY <2>1, <2>2, <2>3, <2>4, Zenon
<1>6. IsPrefix(Owed(u, x[1] - 1), Owed(u, x[1] - 1) \o part) /\ IsPrefix(Owed(u, x[1] - 1) \o part, Owed(u, N))
  <2>1. PICK n \in 1 .. N + 1 : n = x[1]
    BY <1>2
  <2>2. /\ n > N => part = << >>
        /\ n <= N => \E rest \in Seq(S) : u[n] = part \o rest
    BY <1>4, <1>5, <2>1
  <2>3. QED
    BY <1>2, <1>3, <1>5, <2>1, <2>2, PartOf
<1>7. QED
  BY <1>1, <1>6, Zenon DEF TtyUpTo

\* The pieces are sequences over S, and what is owed of N goes on behind those before n, and n.
Pieces(u, N, S) == \A m \in 1 .. N : u[m] \in Seq(S)
GoesOn(u, n, N, S) ==
    Owed(u, n - 1) \in Seq(S) /\ \E more \in Seq(S) : Owed(u, N) = (Owed(u, n - 1) \o u[n]) \o more

LEMMA Beyond ==
    ASSUME NEW S, NEW u, NEW N \in Nat, Pieces(u, N, S), NEW n \in 1 .. N
    PROVE  GoesOn(u, n, N, S)
<1>1. n \in 0 .. N /\ n - 1 \in 0 .. N
  OBVIOUS
<1>2. \A m \in 1 .. N : u[m] \in Seq(S)
  BY DEF Pieces
<1>3. /\ \A m \in 0 .. N : Owed(u, m) \in Seq(S)
      /\ \A m \in 1 .. N : Owed(u, m) = Owed(u, m - 1) \o u[m]
      /\ \A m \in 0 .. N : \E more \in Seq(S) : Owed(u, N) = Owed(u, m) \o more
  BY <1>2, OwedFacts
<1>4. QED
  BY <1>1, <1>3 DEF GoesOn

LEMMA After ==
    ASSUME NEW S, NEW w \in Seq(S), NEW one \in S, NEW all, \E more \in Seq(S) : all = (w \o << one >>) \o more
    PROVE  Len(all) > Len(w) /\ all[Len(w) + 1] = one
<1>1. PICK more \in Seq(S) : all = (w \o << one >>) \o more
  OBVIOUS
<1>2. w \o << one >> = Append(w, one) /\ Append(w, one) \in Seq(S)
  BY AppendIsConcat, AppendProperties
<1>3. Len(Append(w, one)) = Len(w) + 1 /\ Append(w, one)[Len(w) + 1] = one /\ Len(w) \in Nat /\ Len(more) \in Nat
  BY AppendProperties, LenProperties
<1>4. /\ Len(Append(w, one) \o more) = Len(Append(w, one)) + Len(more)
      /\ (Append(w, one) \o more)[Len(w) + 1] = Append(w, one)[Len(w) + 1]
  BY <1>2, <1>3, ConcatProperties
<1>5. QED
  BY <1>1, <1>2, <1>3, <1>4

\* And so the user of the other port, who has got part of the next datagram owed.
LEMMA AppBetween ==
    ASSUME NEW c, NEW frames \in Scripts, NEW x, IsBeat(frames, x)
    PROVE  /\ IsPrefix(Owed(AppPieces(c, frames), x[1] - 1), AppUpTo(c, frames, x))
           /\ IsPrefix(AppUpTo(c, frames, x), Owed(AppPieces(c, frames), Len(frames)))
           /\ AppPart(c, frames, x) # << >> =>
                LET all == Owed(AppPieces(c, frames), Len(frames))
                    got == Len(AppUpTo(c, frames, x))
                IN  Len(all) > got /\ IsPrefix(AppPart(c, frames, x), all[got + 1])
<1>1. PICK S, u, N, part : S = Seq(Places) /\ u = AppPieces(c, frames) /\ N = Len(frames) /\ part = AppLast(c, frames, x)
  OBVIOUS
<1>2. N \in Nat /\ x[1] \in 1 .. N + 1
  BY <1>1, InputFacts DEF IsBeat
<1>3. \A m \in 1 .. N : u[m] \in Seq(S)
  BY <1>1, AppTyped
<1>4. x[1] > N => part = << >>
  BY <1>1, <1>2 DEF AppLast
<1>5. part \in Seq(S) /\ (x[1] <= N => \E rest \in Seq(S) : u[x[1]] = part \o rest)
  <2>1. CASE x[1] <= N
    <3>1. x[1] \in 1 .. N /\ u[x[1]] \in Seq(S)
      BY <1>2, <1>3, <2>1
    <3>2. part = << >> \/ part = u[x[1]]
      <4>1. u[x[1]] = IF IsFor(c, frames[x[1]], "app") THEN << Bytes(x[1], PayloadLength(frames[x[1]])) >> ELSE << >>
        BY <1>1, <3>1, AppTyped
      <4>2. QED
        BY <1>1, <4>1, Zenon DEF AppLast
    <3>3. PICK piece \in Seq(S) : piece = u[x[1]]
      BY <3>1
    <3>4. << >> \o piece = piece /\ piece \o << >> = piece
      BY ConcatEmptySeq
    <3>5. << >> \in Seq(S)
      BY Nothing, Zenon
    <3>6. QED
      BY <3>2, <3>3, <3>4, <3>5, Zenon
  <2>2. CASE x[1] > N
    <3>1. part \in Seq(S)
      BY <1>4, <2>2, Nothing, Zenon
    <3>2. ~(x[1] <= N)
      BY <1>2, <2>2
    <3>3. QED
      BY <3>1, <3>2, Zenon
  <2>3. x[1] <= N \/ x[1] > N
    BY <1>2
  <2>4. QED
    BY <2>1, <2>2, <2>3, Zenon
<1>6. IsPrefix(Owed(u, x[1] - 1), Owed(u, x[1] - 1) \o part) /\ IsPrefix(Owed(u, x[1] - 1) \o part, Owed(u, N))
  <2>1. PICK n \in 1 .. N + 1 : n = x[1]
    BY <1>2
  <2>2. /\ n > N => part = << >>
        /\ n <= N => \E rest \in Seq(S) : u[n] = part \o rest
    BY <1>4, <1>5, <2>1
  <2>3. QED
    BY <1>2, <1>3, <1>5, <2>1, <2>2, PartOf
<1>7. ASSUME AppPart(c, frames, x) # << >>
      PROVE  /\ Len(Owed(u, N)) > Len(AppUpTo(c, frames, x))
             /\ IsPrefix(AppPart(c, frames, x), Owed(u, N)[Len(AppUpTo(c, frames, x)) + 1])
  <2>1. PICK f, b : f = frames[x[1]] /\ b = x[2]
    OBVIOUS
  <2>2. /\ x[1] <= N /\ IsFor(c, f, "app") /\ AppLast(c, frames, x) = << >>
        /\ AppPart(c, frames, x) = Bytes(x[1], Before(f, b))
    BY <1>1, <1>7, <2>1, Zenon DEF AppPart, AppLast
  <2>3. /\ x[1] \in 1 .. N /\ x[1] \in Nat /\ b \in 1 .. Beats(f) /\ f.size \in Nat \ {0}
        /\ f.length \in Nat /\ Beats(f) = 2 + f.size
    BY <1>1, <2>1, <2>2, AtBeat
  <2>4. Before(f, b) \in Nat /\ PayloadLength(f) \in Nat /\ Before(f, b) <= PayloadLength(f)
    BY <2>3, BeforeFacts
  <2>5. u[x[1]] = << Bytes(x[1], PayloadLength(f)) >>
    BY <1>1, <2>1, <2>2, <2>3, AppTyped
  <2>6. IsPrefix(Bytes(x[1], Before(f, b)), Bytes(x[1], PayloadLength(f)))
    <3>1. PICK rest \in Seq(Nat \X Nat) : Bytes(x[1], PayloadLength(f)) = Bytes(x[1], Before(f, b)) \o rest
      BY <2>3, <2>4, BytesSplit
    <3>2. Bytes(x[1], Before(f, b)) \in Seq(Nat \X Nat)
      BY <2>3, <2>4, BytesFacts
    <3>3. IsPrefix(Bytes(x[1], Before(f, b)), Bytes(x[1], Before(f, b)) \o rest)
      BY <3>2, PrefixOfConcat
    <3>4. QED
      BY <3>1, <3>3, Zenon
  <2>7. PICK w, one : w = Owed(u, x[1] - 1) /\ one = Bytes(x[1], PayloadLength(f))
    OBVIOUS
  <2>8. PICK n \in 1 .. N : n = x[1]
    BY <2>3
  <2>9. w \in Seq(S) /\ \E more \in Seq(S) : Owed(u, N) = (w \o << one >>) \o more
    <3>1. Pieces(u, N, S)
      BY <1>3 DEF Pieces
    <3>2. GoesOn(u, n, N, S)
      BY <1>2, <3>1, Beyond
    <3>3. Owed(u, n - 1) = w /\ u[n] = << one >>
      BY <2>5, <2>7, <2>8
    <3>4. QED
      BY <3>2, <3>3, Zenon DEF GoesOn
  <2>10. one \in S
    BY <1>1, <2>1, <2>2, <2>3, <2>7, AppTyped
  <2>11. AppUpTo(c, frames, x) = w
    <3>1. AppUpTo(c, frames, x) = w \o << >>
      BY <1>1, <2>2, <2>7, Zenon DEF AppUpTo
    <3>2. w \o << >> = w
      BY <2>9, ConcatEmptySeq
    <3>3. QED
      BY <3>1, <3>2, Zenon
  <2>12. Len(Owed(u, N)) > Len(w) /\ Owed(u, N)[Len(w) + 1] = one
    BY <2>9, <2>10, After
  <2>13. QED
    BY <2>2, <2>6, <2>7, <2>11, <2>12, Zenon
<1>8. QED
  BY <1>1, <1>6, <1>7, Zenon DEF AppUpTo

LEMMA DeliveredIs == ASSUME FeedInv, TtyInv, AppInv PROVE DeliveredIntact
<1>1. input \in Scripts /\ IsBeat(input, Pos) /\ Done = Pos[1] - 1
  BY HeadFacts DEF FeedInv
<1>2. Len(input) \in 0 .. Len(input) /\ Done \in 0 .. Len(input)
  <2>1. Len(input) \in Nat /\ Pos[1] \in 1 .. Len(input) + 1
    BY <1>1, InputFacts DEF IsBeat
  <2>2. QED
    BY <1>1, <2>1
<1>3. /\ TtyOwed(Done) = Owed(TtyPieces(core, input), Pos[1] - 1)
      /\ TtyOwed(Len(input)) = Owed(TtyPieces(core, input), Len(input))
      /\ AppOwed(Done) = Owed(AppPieces(core, input), Pos[1] - 1)
      /\ AppOwed(Len(input)) = Owed(AppPieces(core, input), Len(input))
  <2>1. \A n \in 0 .. Len(input) : /\ TtyOwed(n) = Owed(TtyPieces(core, input), n)
                                   /\ AppOwed(n) = Owed(AppPieces(core, input), n)
    BY OwedIs
  <2>2. QED
    BY <1>1, <1>2, <2>1, Zenon
<1>4. /\ IsPrefix(Owed(TtyPieces(core, input), Pos[1] - 1), TtyUpTo(core, input, Pos))
      /\ IsPrefix(TtyUpTo(core, input, Pos), Owed(TtyPieces(core, input), Len(input)))
  BY <1>1, TtyBetween
<1>5. /\ IsPrefix(Owed(AppPieces(core, input), Pos[1] - 1), AppUpTo(core, input, Pos))
      /\ IsPrefix(AppUpTo(core, input, Pos), Owed(AppPieces(core, input), Len(input)))
      /\ AppPart(core, input, Pos) # << >> =>
           /\ Len(Owed(AppPieces(core, input), Len(input))) > Len(AppUpTo(core, input, Pos))
           /\ IsPrefix(AppPart(core, input, Pos),
                       Owed(AppPieces(core, input), Len(input))[Len(AppUpTo(core, input, Pos)) + 1])
  BY <1>1, AppBetween
<1>6. /\ ttyGot \o rx_fifo = TtyUpTo(core, input, Pos)
      /\ appGot = AppUpTo(core, input, Pos) /\ appOpen = AppPart(core, input, Pos)
  BY DEF TtyInv, AppInv
<1>7. QED
  BY <1>3, <1>4, <1>5, <1>6, Zenon DEF DeliveredIntact

-----------------------------------------------------------------------------
(* The receive path's theorems. *)

RxInv == FeedInv /\ CpuInv /\ StackInv /\ TtyInv /\ AppInv

LEMMA RxInvInit == ASSUME RxInit PROVE RxInv
<1>1. /\ mac \in {"crossbar", "filter"} /\ core \in {"full", "small"} /\ input \in Scripts
      /\ k = 1 /\ i = 1 /\ held = FALSE /\ hw_fifo = << >> /\ cpu_fifo = << >>
      /\ arpRx = "IDLE" /\ ipRx = "IDLE" /\ udpRx = "IDLE" /\ icmpRx = "IDLE"
      /\ checksum = 0 /\ count = 0 /\ rx_fifo = << >>
      /\ cpuGot = << >> /\ ttyGot = << >> /\ appGot = << >> /\ appOpen = << >>
  BY DEF RxInit
<1>2. Len(input) \in Nat /\ \A n \in 1 .. Len(input) : Beats(input[n]) \in Nat \ {0}
  BY <1>1, InputFacts
<1>3. MacFifoDepth \in Nat /\ RxFifoDepth \in Nat /\ ChecksumCycles \in Nat
  BY RxAssumption DEF RxAssumption
<1>4. IsBeat(input, << k, i >>) /\ Pos = << 1, 1 >>
  <2>1. << k, i >> = << 1, 1 >> /\ Pos = << k, i >>
    BY <1>1 DEF Pos
  <2>2. IsBeat(input, << 1, 1 >>)
    BY <1>2 DEF IsBeat
  <2>3. QED
    BY <2>1, <2>2, Zenon
<1>5. FeedInv
  <2>1. Chain(input, << >>, << k, i >>)
    BY DEF Chain
  <2>2. << >> \in Seq(Nat \X Nat) /\ Len(<< >>) <= MacFifoDepth
    BY <1>3
  <2>3. QED
    BY <1>1, <1>4, <2>1, <2>2 DEF FeedInv
<1>6. \A u : Owed(u, 0) = << >>
  BY FlattenNone, Zenon DEF Owed
<1>7. 1 - 1 = 0 /\ << 1, 1 >>[1] = 1 /\ << 1, 1 >>[2] = 1
  OBVIOUS
<1>8. << >> \o << >> = << >> /\ << >> \in Seq(Nat \X Nat) /\ Len(<< >>) = 0
  BY Nothing
<1>9. 1 <= Len(input) /\ input[1].type = "ip" => PayloadLength(input[1]) \in Nat \ {0} /\ Before(input[1], 1) = 0
  <2>1. SUFFICES ASSUME 1 <= Len(input), input[1].type = "ip"
        PROVE  PayloadLength(input[1]) \in Nat \ {0} /\ Before(input[1], 1) = 0
    OBVIOUS
  <2>2. 1 \in 1 .. Len(input)
    BY <1>2, <2>1
  <2>3. /\ input[1].size \in 1 .. Max16 /\ input[1].length \in 0 .. Max16 - 8
        /\ Beats(input[1]) = 2 + input[1].size
    BY <1>1, <2>1, <2>2, InputFacts
  <2>4. /\ input[1].size \in Nat \ {0} /\ input[1].length \in Nat
        /\ 1 \in 1 .. Beats(input[1])
    BY <2>3, WidthNat
  <2>5. QED
    BY <2>3, <2>4, BeforeFacts
<1>10. TtyInv
  <2>1. TtyRest(core, input, << 1, 1 >>) = << >>
    <3>1. CASE 1 <= Len(input) /\ IsFor(core, input[1], "tty")
      <4>1. input[1].type = "ip"
        BY <3>1 DEF IsFor
      <4>2. Before(input[1], 1) = 0
        BY <1>9, <3>1, <4>1
      <4>3. Bytes(1, 0) = << >>
        BY BytesFacts
      <4>4. QED
        BY <1>7, <3>1, <4>2, <4>3, Zenon DEF TtyRest
    <3>2. CASE ~(1 <= Len(input) /\ IsFor(core, input[1], "tty"))
      BY <1>7, <3>2, Zenon DEF TtyRest
    <3>3. QED
      BY <3>1, <3>2
  <2>2. TtyUpTo(core, input, Pos) = << >>
    BY <1>4, <1>6, <1>7, <1>8, <2>1, Zenon DEF TtyUpTo
  <2>3. QED
    BY <1>1, <1>3, <1>8, <2>2 DEF TtyInv
<1>11. AppInv
  <2>1. AppPart(core, input, << 1, 1 >>) = << >> /\ AppLast(core, input, << 1, 1 >>) = << >>
    <3>1. CASE 1 <= Len(input) /\ IsFor(core, input[1], "app")
      <4>1. input[1].type = "ip"
        BY <3>1 DEF IsFor
      <4>2. Before(input[1], 1) = 0 /\ Unfinished(input[1], 1)
        BY <1>9, <3>1, <4>1 DEF Unfinished
      <4>3. Bytes(1, 0) = << >>
        BY BytesFacts
      <4>4. QED
        BY <1>7, <3>1, <4>2, <4>3, Zenon DEF AppPart, AppLast
    <3>2. CASE ~(1 <= Len(input) /\ IsFor(core, input[1], "app"))
      BY <1>7, <3>2, Zenon DEF AppPart, AppLast
    <3>3. QED
      BY <3>1, <3>2
  <2>2. AppUpTo(core, input, Pos) = << >>
    BY <1>4, <1>6, <1>7, <1>8, <2>1, Zenon DEF AppUpTo
  <2>3. QED
    BY <1>1, <1>4, <2>1, <2>2, Zenon DEF AppInv
<1>12. StackInv
  <2>1. ReceiverTypes
    BY <1>1, <1>3, WidthNat DEF ReceiverTypes
  <2>2. AllIdle
    BY <1>1 DEF AllIdle
  <2>3. ReceiverInv(input[1], 1)
    BY <1>1 DEF ReceiverInv, Bodied
  <2>4. QED
    BY <1>4, <1>7, <2>1, <2>2, <2>3, Zenon DEF StackInv
<1>13. CpuInv
  <2>1. CpuUpTo(input, << 1, 1 >>) = << >>
    <3>1. CpuRest(input, << 1, 1 >>) = << >>
      <4>1. Bytes(1, 0) = << >>
        BY BytesFacts
      <4>2. QED
        BY <1>7, <4>1, Zenon DEF CpuRest
    <3>2. CpuWhole(input, 0) = << >>
      <4>1. PICK u : u = [m \in 1 .. 0 |-> CpuPiece(input, m)]
        OBVIOUS
      <4>2. [m \in 1 .. 0 |-> u[m]] = [m \in 1 .. 0 |-> CpuPiece(input, m)]
        BY <4>1
      <4>3. QED
        BY <4>2, FlattenNone, Zenon DEF CpuWhole
    <3>3. QED
      BY <1>7, <1>8, <3>1, <3>2, Zenon DEF CpuUpTo
  <2>2. CpuCopies
    BY <1>1, <1>5, <1>8, <2>1, CpuCopiesIs
  <2>3. QED
    BY <1>1, <1>3, <1>8, <2>2 DEF CpuInv
<1>14. QED
  BY <1>5, <1>10, <1>11, <1>12, <1>13 DEF RxInv

LEMMA RxInvStep == ASSUME RxInv, [Next]_vars PROVE RxInv'
<1>1. FeedInv /\ CpuInv /\ StackInv /\ TtyInv /\ AppInv
  BY DEF RxInv
<1>2. ASSUME NEW idle, NEW echoReady, RxNext(idle, echoReady) PROVE RxInv'
  <2>1. Broadcast(idle, echoReady) /\ UNCHANGED configVars
    BY <1>2 DEF RxNext
  <2>2. FeedInv'
    BY <1>1, <2>1, FeedStep
  <2>3. CpuInv'
    BY <1>1, <2>1, CpuStep
  <2>4. StackInv'
    BY <1>1, <1>2, StackStep
  <2>5. TtyInv'
    BY <1>1, <1>2, TtyStep
  <2>6. AppInv'
    BY <1>1, <1>2, AppStep
  <2>7. QED
    BY <2>2, <2>3, <2>4, <2>5, <2>6 DEF RxInv
<1>3. CASE UNCHANGED vars
  <2>1. UNCHANGED configVars /\ UNCHANGED rxVars
    BY <1>3 DEF vars
  <2>2. FeedInv'
    BY <1>1, <2>1 DEF FeedInv, configVars, rxVars
  <2>3. CpuInv'
    BY <1>1, <2>1 DEF CpuInv, CpuCopies, CpuOwed, CpuPart, configVars, rxVars
  <2>4. Pos' = Pos
    BY <2>1 DEF Pos, configVars, rxVars
  <2>5. StackInv'
    BY <1>1, <2>1, <2>4 DEF StackInv, ReceiverTypes, ReceiverInv, IpUserOf, AllIdle, configVars, rxVars
  <2>6. TtyInv' /\ AppInv'
    BY <1>1, <2>1, <2>4 DEF TtyInv, AppInv, configVars, rxVars
  <2>7. QED
    BY <2>2, <2>3, <2>5, <2>6 DEF RxInv
<1>4. CASE Next
  <2>1. PICK idle \in Idlers : Cycle(idle)
    BY <1>4 DEF Next
  <2>2. RxNext(idle, EchoReady)
    BY <2>1 DEF Cycle
  <2>3. QED
    BY <1>2, <2>2
<1>5. QED
  BY <1>3, <1>4

LEMMA RxInvAlways == Spec => []RxInv
<1>1. Init => RxInv
  BY RxInvInit DEF Init
<1>2. RxInv /\ [Next]_vars => RxInv'
  BY RxInvStep
<1>3. QED
  BY <1>1, <1>2, PTL DEF Spec

\* Every datagram for one of the two ports comes out once, whole, in order and cut to
\* the UDP length, for all frames, FIFO depths and stalls (IPRX, UDPRX,
\* LiteEthUDP2StreamRX, LiteEthMACCoreCrossbar).
THEOREM DatagramsIntact == Spec => []DeliveredIntact
<1>1. RxInv => DeliveredIntact
  BY DeliveredIs DEF RxInv
<1>2. QED
  BY <1>1, RxInvAlways, PTL

\* With the MAC filter the CPU gets its copy of every frame that is not the stack's,
\* each beat once and in order, whatever the two FIFOs' fill and the readers' pace
\* (LiteEthMACCoreCrossbar with hw_mac).
THEOREM CpuGetsCopies == Spec => []CpuCopies
<1>1. RxInv => CpuCopies
  BY DEF RxInv, CpuInv
<1>2. QED
  BY <1>1, RxInvAlways, PTL

-----------------------------------------------------------------------------
(* The streamer's bytes are numbered as they are written. *)

From(n, length) == [j \in 1 .. length |-> n + j]

LEMMA FromTyped ==
    ASSUME NEW a \in Nat, NEW b \in Nat
    PROVE  From(a, b) \in Seq(Nat) /\ Len(From(a, b)) = b /\ \A j \in 1 .. b : From(a, b)[j] = a + j
  BY DEF From

LEMMA FromFacts ==
    ASSUME NEW a \in Nat, NEW b \in Nat
    PROVE  /\ From(a, b) \in Seq(Nat) /\ Len(From(a, b)) = b
           /\ From(a, 0) = << >>
           /\ Append(From(a, b), a + b + 1) = From(a, b + 1)
           /\ From(a, b) \o << a + b + 1 >> = From(a, b + 1)
           /\ From(a, b) \o << >> = From(a, b)
           /\ b > 0 => From(a, b) # << >> /\ Head(From(a, b)) = a + 1 /\ Tail(From(a, b)) = From(a + 1, b - 1)
<1>1. From(a, b) \in Seq(Nat) /\ Len(From(a, b)) = b /\ From(a, 0) = << >>
  BY DEF From
<1>2. Append(From(a, b), a + b + 1) = From(a, b + 1)
  BY DEF From
<1>3. From(a, b) \o << a + b + 1 >> = Append(From(a, b), a + b + 1)
  BY <1>1, AppendIsConcat
<1>4. From(a, b) \o << >> = From(a, b)
  BY <1>1, ConcatEmptySeq
<1>5. ASSUME b > 0
      PROVE  From(a, b) # << >> /\ Head(From(a, b)) = a + 1 /\ Tail(From(a, b)) = From(a + 1, b - 1)
  <2>1. PICK q : q = From(a, b)
    OBVIOUS
  <2>2. q \in Seq(Nat) /\ Len(q) = b /\ q # << >> /\ \A j \in 1 .. b : q[j] = a + j
    <3>1. \A j \in 1 .. b : From(a, b)[j] = a + j
      BY DEF From
    <3>2. q \in Seq(Nat) /\ Len(q) = b /\ \A j \in 1 .. b : q[j] = a + j
      BY <1>1, <2>1, <3>1
    <3>3. QED
      BY <1>5, <3>2
  <2>3. /\ Head(q) = q[1] /\ Tail(q) \in Seq(Nat) /\ Len(Tail(q)) = b - 1
        /\ \A j \in 1 .. b - 1 : Tail(q)[j] = q[j + 1]
    BY <2>2, TailFacts
  <2>4. Head(q) = a + 1 /\ \A j \in 1 .. b - 1 : Tail(q)[j] = a + 1 + j
    BY <1>5, <2>2, <2>3
  <2>5. /\ From(a + 1, b - 1) \in Seq(Nat) /\ Len(From(a + 1, b - 1)) = b - 1
        /\ \A j \in 1 .. b - 1 : From(a + 1, b - 1)[j] = a + 1 + j
    <3>1. a + 1 \in Nat /\ b - 1 \in Nat
      BY <1>5
    <3>2. QED
      BY <3>1, FromTyped, Zenon
  <2>6. Tail(q) = From(a + 1, b - 1)
    <3>1. PICK t, u, m : t = Tail(q) /\ u = From(a + 1, b - 1) /\ m = b - 1
      OBVIOUS
    <3>2. t \in Seq(Nat) /\ u \in Seq(Nat) /\ Len(t) = m /\ Len(u) = m /\ \A j \in 1 .. m : t[j] = u[j]
      BY <2>3, <2>4, <2>5, <3>1
    <3>3. t = u
      BY <3>2, SeqEqual
    <3>4. QED
      BY <3>1, <3>3
  <2>7. QED
    BY <2>1, <2>2, <2>4, <2>6
<1>6. QED
  BY <1>1, <1>2, <1>3, <1>4, <1>5

LEMMA FromJoins ==
    ASSUME NEW a \in Nat, NEW b \in Nat
    PROVE  From(0, a) \o From(a, b) = From(0, a + b)
<1>1. PICK s, t, u : s = From(0, a) /\ t = From(a, b) /\ u = From(0, a + b)
  OBVIOUS
<1>2. /\ s \in Seq(Nat) /\ Len(s) = a /\ \A n \in 1 .. a : s[n] = n
      /\ t \in Seq(Nat) /\ Len(t) = b /\ \A n \in 1 .. b : t[n] = a + n
      /\ u \in Seq(Nat) /\ Len(u) = a + b /\ \A n \in 1 .. a + b : u[n] = n
  BY <1>1 DEF From
<1>3. /\ s \o t \in Seq(Nat) /\ Len(s \o t) = a + b
      /\ \A n \in 1 .. a + b : (s \o t)[n] = IF n <= a THEN s[n] ELSE t[n - a]
  <2>1. s \in Seq(Nat) /\ t \in Seq(Nat) /\ Len(s) = a /\ Len(t) = b
    BY <1>2
  <2>2. /\ s \o t \in Seq(Nat) /\ Len(s \o t) = Len(s) + Len(t)
        /\ \A n \in 1 .. Len(s) + Len(t) : (s \o t)[n] = IF n <= Len(s) THEN s[n] ELSE t[n - Len(s)]
    BY <2>1, ConcatProperties
  <2>3. QED
    BY <2>1, <2>2, Zenon
<1>4. \A n \in 1 .. a + b : (s \o t)[n] = u[n]
  <2>1. SUFFICES ASSUME NEW n \in 1 .. a + b PROVE (IF n <= a THEN s[n] ELSE t[n - a]) = n
    BY <1>2, <1>3
  <2>2. CASE n <= a
    BY <1>2, <2>2
  <2>3. CASE ~(n <= a)
    BY <1>2, <2>3
  <2>4. QED
    BY <2>2, <2>3
<1>5. s \o t = u
  BY <1>2, <1>3, <1>4, SeqEqual
<1>6. QED
  BY <1>1, <1>5

\* The streamer's FIFO, read and written in one cycle.
MayMove(w, n, pops, m) ==
    w \in Nat /\ n \in Nat /\ n <= w /\ (pops => n > 0) /\ m \in Nat /\ m = IF pops THEN n - 1 ELSE n
Moved(w, n, pops, m) ==
    /\ Left(From(w - n, n), pops) \o << w + 1 >> = From(w - m, m + 1)
    /\ Left(From(w - n, n), pops) \o << >> = From(w - m, m)
    /\ n > 0 => Head(From(w - n, n)) = w - n + 1

LEMMA FifoMoves == ASSUME NEW w, NEW n, NEW pops, NEW m, MayMove(w, n, pops, m) PROVE Moved(w, n, pops, m)
<1>0. w \in Nat /\ n \in Nat /\ n <= w /\ (pops => n > 0) /\ m \in Nat /\ m = IF pops THEN n - 1 ELSE n
  BY DEF MayMove
<1> DEFINE q == From(w - n, n)
<1>1. w - n \in Nat /\ w - m \in Nat /\ m <= n /\ (n > 0 => w - n + 1 = w - (n - 1))
  BY <1>0
<1>2. Left(q, pops) = From(w - m, m)
  <2>1. CASE pops
    <3>1. PICK a \in Nat : a = w - n
      BY <1>1
    <3>2. Tail(From(a, n)) = From(a + 1, n - 1)
      BY <1>0, <2>1, <3>1, FromFacts
    <3>3. a + 1 = w - m /\ n - 1 = m
      BY <1>0, <2>1, <3>1
    <3>4. QED
      BY <2>1, <3>1, <3>2, <3>3, Zenon DEF Left
  <2>2. CASE ~pops
    BY <1>0, <2>2 DEF Left
  <2>3. QED
    BY <2>1, <2>2
<1>3. From(w - m, m) \o << w + 1 >> = From(w - m, m + 1) /\ From(w - m, m) \o << >> = From(w - m, m)
  <2>1. PICK a \in Nat : a = w - m
    BY <1>1
  <2>2. a + m + 1 = w + 1
    BY <1>0, <2>1
  <2>3. From(a, m) \o << a + m + 1 >> = From(a, m + 1) /\ From(a, m) \o << >> = From(a, m)
    BY <1>0, FromFacts
  <2>4. QED
    BY <2>1, <2>2, <2>3, Zenon
<1>4. n > 0 => Head(q) = w - n + 1
  BY <1>0, <1>1, FromFacts
<1>5. QED
  BY <1>2, <1>3, <1>4, Zenon DEF Moved

-----------------------------------------------------------------------------
(* The transmit path's FSMs. *)

SenderInv ==
    /\ icmpTx \in {"IDLE", "SEND"} /\ grant \in {"udp", "icmp"} /\ ipTx \in {"IDLE", "RESOLVE", "SEND"}
    /\ streamTx \in {"IDLE", "SEND"} /\ udpTx \in {"IDLE", "SEND"}
    /\ resolving \in 0 .. ResolveTime
    /\ udpTx = "SEND" => streamTx = "SEND"
    /\ icmpTx = "SEND" => echo.params # << >>
    /\ ipTx # "IDLE" => TxValid(grant)
    /\ wire # NoPacket => ipTx = "SEND"

LEMMA SenderFacts ==
    ASSUME SenderInv, NEW idle
    PROVE  /\ \A u : Takes(u, idle) => TxValid(u) /\ u = grant /\ ipTx = "SEND" /\ wire # NoPacket /\ idle # "mac"
           /\ \A u : Ends(u, idle) => Takes(u, idle)
           /\ ipTx # "IDLE" /\ ~Ends(grant, idle) => Requests(grant, idle)
           /\ TxValid(grant) /\ ipTx # "SEND" => Requests(grant, idle)
           /\ wire # NoPacket => TxValid(grant)
<1>1. \A u : Takes(u, idle) => TxValid(u) /\ u = grant /\ ipTx = "SEND" /\ wire # NoPacket /\ idle # "mac"
  BY DEF SenderInv, Takes
<1>2. \A u : Ends(u, idle) => Takes(u, idle)
  BY DEF Ends
<1>3. QED
  BY <1>1, <1>2 DEF SenderInv, Requests

\* Who sends goes on sending until his last beat is taken.
LEMMA StaysValid ==
    ASSUME SenderInv, NEW S, echo.params \in Seq(S), NEW idle, NEW writes, NEW reply, NEW pushed, NEW ended \in Seq(S),
           TxNext(idle, writes, reply, pushed, ended)
    PROVE  /\ icmpTx' \in {"IDLE", "SEND"} /\ streamTx' \in {"IDLE", "SEND"} /\ udpTx' \in {"IDLE", "SEND"}
           /\ udpTx' = "SEND" => streamTx' = "SEND"
           /\ icmpTx' = "SEND" => echo'.params # << >>
           /\ TxValid("udp") /\ ~Ends("udp", idle) => TxValid("udp")'
           /\ TxValid("icmp") /\ ~Ends("icmp", idle) => TxValid("icmp")'
<1>1. /\ streamTx' = IF streamTx = "IDLE" /\ Len(tx_fifo) >= SendLevel THEN "SEND"
                     ELSE IF Ends("udp", idle) THEN "IDLE" ELSE streamTx
      /\ udpTx' = IF udpTx = "IDLE" THEN (IF streamTx = "SEND" THEN "SEND" ELSE "IDLE")
                  ELSE IF Ends("udp", idle) THEN "IDLE" ELSE "SEND"
  BY DEF TxNext, Stream
<1>2. /\ icmpTx' = IF icmpTx = "IDLE" THEN (IF echo.params # << >> THEN "SEND" ELSE "IDLE")
                   ELSE IF Ends("icmp", idle) THEN "IDLE" ELSE "SEND"
      /\ echo'.params = (IF Ends("icmp", idle) THEN Tail(echo.params) ELSE echo.params) \o ended
  BY DEF TxNext, Echo
<1>3. /\ streamTx \in {"IDLE", "SEND"} /\ udpTx \in {"IDLE", "SEND"} /\ icmpTx \in {"IDLE", "SEND"}
      /\ udpTx = "SEND" => streamTx = "SEND"
      /\ icmpTx = "SEND" => echo.params # << >>
  BY DEF SenderInv
<1>4. /\ Ends("udp", idle) => udpTx = "SEND" /\ streamTx = "SEND"
      /\ Ends("icmp", idle) => icmpTx = "SEND" /\ echo.params # << >>
  <2>1. \A u : Ends(u, idle) => TxValid(u)
    BY SenderFacts
  <2>2. Ends("udp", idle) => TxValid("udp")
    BY <2>1
  <2>3. Ends("icmp", idle) => TxValid("icmp")
    BY <2>1
  <2>4. QED
    BY <2>2, <2>3 DEF TxValid
<1>5. /\ streamTx' \in {"IDLE", "SEND"} /\ udpTx' \in {"IDLE", "SEND"}
      /\ udpTx' = "SEND" => streamTx' = "SEND"
      /\ udpTx = "SEND" /\ streamTx = "SEND" /\ ~Ends("udp", idle) => udpTx' = "SEND" /\ streamTx' = "SEND"
  BY <1>1, <1>3, <1>4
<1>6. ASSUME echo.params # << >>, ~Ends("icmp", idle) PROVE echo'.params # << >>
  <2>1. echo'.params = echo.params \o ended
    BY <1>2, <1>6
  <2>2. Len(echo.params \o ended) = Len(echo.params) + Len(ended) /\ Len(echo.params) \in Nat \ {0} /\ Len(ended) \in Nat
    BY <1>6, ConcatProperties, LenProperties, EmptySeq
  <2>3. Len(echo.params \o ended) # 0 /\ Len(<< >>) = 0
    BY <2>2
  <2>4. QED
    BY <2>1, <2>3
<1>7. /\ icmpTx' \in {"IDLE", "SEND"}
      /\ icmpTx' = "SEND" => echo'.params # << >>
      /\ icmpTx = "SEND" /\ echo.params # << >> /\ ~Ends("icmp", idle) => icmpTx' = "SEND" /\ echo'.params # << >>
  BY <1>2, <1>3, <1>4, <1>6
<1>8. /\ TxValid("udp") => udpTx = "SEND" /\ streamTx = "SEND"
      /\ TxValid("udp")' <=> udpTx' = "SEND" /\ streamTx' = "SEND"
      /\ TxValid("icmp") => icmpTx = "SEND" /\ echo.params # << >>
      /\ TxValid("icmp")' <=> icmpTx' = "SEND" /\ echo'.params # << >>
  BY DEF TxValid
<1>9. QED
  BY <1>5, <1>7, <1>8

LEMMA SenderStep ==
    ASSUME SenderInv, NEW S, echo.params \in Seq(S), NEW idle, NEW writes, NEW reply, NEW pushed, NEW ended \in Seq(S),
           TxNext(idle, writes, reply, pushed, ended)
    PROVE  /\ SenderInv'
           /\ Requests(grant, idle) => grant' = grant
           /\ wire # NoPacket /\ ~Ends(grant, idle) => grant' = grant
<1> DEFINE byte == IF grant = "udp" THEN Head(tx_fifo) ELSE Head(echo.payload).byte
           now == [wire EXCEPT !.body = Append(@, byte)]
<1>1. /\ grant' = IF Requests(grant, idle) THEN grant
                  ELSE IF \E u \in {"udp", "icmp"} : Requests(u, idle)
                       THEN CHOOSE u \in {"udp", "icmp"} : Requests(u, idle) ELSE grant
      /\ resolving' = IF ipTx # "RESOLVE" THEN ResolveTime ELSE IF resolving = 0 THEN 0 ELSE resolving - 1
  BY DEF TxNext, Arbitrate, IpTx
<1>2. /\ ipTx = "IDLE" => ipTx' = IF TxValid(grant) THEN "RESOLVE" ELSE "IDLE"
      /\ ipTx = "RESOLVE" => ipTx' \in {"RESOLVE", "SEND"}
      /\ ipTx = "SEND" => ipTx' = IF Ends(grant, idle) THEN "IDLE" ELSE "SEND"
  BY DEF TxNext, IpTx
<1>3. wire' = IF ipTx # "SEND" \/ idle = "mac" THEN wire
              ELSE IF wire = NoPacket THEN Headers(grant)
              ELSE IF Ends(grant, idle) THEN NoPacket ELSE now
  BY DEF TxNext, IpTx
<1>4. /\ grant \in {"udp", "icmp"} /\ ipTx \in {"IDLE", "RESOLVE", "SEND"} /\ resolving \in 0 .. ResolveTime
      /\ ipTx # "IDLE" => TxValid(grant)
      /\ wire # NoPacket => ipTx = "SEND"
  BY DEF SenderInv
<1>5. /\ Ends(grant, idle) => ipTx = "SEND" /\ idle # "mac" /\ wire # NoPacket
      /\ ipTx # "IDLE" /\ ~Ends(grant, idle) => Requests(grant, idle)
      /\ TxValid(grant) /\ ipTx # "SEND" => Requests(grant, idle)
  BY SenderFacts
<1>6. grant' \in {"udp", "icmp"}
  BY <1>1, <1>4
<1>7. resolving' \in 0 .. ResolveTime
  <2>1. ResolveTime \in Nat
    BY TxAssumption DEF TxAssumption
  <2>2. PICK r \in 0 .. ResolveTime : r = resolving
    BY <1>4
  <2>3. IF r = 0 THEN 0 \in 0 .. ResolveTime ELSE r - 1 \in 0 .. ResolveTime
    BY <2>1, <2>2
  <2>4. ResolveTime \in 0 .. ResolveTime
    BY <2>1
  <2>5. QED
    BY <1>1, <2>2, <2>3, <2>4, Zenon
<1>8. Requests(grant, idle) => grant' = grant
  BY <1>1
<1>9. TxValid(grant) /\ ~Ends(grant, idle) => grant' = grant /\ TxValid(grant)'
  <2>1. SUFFICES ASSUME TxValid(grant), ~Ends(grant, idle) PROVE grant' = grant /\ TxValid(grant)'
    OBVIOUS
  <2>2. grant' = grant
    BY <1>8, <2>1 DEF Requests
  <2>3. CASE grant = "udp"
    <3>1. TxValid("udp")'
      BY <2>1, <2>3, StaysValid
    <3>2. QED
      BY <2>2, <2>3, <3>1
  <2>4. CASE grant = "icmp"
    <3>1. TxValid("icmp")'
      BY <2>1, <2>4, StaysValid
    <3>2. QED
      BY <2>2, <2>4, <3>1
  <2>5. QED
    BY <1>4, <2>3, <2>4
<1>10. ipTx' \in {"IDLE", "RESOLVE", "SEND"} /\ (ipTx' # "IDLE" => TxValid(grant)')
  <2>1. ipTx' # "IDLE" => TxValid(grant) /\ ~Ends(grant, idle)
    BY <1>2, <1>4, <1>5
  <2>2. QED
    BY <1>2, <1>4, <1>9, <2>1
<1>11. wire' # NoPacket => ipTx' = "SEND"
  BY <1>2, <1>3, <1>4, <1>5
<1>12. wire # NoPacket /\ ~Ends(grant, idle) => grant' = grant
  BY <1>4, <1>5, <1>8
<1>13. /\ icmpTx' \in {"IDLE", "SEND"} /\ streamTx' \in {"IDLE", "SEND"} /\ udpTx' \in {"IDLE", "SEND"}
       /\ udpTx' = "SEND" => streamTx' = "SEND"
       /\ icmpTx' = "SEND" => echo'.params # << >>
  BY StaysValid
<1>14. QED
  BY <1>6, <1>7, <1>8, <1>10, <1>11, <1>12, <1>13 DEF SenderInv

\* Bytes of a datagram of the streamer that are out; the packet that goes out with one byte more.
OnWire == IF wire # NoPacket /\ grant = "udp" THEN counter ELSE 0

Now == [wire EXCEPT !.body = Append(@, IF grant = "udp" THEN Head(tx_fifo) ELSE Head(echo.payload).byte)]

\* What becomes of the packet going out.
LEMMA WireStep ==
    ASSUME SenderInv, NEW S, echo.params \in Seq(S), NEW idle, NEW writes, NEW reply, NEW pushed, NEW ended \in Seq(S),
           TxNext(idle, writes, reply, pushed, ended)
    PROVE  \/ /\ Takes(grant, idle) /\ wire # NoPacket /\ TxValid(grant)
              /\ IF SourceLast(grant) THEN wire' = NoPacket /\ sent' = Append(sent, Now)
                 ELSE wire' = Now /\ grant' = grant /\ sent' = sent
           \/ /\ ~Takes(grant, idle) /\ sent' = sent /\ wire # NoPacket /\ TxValid(grant)
              /\ wire' = wire /\ grant' = grant
           \/ /\ ~Takes(grant, idle) /\ sent' = sent /\ wire = NoPacket /\ TxValid(grant)
              /\ wire' = Headers(grant) /\ grant' = grant
           \/ ~Takes(grant, idle) /\ sent' = sent /\ wire = NoPacket /\ wire' = NoPacket
<1>1. /\ wire' = IF ipTx # "SEND" \/ idle = "mac" THEN wire
                 ELSE IF wire = NoPacket THEN Headers(grant)
                 ELSE IF Ends(grant, idle) THEN NoPacket ELSE Now
      /\ sent' = IF Ends(grant, idle) THEN Append(sent, Now) ELSE sent
  BY DEF TxNext, IpTx, Now
<1>2. /\ wire # NoPacket => ipTx = "SEND" /\ TxValid(grant)
      /\ ipTx = "SEND" => TxValid(grant)
  BY SenderFacts DEF SenderInv
<1>3. /\ Takes(grant, idle) <=> ipTx = "SEND" /\ wire # NoPacket /\ idle # "mac"
      /\ Ends(grant, idle) <=> Takes(grant, idle) /\ SourceLast(grant)
  BY DEF Takes, Ends
<1>4. /\ Requests(grant, idle) => grant' = grant
      /\ wire # NoPacket /\ ~Ends(grant, idle) => grant' = grant
  BY SenderStep
<1>5. ipTx = "SEND" /\ ~Ends(grant, idle) => grant' = grant
  BY <1>2, <1>4 DEF Requests
<1>6. CASE Takes(grant, idle)
  BY <1>1, <1>2, <1>3, <1>4, <1>6
<1>7. CASE ~Takes(grant, idle) /\ wire # NoPacket
  BY <1>1, <1>2, <1>3, <1>4, <1>7
<1>8. CASE ~Takes(grant, idle) /\ wire = NoPacket /\ wire' # NoPacket
  BY <1>1, <1>2, <1>3, <1>5, <1>8
<1>9. CASE ~Takes(grant, idle) /\ wire = NoPacket /\ wire' = NoPacket
  BY <1>1, <1>3, <1>9
<1>10. QED
  BY <1>6, <1>7, <1>8, <1>9

Datagram(length, body) == [proto |-> "udp", ip |-> Target, length |-> length, body |-> body]

LEMMA DatagramFacts ==
    ASSUME NEW length, NEW body, NEW e
    PROVE  /\ Datagram(length, body) # NoPacket /\ Datagram(length, body).proto = "udp"
           /\ Datagram(length, body).ip = Target /\ Datagram(length, body).length = length
           /\ Datagram(length, body).body = body
           /\ [Datagram(length, body) EXCEPT !.body = Append(@, e)] = Datagram(length, Append(body, e))
<1>1. Datagram(length, body).proto = "udp" /\ NoPacket.proto = "none"
  BY DEF Datagram, NoPacket
<1>2. QED
  BY <1>1 DEF Datagram

StreamerInv ==
    /\ written \in Nat /\ tx_fifo \in Seq(Nat) /\ Len(tx_fifo) <= TxFifoDepth
    /\ level \in 0 .. TxFifoDepth /\ counter \in Nat
    /\ streamTx = "SEND" => counter = OnWire /\ counter < level /\ level - counter <= Len(tx_fifo)
    /\ counter <= TxFifoDepth
    /\ Len(tx_fifo) + OnWire <= written
    /\ tx_fifo = From(written - Len(tx_fifo), Len(tx_fifo))
    /\ wire # NoPacket /\ grant = "udp" =>
         wire = Datagram(level, From(written - Len(tx_fifo) - counter, counter))

\* The streamer's step, by what becomes of the datagram.
LEMMA StreamerCases ==
    ASSUME SenderInv, StreamerInv, NEW S, echo.params \in Seq(S), NEW idle, NEW writes, NEW reply, NEW pushed,
           NEW ended \in Seq(S), TxNext(idle, writes, reply, pushed, ended)
    PROVE  \/ /\ Takes("udp", idle) /\ streamTx = "SEND" /\ wire # NoPacket /\ grant = "udp"
              /\ IF counter = level - 1 THEN wire' = NoPacket /\ sent' = Append(sent, Now) /\ streamTx' = "IDLE"
                 ELSE /\ wire' = Now /\ grant' = "udp" /\ sent' = sent /\ streamTx' = "SEND"
              /\ counter' = counter + 1 /\ level' = level
           \/ /\ ~Takes("udp", idle) /\ OnWire' = OnWire
              /\ \/ counter' = counter /\ level' = level /\ streamTx' = streamTx
                 \/ counter' = 0 /\ level' = Len(tx_fifo) /\ OnWire = 0 /\ Len(tx_fifo) >= SendLevel
                    /\ ~(wire' # NoPacket /\ grant' = "udp")
              /\ wire' # NoPacket /\ grant' = "udp" =>
                   \/ wire # NoPacket /\ grant = "udp" /\ wire' = wire
                   \/ wire' = Datagram(level, << >>) /\ counter = 0
              /\ sent' # sent => grant = "icmp" /\ wire # NoPacket /\ sent' = Append(sent, Now)
<1> DEFINE starts == streamTx = "IDLE" /\ Len(tx_fifo) >= SendLevel
<1>1. /\ level' = IF starts THEN Len(tx_fifo) ELSE level
      /\ counter' = IF starts THEN 0 ELSE IF Takes("udp", idle) THEN counter + 1 ELSE counter
      /\ streamTx' = IF starts THEN "SEND" ELSE IF Ends("udp", idle) THEN "IDLE" ELSE streamTx
  BY DEF TxNext, Stream
<1>2. /\ grant \in {"udp", "icmp"} /\ streamTx \in {"IDLE", "SEND"}
      /\ TxValid("udp") => streamTx = "SEND"
      /\ wire # NoPacket => TxValid(grant)
      /\ Takes("udp", idle) => grant = "udp"
      /\ Ends("udp", idle) <=> Takes("udp", idle) /\ counter = level - 1
      /\ SourceLast("udp") <=> counter = level - 1
      /\ Headers("udp") = Datagram(level, << >>)
  BY SenderFacts DEF SenderInv, TxValid, Takes, Ends, SourceLast, StreamLast, Headers, Datagram
<1>3. streamTx = "SEND" => counter = OnWire
  BY DEF StreamerInv
<1>4. Takes(grant, idle) => grant' \in {"udp", "icmp"}
  BY SenderStep DEF SenderInv
<1>5. CASE Takes("udp", idle)
  <2>1. /\ grant = "udp" /\ wire # NoPacket /\ TxValid("udp") /\ streamTx = "SEND" /\ ~starts
        /\ IF counter = level - 1 THEN wire' = NoPacket /\ sent' = Append(sent, Now)
           ELSE wire' = Now /\ grant' = "udp" /\ sent' = sent
    BY <1>2, <1>5, WireStep
  <2>2. QED
    BY <1>1, <1>2, <1>5, <2>1
<1>6. CASE ~Takes("udp", idle)
  <2>1. wire # NoPacket /\ grant = "udp" => streamTx = "SEND"
    BY <1>2
  <2>2. OnWire' = IF wire' # NoPacket /\ grant' = "udp" THEN counter' ELSE 0
    BY DEF OnWire
  <2>3. /\ wire # NoPacket /\ grant = "udp" => wire' = wire /\ grant' = "udp"
        /\ wire' # NoPacket /\ grant' = "udp" =>
             \/ wire # NoPacket /\ grant = "udp" /\ wire' = wire
             \/ wire = NoPacket /\ grant = "udp" /\ wire' = Headers("udp") /\ TxValid("udp")
        /\ sent' # sent => grant = "icmp" /\ wire # NoPacket /\ sent' = Append(sent, Now)
    BY <1>2, <1>6, WireStep
  <2>4. wire' # NoPacket /\ grant' = "udp" => streamTx = "SEND"
    BY <1>2, <2>1, <2>3
  <2>5. wire' # NoPacket /\ grant' = "udp" =>
          \/ wire # NoPacket /\ grant = "udp" /\ wire' = wire
          \/ wire' = Datagram(level, << >>) /\ counter = 0
    BY <1>2, <1>3, <2>3 DEF OnWire
  <2>6. CASE starts
    <3>1. counter' = 0 /\ level' = Len(tx_fifo) /\ OnWire = 0 /\ Len(tx_fifo) >= SendLevel
      BY <1>1, <2>1, <2>6 DEF OnWire
    <3>2. ~(wire' # NoPacket /\ grant' = "udp") /\ OnWire' = 0
      BY <2>2, <2>4, <2>6
    <3>3. QED
      BY <1>6, <2>3, <3>1, <3>2
  <2>7. CASE ~starts
    <3>1. counter' = counter /\ level' = level /\ streamTx' = streamTx
      BY <1>1, <1>2, <1>6, <2>7
    <3>2. OnWire' = OnWire
      BY <1>3, <2>2, <2>3, <2>4, <2>5, <3>1 DEF OnWire
    <3>3. QED
      BY <1>6, <2>3, <2>5, <3>1, <3>2
  <2>8. QED
    BY <2>6, <2>7
<1>7. QED
  BY <1>5, <1>6

LEMMA FifoStep ==
    ASSUME StreamerInv, NEW idle, NEW writes, NEW reply, NEW pushed, NEW ended,
           TxNext(idle, writes, reply, pushed, ended), Takes("udp", idle) => Len(tx_fifo) > 0,
           NEW m, m = IF Takes("udp", idle) THEN Len(tx_fifo) - 1 ELSE Len(tx_fifo)
    PROVE  /\ written' \in Nat /\ tx_fifo' \in Seq(Nat) /\ Len(tx_fifo') \in Nat /\ m \in Nat
           /\ Len(tx_fifo') <= TxFifoDepth /\ Len(tx_fifo') >= m
           /\ written' - Len(tx_fifo') = written - m
           /\ tx_fifo' = From(written - m, Len(tx_fifo'))
           /\ Takes("udp", idle) => Head(tx_fifo) = written - Len(tx_fifo) + 1
<1>1. PICK w \in Nat, n \in Nat, on \in Nat : w = written /\ n = Len(tx_fifo) /\ on = OnWire
  BY LenProperties DEF StreamerInv, OnWire
<1>2. n <= w /\ tx_fifo = From(w - n, n) /\ n <= TxFifoDepth /\ TxFifoDepth \in Nat
  <2>1. n + on <= w /\ n <= TxFifoDepth
    BY <1>1 DEF StreamerInv
  <2>2. TxFifoDepth \in Nat
    BY TxAssumption DEF TxAssumption
  <2>3. QED
    BY <1>1, <2>1, <2>2 DEF StreamerInv
<1>3. PICK pops \in BOOLEAN : pops <=> Takes("udp", idle)
  OBVIOUS
<1>4. PICK d \in Nat, a \in Nat :
        /\ d = m /\ d = (IF pops THEN n - 1 ELSE n) /\ (pops => n > 0) /\ d <= n
        /\ a = w - d
  <2>1. m = (IF pops THEN n - 1 ELSE n) /\ (pops => n > 0)
    BY <1>1, <1>3
  <2>2. m \in Nat /\ m <= n /\ w - m \in Nat
    BY <1>2, <2>1
  <2>3. QED
    BY <2>1, <2>2
<1>5. /\ writes => n < TxFifoDepth
      /\ written' = IF writes THEN w + 1 ELSE w
      /\ tx_fifo' = (IF pops THEN Tail(tx_fifo) ELSE tx_fifo) \o (IF writes THEN << w + 1 >> ELSE << >>)
  BY <1>1, <1>3 DEF TxNext, Stream
<1>6. PICK q : q = tx_fifo'
  OBVIOUS
<1>7. /\ writes => q = From(a, d + 1)
      /\ ~writes => q = From(a, d)
      /\ pops => Head(tx_fifo) = w - n + 1
  <2>1. /\ Left(From(w - n, n), pops) \o << w + 1 >> = From(w - d, d + 1)
        /\ Left(From(w - n, n), pops) \o << >> = From(w - d, d)
        /\ n > 0 => Head(From(w - n, n)) = w - n + 1
    <3>1. MayMove(w, n, pops, d)
      BY <1>2, <1>4 DEF MayMove
    <3>2. Moved(w, n, pops, d)
      BY <3>1, FifoMoves
    <3>3. QED
      BY <3>2, Zenon DEF Moved
  <2>2. q = Left(From(w - n, n), pops) \o (IF writes THEN << w + 1 >> ELSE << >>)
    BY <1>2, <1>5, <1>6, Zenon DEF Left
  <2>3. QED
    BY <1>2, <1>4, <2>1, <2>2, Zenon
<1>8. PICK e \in Nat : e = (IF writes THEN d + 1 ELSE d)
  OBVIOUS
<1>9. q = From(a, e) /\ q \in Seq(Nat) /\ Len(q) = e
  <2>1. q = From(a, e)
    BY <1>7, <1>8, Zenon
  <2>2. From(a, e) \in Seq(Nat) /\ Len(From(a, e)) = e
    BY FromTyped
  <2>3. QED
    BY <2>1, <2>2, Zenon
<1>10. /\ written' \in Nat /\ e <= TxFifoDepth /\ e >= d /\ written' - e = w - d
  <2>1. CASE writes
    <3>1. written' = w + 1 /\ e = d + 1 /\ n < TxFifoDepth
      BY <1>5, <1>8, <2>1
    <3>2. w + 1 \in Nat /\ d + 1 <= TxFifoDepth /\ d + 1 >= d /\ w + 1 - (d + 1) = w - d
      <4>1. d <= n /\ TxFifoDepth \in Nat
        BY <1>2, <1>4
      <4>2. QED
        BY <3>1, <4>1
    <3>3. QED
      BY <3>1, <3>2
  <2>2. CASE ~writes
    <3>1. written' = w /\ e = d
      BY <1>5, <1>8, <2>2
    <3>2. w \in Nat /\ d <= TxFifoDepth /\ d >= d /\ w - d = w - d
      BY <1>2, <1>4
    <3>3. QED
      BY <3>1, <3>2, Zenon
  <2>3. QED
    BY <2>1, <2>2
<1>11. /\ tx_fifo' \in Seq(Nat) /\ Len(tx_fifo') = e /\ tx_fifo' = From(w - m, e)
  BY <1>4, <1>6, <1>9, Zenon
<1>12. QED
  BY <1>1, <1>3, <1>4, <1>7, <1>10, <1>11

LEMMA StreamerStep ==
    ASSUME SenderInv, StreamerInv, NEW S, echo.params \in Seq(S), NEW idle, NEW writes, NEW reply, NEW pushed,
           NEW ended \in Seq(S), TxNext(idle, writes, reply, pushed, ended)
    PROVE  /\ StreamerInv'
           /\ Takes("udp", idle) /\ counter = level - 1 =>
                /\ Now = Datagram(level, From(written - Len(tx_fifo) - counter, level))
                /\ written - Len(tx_fifo) - counter \in Nat /\ level \in Nat
                /\ written' - Len(tx_fifo') - OnWire' = written - Len(tx_fifo) - counter + level
                /\ OnWire = counter
           /\ ~(Takes("udp", idle) /\ counter = level - 1) =>
                written' - Len(tx_fifo') - OnWire' = written - Len(tx_fifo) - OnWire
<1>1. PICK w \in Nat, n \in Nat, c \in Nat, l \in Nat, on \in Nat :
        w = written /\ n = Len(tx_fifo) /\ c = counter /\ l = level /\ on = OnWire
  <2>1. level \in Nat
    BY TxAssumption DEF TxAssumption, StreamerInv
  <2>2. QED
    BY <2>1, LenProperties DEF StreamerInv, OnWire
<1>2. /\ n <= TxFifoDepth /\ l <= TxFifoDepth /\ c <= TxFifoDepth /\ n + on <= w
      /\ streamTx = "SEND" => c = on /\ c < l /\ l - c <= n
      /\ wire # NoPacket /\ grant = "udp" => wire = Datagram(l, From(w - n - c, c))
  BY <1>1, TxAssumption DEF TxAssumption, StreamerInv
<1>3. PICK D \in Nat \ {0} : D = TxFifoDepth
  BY TxAssumption DEF TxAssumption
<1>4. SendLevel \in Nat \ {0}
  BY TxAssumption DEF TxAssumption
<1>5. CASE Takes("udp", idle)
  <2>1. /\ streamTx = "SEND" /\ wire # NoPacket /\ grant = "udp"
        /\ IF c = l - 1 THEN wire' = NoPacket /\ sent' = Append(sent, Now) /\ streamTx' = "IDLE"
           ELSE /\ wire' = Now /\ grant' = "udp" /\ sent' = sent /\ streamTx' = "SEND"
        /\ counter' = c + 1 /\ level' = l
    BY <1>1, <1>5, StreamerCases
  <2>2. c = on /\ c < l /\ l - c <= n /\ n > 0 /\ w - n - c \in Nat
    BY <1>2, <2>1
  <2>3. PICK m \in Nat : m = n - 1
    BY <2>2
  <2>4. m = IF Takes("udp", idle) THEN Len(tx_fifo) - 1 ELSE Len(tx_fifo)
    BY <1>1, <1>5, <2>3
  <2>5. PICK w2 \in Nat, n2 \in Nat : w2 = written' /\ n2 = Len(tx_fifo')
    BY <1>1, <2>2, <2>4, FifoStep
  <2>6. /\ tx_fifo' \in Seq(Nat) /\ n2 <= TxFifoDepth /\ n2 >= m /\ w2 - n2 = w - m
        /\ tx_fifo' = From(w - m, n2) /\ Head(tx_fifo) = w - n + 1
    BY <1>1, <1>5, <2>2, <2>4, <2>5, FifoStep
  <2>7. Now = Datagram(l, From(w - n - c, c + 1))
    <3>1. wire = Datagram(l, From(w - n - c, c))
      BY <1>2, <2>1
    <3>2. Now = [wire EXCEPT !.body = Append(@, w - n + 1)]
      BY <2>1, <2>6, Zenon DEF Now
    <3>3. Now = Datagram(l, Append(From(w - n - c, c), w - n + 1))
      <4>1. PICK body, e : body = From(w - n - c, c) /\ e = w - n + 1
        OBVIOUS
      <4>2. [Datagram(l, body) EXCEPT !.body = Append(@, e)] = Datagram(l, Append(body, e))
        BY DatagramFacts
      <4>3. QED
        BY <3>1, <3>2, <4>1, <4>2, Zenon
    <3>4. Append(From(w - n - c, c), w - n + 1) = From(w - n - c, c + 1)
      <4>1. PICK a \in Nat : a = w - n - c
        BY <2>2
      <4>2. a + c + 1 = w - n + 1
        BY <4>1
      <4>3. Append(From(a, c), a + c + 1) = From(a, c + 1)
        BY FromFacts
      <4>4. QED
        BY <4>1, <4>2, <4>3, Zenon
    <3>5. QED
      BY <3>3, <3>4, Zenon
  <2>8. CASE c = l - 1
    <3>1. wire' = NoPacket /\ streamTx' = "IDLE" /\ l = c + 1
      BY <2>1, <2>8
    <3>2. OnWire' = 0
      BY <3>1 DEF OnWire
    <3>3. /\ c + 1 \in Nat /\ c + 1 <= TxFifoDepth /\ n2 + 0 <= w2
          /\ w2 - n2 - 0 = w - n - c + l
      BY <1>2, <1>3, <2>2, <2>3, <2>6, <3>1
    <3>4. tx_fifo' = From(w2 - n2, n2)
      BY <2>6
    <3>5. StreamerInv'
      BY <1>1, <2>1, <2>5, <2>6, <3>1, <3>2, <3>3, <3>4 DEF StreamerInv
    <3>6. QED
      BY <1>1, <1>5, <2>2, <2>5, <2>7, <2>8, <3>1, <3>2, <3>3, <3>5
  <2>9. CASE c # l - 1
    <3>1. wire' = Now /\ grant' = "udp" /\ streamTx' = "SEND" /\ Now # NoPacket
      BY <2>1, <2>7, <2>9, DatagramFacts
    <3>2. OnWire' = c + 1
      BY <2>1, <3>1 DEF OnWire
    <3>3. /\ c + 1 \in Nat /\ c + 1 <= TxFifoDepth /\ n2 + (c + 1) <= w2
          /\ c + 1 < l /\ l - (c + 1) <= n2
          /\ w2 - n2 - (c + 1) = w - n - c
      BY <1>2, <1>3, <2>2, <2>3, <2>6, <2>9
    <3>4. tx_fifo' = From(w2 - n2, n2)
      BY <2>6
    <3>5. wire' = Datagram(l, From(w2 - n2 - (c + 1), c + 1))
      BY <2>7, <3>1, <3>3
    <3>6. StreamerInv'
      BY <1>1, <2>1, <2>5, <2>6, <3>1, <3>2, <3>3, <3>4, <3>5 DEF StreamerInv
    <3>7. QED
      BY <1>1, <1>5, <2>2, <2>5, <2>9, <3>2, <3>3, <3>6
  <2>10. QED
    BY <2>8, <2>9
<1>6. CASE ~Takes("udp", idle)
  <2>1. /\ OnWire' = on
        /\ \/ counter' = c /\ level' = l /\ streamTx' = streamTx
           \/ counter' = 0 /\ level' = n /\ on = 0 /\ n >= SendLevel
              /\ ~(wire' # NoPacket /\ grant' = "udp")
        /\ wire' # NoPacket /\ grant' = "udp" =>
             \/ wire # NoPacket /\ grant = "udp" /\ wire' = wire
             \/ wire' = Datagram(l, << >>) /\ c = 0
    BY <1>1, <1>6, StreamerCases
  <2>2. n = IF Takes("udp", idle) THEN Len(tx_fifo) - 1 ELSE Len(tx_fifo)
    BY <1>1, <1>6
  <2>3. PICK w2 \in Nat, n2 \in Nat : w2 = written' /\ n2 = Len(tx_fifo')
    BY <1>6, <2>2, FifoStep
  <2>4. /\ tx_fifo' \in Seq(Nat) /\ n2 <= TxFifoDepth /\ n2 >= n /\ w2 - n2 = w - n
        /\ tx_fifo' = From(w - n, n2)
    BY <1>1, <1>6, <2>2, <2>3, FifoStep
  <2>5. tx_fifo' = From(w2 - n2, n2) /\ n2 + on <= w2 /\ w2 - n2 - on = w - n - on
    BY <1>2, <2>4
  <2>6. wire' # NoPacket /\ grant' = "udp" => wire' = Datagram(l, From(w2 - n2 - c, c))
    <3>1. CASE wire # NoPacket /\ grant = "udp" /\ wire' = wire
      BY <1>2, <2>4, <3>1
    <3>2. CASE wire' = Datagram(l, << >>) /\ c = 0
      <4>1. PICK a \in Nat : a = w2 - n2 - c
        BY <2>5, <3>2
      <4>2. From(a, 0) = << >>
        BY FromFacts
      <4>3. QED
        BY <3>2, <4>1, <4>2
    <3>3. QED
      BY <2>1, <3>1, <3>2
  <2>7. CASE counter' = c /\ level' = l /\ streamTx' = streamTx
    <3>1. streamTx' = "SEND" => c = on /\ c < l /\ l - c <= n2
      BY <1>2, <2>4, <2>7
    <3>2. l \in 0 .. TxFifoDepth
      BY <1>2, <1>3
    <3>3. StreamerInv'
      BY <1>1, <1>2, <2>1, <2>3, <2>4, <2>5, <2>6, <2>7, <3>1, <3>2 DEF StreamerInv
    <3>4. QED
      BY <1>1, <1>6, <2>1, <2>3, <2>5, <3>3
  <2>8. CASE counter' = 0 /\ level' = n /\ on = 0 /\ n >= SendLevel /\ ~(wire' # NoPacket /\ grant' = "udp")
    <3>1. 0 = on /\ 0 < n /\ n - 0 <= n2 /\ n \in 0 .. TxFifoDepth /\ 0 <= TxFifoDepth
      BY <1>2, <1>3, <1>4, <2>4, <2>8
    <3>2. StreamerInv'
      BY <1>1, <2>1, <2>3, <2>4, <2>5, <2>8, <3>1 DEF StreamerInv
    <3>3. QED
      BY <1>1, <1>6, <2>1, <2>3, <2>5, <3>2
  <2>9. QED
    BY <2>1, <2>7, <2>8
<1>7. QED
  BY <1>5, <1>6

-----------------------------------------------------------------------------
(* What went out: the streamer's bytes, one after the other. *)

Reply(q, body) ==
    [proto |-> "icmp", ip |-> q.src, length |-> q.length, checksum |-> ReplyChecksum(q.checksum), body |-> body]

LEMMA ReplyFacts ==
    ASSUME NEW q, NEW body, NEW e
    PROVE  /\ Reply(q, body) # NoPacket /\ Reply(q, body).proto = "icmp"
           /\ Reply(q, body).ip = q.src /\ Reply(q, body).length = q.length /\ Reply(q, body).body = body
           /\ Reply(q, body).checksum = ReplyChecksum(q.checksum)
           /\ [Reply(q, body) EXCEPT !.body = Append(@, e)] = Reply(q, Append(body, e))
<1>1. Reply(q, body).proto = "icmp" /\ NoPacket.proto = "none"
  BY DEF Reply, NoPacket
<1>2. QED
  BY <1>1 DEF Reply

StreamPiece(p) == IF p.proto = "udp" THEN p.body ELSE << >>

\* Packets that the streamer or the echo sent.
Packet(p) ==
    p.proto \in {"udp", "icmp"} /\ (p.proto = "udp" => p.ip = Target /\ p.body \in Seq(Nat) /\ p.length = Len(p.body))

SentPackets(packets) == (\E R : packets \in Seq(R)) /\ \A n \in 1 .. Len(packets) : Packet(packets[n])

LEMMA SentGrows ==
    ASSUME NEW packets, SentPackets(packets), NEW p, Packet(p)
    PROVE  /\ SentPackets(Append(packets, p)) /\ Streamed(packets) \in Seq(Nat)
           /\ Streamed(Append(packets, p)) = Streamed(packets) \o StreamPiece(p)
           /\ Len(Append(packets, p)) = Len(packets) + 1 /\ Len(packets) \in Nat
           /\ \A n \in 1 .. Len(packets) : Append(packets, p)[n] = packets[n]
           /\ Append(packets, p)[Len(packets) + 1] = p
<1>1. PICK R : packets \in Seq(R)
  BY DEF SentPackets
<1>2. PICK l \in Nat : l = Len(packets)
  BY <1>1, LenProperties
<1>3. packets \in Seq(R \cup {p}) /\ p \in R \cup {p}
  <2>1. packets \in [1 .. Len(packets) -> R]
    BY <1>1, LenProperties
  <2>2. packets \in [1 .. Len(packets) -> R \cup {p}]
    BY <2>1
  <2>3. QED
    BY <1>2, <2>2, SeqDef
<1>4. PICK T : T = R \cup {p}
  OBVIOUS
<1>5. PICK q : q = Append(packets, p)
  OBVIOUS
<1>6. /\ q \in Seq(T) /\ Len(q) = l + 1
      /\ \A n \in 1 .. l : q[n] = packets[n]
      /\ q[l + 1] = p
  <2>1. packets \in Seq(T) /\ p \in T
    BY <1>3, <1>4
  <2>2. QED
    BY <1>2, <1>5, <2>1, AppendProperties
<1>7. \A n \in 1 .. l + 1 : Packet(q[n])
  <2>1. SUFFICES ASSUME NEW n \in 1 .. l + 1 PROVE Packet(q[n])
    OBVIOUS
  <2>2. CASE n = l + 1
    BY <1>6, <2>2
  <2>3. CASE n # l + 1
    <3>1. n \in 1 .. l
      BY <2>3
    <3>2. Packet(packets[n])
      BY <1>2, <3>1 DEF SentPackets
    <3>3. QED
      BY <1>6, <3>1, <3>2, Zenon
  <2>4. QED
    BY <2>2, <2>3
<1>8. SentPackets(q)
  BY <1>6, <1>7, Zenon DEF SentPackets
<1>9. PICK u, v : /\ u = [n \in 1 .. l |-> StreamPiece(packets[n])]
                  /\ v = [n \in 1 .. l + 1 |-> StreamPiece(q[n])]
  OBVIOUS
<1>10. \A n \in 1 .. l + 1 : v[n] \in Seq(Nat)
  <2>1. \A n \in 1 .. l + 1 : StreamPiece(q[n]) \in Seq(Nat)
    BY <1>7 DEF StreamPiece, Packet
  <2>2. QED
    BY <1>9, <2>1
<1>11. (\A n \in 1 .. l : u[n] = v[n]) /\ l + 1 \in 1 .. l + 1 /\ v[l + 1] = StreamPiece(p)
  BY <1>6, <1>9
<1>12. FlattenSeq([n \in 1 .. l + 1 |-> v[n]]) = FlattenSeq([n \in 1 .. l |-> u[n]]) \o v[l + 1]
  BY <1>10, <1>11, FlattenNext
<1>13. FlattenSeq([n \in 1 .. l |-> u[n]]) \in Seq(Nat)
  <2>1. \A n \in 1 .. l : u[n] \in Seq(Nat)
    BY <1>10, <1>11
  <2>2. QED
    BY <2>1, FlattenTyped
<1>14. Streamed(packets) = FlattenSeq([n \in 1 .. l |-> u[n]])
  <2>1. [n \in 1 .. l |-> u[n]] = [n \in 1 .. l |-> IF packets[n].proto = "udp" THEN packets[n].body ELSE << >>]
    BY <1>9 DEF StreamPiece
  <2>2. QED
    BY <1>2, <2>1, Zenon DEF Streamed
<1>15. Streamed(q) = FlattenSeq([n \in 1 .. l + 1 |-> v[n]])
  <2>1. [n \in 1 .. l + 1 |-> v[n]] = [n \in 1 .. l + 1 |-> IF q[n].proto = "udp" THEN q[n].body ELSE << >>]
    BY <1>9 DEF StreamPiece
  <2>2. QED
    BY <1>6, <2>1, Zenon DEF Streamed
<1>16. Streamed(q) = Streamed(packets) \o StreamPiece(p)
  BY <1>11, <1>12, <1>14, <1>15, Zenon
<1>17. QED
  BY <1>2, <1>5, <1>6, <1>8, <1>13, <1>14, <1>16, Zenon

SentInv == SentPackets(sent) /\ Streamed(sent) = From(0, written - Len(tx_fifo) - OnWire)

LEMMA SentStep ==
    ASSUME SenderInv, StreamerInv, SentInv, NEW S, echo.params \in Seq(S),
           wire # NoPacket /\ grant = "icmp" => \E q, body : wire = Reply(q, body),
           NEW idle, NEW writes, NEW reply, NEW pushed,
           NEW ended \in Seq(S), TxNext(idle, writes, reply, pushed, ended)
    PROVE  SentInv'
<1>1. SentPackets(sent) /\ Streamed(sent) = From(0, written - Len(tx_fifo) - OnWire)
  BY DEF SentInv
<1>2. CASE Takes("udp", idle) /\ counter = level - 1
  <2>1. /\ Now = Datagram(level, From(written - Len(tx_fifo) - counter, level))
        /\ written - Len(tx_fifo) - counter \in Nat /\ level \in Nat
        /\ written' - Len(tx_fifo') - OnWire' = written - Len(tx_fifo) - counter + level
        /\ OnWire = counter
    BY <1>2, StreamerStep
  <2>2. PICK a \in Nat, l \in Nat : a = written - Len(tx_fifo) - counter /\ l = level
    BY <2>1
  <2>3. sent' = Append(sent, Now)
    BY <1>2, StreamerCases
  <2>4. PICK d : d = From(a, l)
    OBVIOUS
  <2>5. d \in Seq(Nat) /\ Len(d) = l
    BY <2>4, FromFacts
  <2>6. /\ Now = Datagram(l, d) /\ Now.proto = "udp" /\ Now.ip = Target /\ Now.length = l /\ Now.body = d
    <3>1. Now = Datagram(l, d)
      BY <2>1, <2>2, <2>4, Zenon
    <3>2. /\ Datagram(l, d).proto = "udp" /\ Datagram(l, d).ip = Target
          /\ Datagram(l, d).length = l /\ Datagram(l, d).body = d
      BY DEF Datagram
    <3>3. QED
      BY <3>1, <3>2, Zenon
  <2>7. Packet(Now) /\ StreamPiece(Now) = d
    BY <2>5, <2>6 DEF Packet, StreamPiece
  <2>8. SentPackets(Append(sent, Now)) /\ Streamed(Append(sent, Now)) = Streamed(sent) \o StreamPiece(Now)
    BY <1>1, <2>7, SentGrows
  <2>9. Streamed(sent) = From(0, a)
    BY <1>1, <2>1, <2>2, Zenon
  <2>10. From(0, a) \o d = From(0, a + l)
    BY <2>4, FromJoins, Zenon
  <2>11. written' - Len(tx_fifo') - OnWire' = a + l
    BY <2>1, <2>2, Zenon
  <2>12. Streamed(sent') = From(0, written' - Len(tx_fifo') - OnWire')
    BY <2>3, <2>7, <2>8, <2>9, <2>10, <2>11, Zenon
  <2>13. QED
    BY <2>3, <2>8, <2>12, Zenon DEF SentInv
<1>3. CASE ~(Takes("udp", idle) /\ counter = level - 1)
  <2>1. written' - Len(tx_fifo') - OnWire' = written - Len(tx_fifo) - OnWire
    BY <1>3, StreamerStep
  <2>2. sent' # sent => grant = "icmp" /\ wire # NoPacket /\ sent' = Append(sent, Now)
    BY <1>3, StreamerCases
  <2>3. CASE sent' = sent
    BY <1>1, <2>1, <2>3, Zenon DEF SentInv
  <2>4. CASE sent' # sent
    <3>1. grant = "icmp" /\ sent' = Append(sent, Now)
      BY <2>2, <2>4
    <3>2. PICK q, body : wire = Reply(q, body)
      BY <2>2, <2>4
    <3>3. Now = Reply(q, Append(body, Head(echo.payload).byte))
      <4>1. Now = [wire EXCEPT !.body = Append(@, Head(echo.payload).byte)]
        BY <3>1 DEF Now
      <4>2. PICK e : e = Head(echo.payload).byte
        OBVIOUS
      <4>3. [Reply(q, body) EXCEPT !.body = Append(@, e)] = Reply(q, Append(body, e))
        BY ReplyFacts
      <4>4. QED
        BY <3>2, <4>1, <4>2, <4>3, Zenon
    <3>4. Now.proto = "icmp"
      <4>1. PICK d : d = Append(body, Head(echo.payload).byte)
        OBVIOUS
      <4>2. Reply(q, d).proto = "icmp"
        BY DEF Reply
      <4>3. QED
        BY <3>3, <4>1, <4>2, Zenon
    <3>5. Packet(Now) /\ StreamPiece(Now) = << >>
      BY <3>4 DEF Packet, StreamPiece
    <3>6. /\ SentPackets(Append(sent, Now)) /\ Streamed(sent) \in Seq(Nat)
          /\ Streamed(Append(sent, Now)) = Streamed(sent) \o StreamPiece(Now)
      BY <1>1, <3>5, SentGrows
    <3>7. Streamed(sent) \o << >> = Streamed(sent)
      BY <3>6, ConcatEmptySeq
    <3>8. Streamed(sent') = Streamed(sent)
      BY <3>1, <3>5, <3>6, <3>7, Zenon
    <3>9. QED
      BY <1>1, <2>1, <3>1, <3>6, <3>8, Zenon DEF SentInv
  <2>5. QED
    BY <2>3, <2>4
<1>4. QED
  BY <1>2, <1>3

-----------------------------------------------------------------------------
(* The echo buffer.  Its bytes are told by the requests' numbers: byte b of the n-th
   request is the place << n, b >>. *)

Wants(c, f) == c = "full" /\ f.type = "ip" /\ f.ok /\ f.proto = "icmp"

Wanted(c, frames, n) == Cardinality({m \in 1 .. n : Wants(c, frames[m])})

LEMMA WantedFacts ==
    ASSUME NEW c, NEW frames, NEW n \in Nat
    PROVE  /\ Wanted(c, frames, n) \in Nat /\ Wanted(c, frames, 0) = 0
           /\ Wants(c, frames[n + 1]) => Wanted(c, frames, n + 1) = Wanted(c, frames, n) + 1
           /\ ~Wants(c, frames[n + 1]) => Wanted(c, frames, n + 1) = Wanted(c, frames, n)
<1>1. PICK T, U : T = {m \in 1 .. n : Wants(c, frames[m])} /\ U = {m \in 1 .. n + 1 : Wants(c, frames[m])}
  OBVIOUS
<1>2. IsFiniteSet(T) /\ Cardinality(T) \in Nat
  <2>1. IsFiniteSet(1 .. n)
    BY FS_Interval
  <2>2. T \in SUBSET (1 .. n)
    BY <1>1
  <2>3. QED
    BY <2>1, <2>2, FS_Subset, FS_CardinalityType
<1>3. n + 1 \notin T
  BY <1>1
<1>4. Wants(c, frames[n + 1]) => Cardinality(U) = Cardinality(T) + 1
  <2>1. SUFFICES ASSUME Wants(c, frames[n + 1]) PROVE Cardinality(U) = Cardinality(T) + 1
    OBVIOUS
  <2>2. U = T \cup {n + 1}
    BY <1>1, <2>1
  <2>3. QED
    BY <1>2, <1>3, <2>2, FS_AddElement
<1>5. ~Wants(c, frames[n + 1]) => U = T
  BY <1>1
<1>6. {m \in 1 .. 0 : Wants(c, frames[m])} = {}
  OBVIOUS
<1>7. QED
  BY <1>1, <1>2, <1>4, <1>5, <1>6, FS_EmptySet DEF Wanted

LEMMA WantedGrows ==
    ASSUME NEW c, NEW frames, NEW m \in Nat, NEW n \in Nat, m <= n
    PROVE  Wanted(c, frames, m) <= Wanted(c, frames, n)
<1>1. PICK T, U : T = {j \in 1 .. m : Wants(c, frames[j])} /\ U = {j \in 1 .. n : Wants(c, frames[j])}
  OBVIOUS
<1>2. IsFiniteSet(U)
  <2>1. IsFiniteSet(1 .. n)
    BY FS_Interval
  <2>2. U \in SUBSET (1 .. n)
    BY <1>1
  <2>3. QED
    BY <2>1, <2>2, FS_Subset
<1>3. T \in SUBSET U
  BY <1>1
<1>4. Cardinality(T) <= Cardinality(U)
  BY <1>2, <1>3, FS_Subset
<1>5. QED
  BY <1>1, <1>4 DEF Wanted

\* A request's number is its own.
LEMMA WantedOnce ==
    ASSUME NEW c, NEW frames, NEW m \in Nat, NEW n \in Nat, m < n, Wants(c, frames[n])
    PROVE  Wanted(c, frames, m) < Wanted(c, frames, n)
<1>1. PICK l \in Nat : n = l + 1 /\ m <= l
  <2>1. n - 1 \in Nat /\ n = n - 1 + 1 /\ m <= n - 1
    OBVIOUS
  <2>2. QED
    BY <2>1
<1>2. Wanted(c, frames, m) <= Wanted(c, frames, l)
  BY <1>1, WantedGrows
<1>3. Wanted(c, frames, n) = Wanted(c, frames, l) + 1
  BY <1>1, WantedFacts
<1>4. Wanted(c, frames, m) \in Nat /\ Wanted(c, frames, l) \in Nat
  BY WantedFacts
<1>5. QED
  BY <1>2, <1>3, <1>4

LEMMA WantedSame ==
    ASSUME NEW c, NEW frames, NEW m \in Nat, NEW n \in Nat, Wants(c, frames[m]), Wants(c, frames[n]),
           Wanted(c, frames, m) = Wanted(c, frames, n)
    PROVE  m = n
<1>1. ~(m < n)
  <2>1. SUFFICES ASSUME m < n PROVE FALSE
    OBVIOUS
  <2>2. Wanted(c, frames, m) < Wanted(c, frames, n)
    BY <2>1, WantedOnce
  <2>3. Wanted(c, frames, m) \in Nat
    BY WantedFacts
  <2>4. QED
    BY <2>2, <2>3
<1>2. ~(n < m)
  <2>1. SUFFICES ASSUME n < m PROVE FALSE
    OBVIOUS
  <2>2. Wanted(c, frames, n) < Wanted(c, frames, m)
    BY <2>1, WantedOnce
  <2>3. Wanted(c, frames, n) \in Nat
    BY WantedFacts
  <2>4. QED
    BY <2>2, <2>3
<1>3. QED
  BY <1>1, <1>2

\* What the buffer keeps of a byte.
Item(frames, y) == [byte |-> y, last |-> y[2] = frames[y[1]].size]

Items == [byte : Nat \X Nat, last : BOOLEAN]

IsItem(c, frames, x) ==
    \E n \in 1 .. Len(frames), b \in Nat \ {0} :
      x = Item(frames, << n, b >>) /\ Wants(c, frames[n]) /\ b <= frames[n].size

\* The place of a byte, and the one behind it.
Place(c, frames, x) == << Wanted(c, frames, x.byte[1]), x.byte[2] >>

Behind(c, frames, x) ==
    IF x.last THEN << Wanted(c, frames, x.byte[1]) + 1, 1 >>
    ELSE << Wanted(c, frames, x.byte[1]), x.byte[2] + 1 >>

\* From place start on the bytes of q are all up to place end.
EchoChain(c, frames, q, start, end) ==
    /\ q \in Seq(Items)
    /\ \A j \in 1 .. Len(q) : IsItem(c, frames, q[j])
    /\ \A j \in 1 .. Len(q) : Behind(c, frames, q[j]) = IF j < Len(q) THEN Place(c, frames, q[j + 1]) ELSE end
    /\ start = IF q = << >> THEN end ELSE Place(c, frames, Head(q))

LEMMA ItemFacts ==
    ASSUME NEW frames, NEW n \in Nat, NEW b \in Nat
    PROVE  /\ Item(frames, << n, b >>) \in Items /\ Item(frames, << n, b >>).byte = << n, b >>
           /\ Item(frames, << n, b >>).last <=> b = frames[n].size
           /\ << n, b >>[1] = n /\ << n, b >>[2] = b
  BY DEF Item, Items

LEMMA EchoPush ==
    ASSUME NEW c, NEW frames, NEW q, NEW start, NEW end, NEW x,
           EchoChain(c, frames, q, start, end), x \in Items, IsItem(c, frames, x), Place(c, frames, x) = end
    PROVE  EchoChain(c, frames, q \o << x >>, start, Behind(c, frames, x)) /\ Len(q \o << x >>) = Len(q) + 1
<1>1. PICK r : r = q \o << x >>
  OBVIOUS
<1>2. q \in Seq(Items)
  BY DEF EchoChain
<1>3. PICK n \in Nat : n = Len(q)
  BY <1>2, LenProperties
<1>4. /\ r \in Seq(Items) /\ Len(r) = n + 1 /\ r[n + 1] = x
      /\ \A j \in 1 .. n : r[j] = q[j]
  BY <1>1, <1>2, <1>3
<1>5. r # << >> /\ Head(r) = IF q = << >> THEN x ELSE Head(q)
  BY <1>1, <1>2
<1>6. start = Place(c, frames, Head(r))
  BY <1>5 DEF EchoChain
<1>7. ASSUME NEW j \in 1 .. n + 1
      PROVE  /\ IsItem(c, frames, r[j])
             /\ Behind(c, frames, r[j]) = IF j < n + 1 THEN Place(c, frames, r[j + 1]) ELSE Behind(c, frames, x)
  <2>1. CASE j = n + 1
    BY <1>4, <2>1
  <2>2. CASE j # n + 1
    <3>1. j \in 1 .. n /\ j < n + 1 /\ (j < n => j + 1 \in 1 .. n) /\ (~(j < n) => j + 1 = n + 1)
      BY <1>3, <2>2
    <3>2. IsItem(c, frames, q[j]) /\ Behind(c, frames, q[j]) = IF j < n THEN Place(c, frames, q[j + 1]) ELSE end
      BY <1>3, <3>1 DEF EchoChain
    <3>3. r[j] = q[j] /\ r[j + 1] = IF j < n THEN q[j + 1] ELSE x
      BY <1>4, <3>1
    <3>4. Behind(c, frames, r[j]) = Place(c, frames, r[j + 1])
      <4>1. CASE j < n
        BY <3>2, <3>3, <4>1, Zenon
      <4>2. CASE ~(j < n)
        BY <3>2, <3>3, <4>2, Zenon
      <4>3. QED
        BY <4>1, <4>2
    <3>5. QED
      BY <3>1, <3>2, <3>3, <3>4
  <2>3. QED
    BY <2>1, <2>2
<1>8. EchoChain(c, frames, r, start, Behind(c, frames, x))
  <2>1. PICK l : l = Len(r)
    OBVIOUS
  <2>2. l = n + 1
    BY <1>4, <2>1
  <2>3. /\ \A j \in 1 .. l : IsItem(c, frames, r[j])
        /\ \A j \in 1 .. l : Behind(c, frames, r[j]) = IF j < l THEN Place(c, frames, r[j + 1]) ELSE Behind(c, frames, x)
    BY <1>7, <2>2
  <2>4. QED
    BY <1>4, <1>5, <1>6, <2>1, <2>3 DEF EchoChain
<1>9. QED
  BY <1>1, <1>3, <1>4, <1>8, Zenon

LEMMA EchoPop ==
    ASSUME NEW c, NEW frames, NEW q, NEW start, NEW end, EchoChain(c, frames, q, start, end), q # << >>
    PROVE  /\ EchoChain(c, frames, Tail(q), Behind(c, frames, Head(q)), end) /\ Len(Tail(q)) = Len(q) - 1
           /\ Len(q) \in Nat \ {0} /\ IsItem(c, frames, Head(q)) /\ start = Place(c, frames, Head(q))
<1>1. PICK r : r = Tail(q)
  OBVIOUS
<1>2. PICK n : n = Len(q)
  OBVIOUS
<1>3. /\ r \in Seq(Items) /\ n \in Nat \ {0} /\ Len(r) = n - 1 /\ Head(q) = q[1]
      /\ \A j \in 1 .. n - 1 : r[j] = q[j + 1]
      /\ 1 \in 1 .. n /\ (r = << >> <=> n - 1 = 0) /\ (r # << >> => Head(r) = r[1])
  <2>1. q \in Seq(Items)
    BY DEF EchoChain
  <2>2. /\ Len(q) \in Nat \ {0} /\ Head(q) = q[1]
        /\ r \in Seq(Items) /\ Len(r) = Len(q) - 1 /\ \A j \in 1 .. Len(q) - 1 : r[j] = q[j + 1]
        /\ (r = << >> <=> Len(q) - 1 = 0) /\ (r # << >> => Head(r) = r[1])
    BY <1>1, <2>1, TailFacts
  <2>3. QED
    BY <1>2, <2>2
<1>4. IsItem(c, frames, q[1]) /\ Behind(c, frames, q[1]) = IF 1 < n THEN Place(c, frames, q[1 + 1]) ELSE end
  BY <1>2, <1>3 DEF EchoChain
<1>5. (r = << >> <=> ~(1 < n)) /\ (r # << >> => Head(r) = q[1 + 1])
  BY <1>3
<1>6. ASSUME NEW j \in 1 .. n - 1
      PROVE  /\ IsItem(c, frames, r[j])
             /\ Behind(c, frames, r[j]) = IF j < n - 1 THEN Place(c, frames, r[j + 1]) ELSE end
  <2>1. j + 1 \in 1 .. n /\ (j < n - 1 <=> j + 1 < n) /\ (j < n - 1 => j + 1 \in 1 .. n - 1)
    BY <1>3
  <2>2. /\ IsItem(c, frames, q[j + 1])
        /\ Behind(c, frames, q[j + 1]) = IF j + 1 < n THEN Place(c, frames, q[(j + 1) + 1]) ELSE end
    BY <1>2, <2>1 DEF EchoChain
  <2>3. r[j] = q[j + 1] /\ (j < n - 1 => r[j + 1] = q[(j + 1) + 1])
    BY <1>3, <2>1
  <2>4. QED
    BY <2>1, <2>2, <2>3
<1>7. Behind(c, frames, Head(q)) = IF r = << >> THEN end ELSE Place(c, frames, Head(r))
  BY <1>3, <1>4, <1>5
<1>8. EchoChain(c, frames, r, Behind(c, frames, Head(q)), end)
  <2>1. PICK l : l = Len(r)
    OBVIOUS
  <2>2. /\ \A j \in 1 .. l : IsItem(c, frames, r[j])
        /\ \A j \in 1 .. l : Behind(c, frames, r[j]) = IF j < l THEN Place(c, frames, r[j + 1]) ELSE end
    BY <1>3, <1>6, <2>1
  <2>3. QED
    BY <1>3, <1>7, <2>1, <2>2 DEF EchoChain
<1>9. start = Place(c, frames, Head(q))
  BY DEF EchoChain
<1>10. QED
  BY <1>1, <1>2, <1>3, <1>4, <1>8, <1>9

\* The place of the byte that the buffer gets next, with the stack at beat x.
Awaited(c, frames, x) ==
    << Wanted(c, frames, x[1] - 1) + 1,
       IF x[1] <= Len(frames) /\ Wants(c, frames[x[1]]) /\ x[2] > 3 THEN x[2] - 2 ELSE 1 >>

AwaitedAt(c, frames, p, b) ==
    /\ b = Beats(frames[p]) =>
         Awaited(c, frames, NextBeat(frames, << p, b >>)) = << Wanted(c, frames, p) + 1, 1 >>
    /\ b # Beats(frames[p]) =>
         Awaited(c, frames, NextBeat(frames, << p, b >>))
           = << Wanted(c, frames, p - 1) + 1, IF Wants(c, frames[p]) /\ b + 1 > 3 THEN b - 1 ELSE 1 >>
    /\ Awaited(c, frames, << p, b >>)
         = << Wanted(c, frames, p - 1) + 1, IF Wants(c, frames[p]) /\ b > 3 THEN b - 2 ELSE 1 >>

RequestAt(c, frames, p, b) ==
    /\ p \in Nat \ {0} /\ b \in Nat \ {0} /\ b <= Beats(frames[p]) /\ Beats(frames[p]) \in Nat
    /\ Wants(c, frames[p]) => Beats(frames[p]) = 2 + frames[p].size /\ frames[p].size \in Nat \ {0}
    /\ Wants(c, frames[p]) => Wanted(c, frames, p) = Wanted(c, frames, p - 1) + 1
    /\ ~Wants(c, frames[p]) => Wanted(c, frames, p) = Wanted(c, frames, p - 1)
    /\ Wanted(c, frames, p - 1) \in Nat /\ Wanted(c, frames, p) \in Nat

LEMMA AwaitedNext ==
    ASSUME NEW c, NEW frames \in Scripts, NEW p \in 1 .. Len(frames), NEW b \in 1 .. Beats(frames[p])
    PROVE  AwaitedAt(c, frames, p, b) /\ RequestAt(c, frames, p, b)
<1>1. Len(frames) \in Nat /\ Beats(frames[p]) \in Nat
  BY InputFacts
<1>2. p \in Nat \ {0} /\ b \in Nat \ {0} /\ p <= Len(frames) /\ b <= Beats(frames[p])
  BY <1>1
<1>3. Wants(c, frames[p]) => Beats(frames[p]) = 2 + frames[p].size /\ frames[p].size \in Nat \ {0}
  <2>1. SUFFICES ASSUME Wants(c, frames[p])
        PROVE  Beats(frames[p]) = 2 + frames[p].size /\ frames[p].size \in Nat \ {0}
    OBVIOUS
  <2>2. frames[p].type = "ip"
    BY <2>1 DEF Wants
  <2>3. Beats(frames[p]) = 2 + frames[p].size /\ frames[p].size \in 1 .. Max16
    BY <2>2, InputFacts
  <2>4. QED
    BY <2>3, WidthNat
<1>4. ASSUME b = Beats(frames[p])
      PROVE  Awaited(c, frames, NextBeat(frames, << p, b >>)) = << Wanted(c, frames, p) + 1, 1 >>
  <2>1. NextBeat(frames, << p, b >>) = << p + 1, 1 >>
    BY <1>4 DEF NextBeat
  <2>2. p + 1 - 1 = p /\ ~(1 > 3)
    BY <1>2
  <2>3. Awaited(c, frames, << p + 1, 1 >>) = << Wanted(c, frames, p) + 1, 1 >>
    BY <2>2 DEF Awaited
  <2>4. QED
    BY <2>1, <2>3
<1>5. ASSUME b # Beats(frames[p])
      PROVE  Awaited(c, frames, NextBeat(frames, << p, b >>))
               = << Wanted(c, frames, p - 1) + 1, IF Wants(c, frames[p]) /\ b + 1 > 3 THEN b - 1 ELSE 1 >>
  <2>1. NextBeat(frames, << p, b >>) = << p, b + 1 >>
    BY <1>5 DEF NextBeat
  <2>2. b + 1 - 2 = b - 1
    BY <1>2
  <2>3. Awaited(c, frames, << p, b + 1 >>)
          = << Wanted(c, frames, p - 1) + 1, IF Wants(c, frames[p]) /\ b + 1 > 3 THEN b - 1 ELSE 1 >>
    BY <1>2, <2>2 DEF Awaited
  <2>4. QED
    BY <2>1, <2>3
<1>6. Awaited(c, frames, << p, b >>)
        = << Wanted(c, frames, p - 1) + 1, IF Wants(c, frames[p]) /\ b > 3 THEN b - 2 ELSE 1 >>
  BY <1>2 DEF Awaited
<1>7. PICK l \in Nat : p = l + 1 /\ l = p - 1
  <2>1. p - 1 \in Nat /\ p = p - 1 + 1
    BY <1>2
  <2>2. QED
    BY <2>1
<1>8. /\ Wanted(c, frames, l) \in Nat /\ Wanted(c, frames, p) \in Nat
      /\ Wants(c, frames[p]) => Wanted(c, frames, p) = Wanted(c, frames, l) + 1
      /\ ~Wants(c, frames[p]) => Wanted(c, frames, p) = Wanted(c, frames, l)
  BY <1>7, WantedFacts
<1>9. AwaitedAt(c, frames, p, b)
  BY <1>4, <1>5, <1>6, Zenon DEF AwaitedAt
<1>10. RequestAt(c, frames, p, b)
  BY <1>1, <1>2, <1>3, <1>7, <1>8 DEF RequestAt
<1>11. QED
  BY <1>9, <1>10

\* A byte of a request, in the order the buffer gets them.
Fits(c, frames, p, b, x) ==
    /\ x \in Items /\ IsItem(c, frames, x)
    /\ Place(c, frames, x) = Awaited(c, frames, << p, b >>)
    /\ Behind(c, frames, x) = Awaited(c, frames, NextBeat(frames, << p, b >>))

LEMMA Gets ==
    ASSUME NEW c, NEW frames \in Scripts, NEW p \in 1 .. Len(frames), NEW b \in 1 .. Beats(frames[p]),
           Wants(c, frames[p]), b >= 3, NEW x, x = Item(frames, << p, b - 2 >>)
    PROVE  Fits(c, frames, p, b, x)
<1>0. AwaitedAt(c, frames, p, b) /\ RequestAt(c, frames, p, b)
  BY AwaitedNext
<1>1. PICK n \in Nat, m \in Nat, s \in Nat, w \in Nat, v \in Nat :
        n = p /\ m = b - 2 /\ s = frames[p].size /\ w = Wanted(c, frames, p - 1) /\ v = Wanted(c, frames, p)
  <2>1. b - 2 \in Nat
    BY <1>0 DEF RequestAt
  <2>2. QED
    BY <1>0, <2>1 DEF RequestAt
<1>2. /\ Beats(frames[p]) = 2 + s /\ b \in Nat /\ b <= 2 + s /\ v = w + 1 /\ m # 0
      /\ b = 2 + s => Awaited(c, frames, NextBeat(frames, << p, b >>)) = << v + 1, 1 >>
      /\ b # 2 + s => Awaited(c, frames, NextBeat(frames, << p, b >>)) = << w + 1, IF b + 1 > 3 THEN b - 1 ELSE 1 >>
      /\ Awaited(c, frames, << p, b >>) = << w + 1, IF b > 3 THEN b - 2 ELSE 1 >>
  <2>1. Beats(frames[p]) = 2 + s /\ b \in Nat /\ b <= 2 + s /\ v = w + 1
    BY <1>0, <1>1 DEF RequestAt
  <2>2. b - 2 # 0
    BY <2>1
  <2>3. b = Beats(frames[p]) =>
          Awaited(c, frames, NextBeat(frames, << p, b >>)) = << Wanted(c, frames, p) + 1, 1 >>
    BY <1>0, Zenon DEF AwaitedAt
  <2>4. b # Beats(frames[p]) =>
          Awaited(c, frames, NextBeat(frames, << p, b >>))
            = << Wanted(c, frames, p - 1) + 1, IF Wants(c, frames[p]) /\ b + 1 > 3 THEN b - 1 ELSE 1 >>
    BY <1>0, Zenon DEF AwaitedAt
  <2>5. Awaited(c, frames, << p, b >>)
          = << Wanted(c, frames, p - 1) + 1, IF Wants(c, frames[p]) /\ b > 3 THEN b - 2 ELSE 1 >>
    BY <1>0, Zenon DEF AwaitedAt
  <2>6. /\ b = 2 + s => Awaited(c, frames, NextBeat(frames, << p, b >>)) = << v + 1, 1 >>
        /\ b # 2 + s => Awaited(c, frames, NextBeat(frames, << p, b >>)) = << w + 1, IF b + 1 > 3 THEN b - 1 ELSE 1 >>
        /\ Awaited(c, frames, << p, b >>) = << w + 1, IF b > 3 THEN b - 2 ELSE 1 >>
    BY <1>1, <2>1, <2>3, <2>4, <2>5, Zenon
  <2>7. QED
    BY <1>1, <2>1, <2>2, <2>6, Zenon
<1>3. m <= s /\ (m = s <=> b = 2 + s)
  <2>1. b \in Nat /\ b <= 2 + s /\ m = b - 2
    BY <1>1, <1>2, Zenon
  <2>2. QED
    BY <2>1
<1>4. x \in Items /\ x.byte = << n, m >> /\ (x.last <=> m = s) /\ x.byte[1] = n /\ x.byte[2] = m
  <2>1. x = Item(frames, << n, m >>) /\ frames[n].size = s
    BY <1>1, Zenon
  <2>2. /\ Item(frames, << n, m >>) \in Items /\ Item(frames, << n, m >>).byte = << n, m >>
        /\ Item(frames, << n, m >>).last <=> m = frames[n].size
        /\ << n, m >>[1] = n /\ << n, m >>[2] = m
    BY ItemFacts
  <2>3. QED
    BY <2>1, <2>2, Zenon
<1>5. IsItem(c, frames, x)
  <2>1. n \in 1 .. Len(frames) /\ m \in Nat \ {0} /\ m <= frames[n].size
    BY <1>1, <1>2, <1>3
  <2>2. x = Item(frames, << n, m >>) /\ Wants(c, frames[n])
    BY <1>1, Zenon
  <2>3. QED
    BY <2>1, <2>2, Zenon DEF IsItem
<1>6. Place(c, frames, x) = << v, m >>
  BY <1>1, <1>4 DEF Place
<1>7. m = IF b > 3 THEN b - 2 ELSE 1
  BY <1>1, <1>2
<1>8. Place(c, frames, x) = Awaited(c, frames, << p, b >>)
  BY <1>2, <1>6, <1>7
<1>9. Behind(c, frames, x) = IF m = s THEN << v + 1, 1 >> ELSE << v, m + 1 >>
  BY <1>1, <1>4 DEF Behind
<1>10. m + 1 = IF b + 1 > 3 THEN b - 1 ELSE 1
  BY <1>1, <1>2
<1>11. Behind(c, frames, x) = Awaited(c, frames, NextBeat(frames, << p, b >>))
  <2>1. CASE m = s
    BY <1>2, <1>3, <1>9, <2>1, Zenon
  <2>2. CASE m # s
    BY <1>2, <1>3, <1>9, <1>10, <2>2, Zenon
  <2>3. QED
    BY <2>1, <2>2
<1>12. QED
  BY <1>4, <1>5, <1>8, <1>11 DEF Fits

\* A beat that is not a byte of a request.
LEMMA Misses ==
    ASSUME NEW c, NEW frames \in Scripts, NEW p \in 1 .. Len(frames), NEW b \in 1 .. Beats(frames[p]),
           ~Wants(c, frames[p]) \/ b < 3
    PROVE  /\ Awaited(c, frames, NextBeat(frames, << p, b >>)) = Awaited(c, frames, << p, b >>)
           /\ b = Beats(frames[p]) => ~Wants(c, frames[p])
<1>0. AwaitedAt(c, frames, p, b) /\ RequestAt(c, frames, p, b)
  BY AwaitedNext
<1>1. b \in Nat /\ (Wants(c, frames[p]) => Beats(frames[p]) = 2 + frames[p].size /\ frames[p].size \in Nat \ {0})
  BY <1>0 DEF RequestAt
<1>2. b = Beats(frames[p]) => ~Wants(c, frames[p])
  BY <1>1
<1>3. ~(Wants(c, frames[p]) /\ b > 3) /\ ~(Wants(c, frames[p]) /\ b + 1 > 3)
  BY <1>1
<1>4. Awaited(c, frames, << p, b >>) = << Wanted(c, frames, p - 1) + 1, 1 >>
  <2>1. Awaited(c, frames, << p, b >>)
          = << Wanted(c, frames, p - 1) + 1, IF Wants(c, frames[p]) /\ b > 3 THEN b - 2 ELSE 1 >>
    BY <1>0, Zenon DEF AwaitedAt
  <2>2. QED
    BY <1>3, <2>1, Zenon
<1>5. CASE b = Beats(frames[p])
  <2>1. Awaited(c, frames, NextBeat(frames, << p, b >>)) = << Wanted(c, frames, p) + 1, 1 >>
    BY <1>0, <1>5, Zenon DEF AwaitedAt
  <2>2. Wanted(c, frames, p) = Wanted(c, frames, p - 1)
    BY <1>0, <1>2, <1>5 DEF RequestAt
  <2>3. QED
    BY <1>2, <1>4, <2>1, <2>2
<1>6. CASE b # Beats(frames[p])
  <2>1. b # Beats(frames[p]) =>
          Awaited(c, frames, NextBeat(frames, << p, b >>))
            = << Wanted(c, frames, p - 1) + 1, IF Wants(c, frames[p]) /\ b + 1 > 3 THEN b - 1 ELSE 1 >>
    BY <1>0, Zenon DEF AwaitedAt
  <2>2. QED
    BY <1>2, <1>3, <1>4, <1>6, <2>1, Zenon
<1>7. QED
  BY <1>5, <1>6

\* A byte goes to the buffer, and what is left of the frame; and none does.
Pushing(idle, next) ==
    /\ Pos[1] \in 1 .. Len(input) /\ Wants(core, input[Pos[1]]) /\ F = input[Pos[1]]
    /\ [byte |-> HwByte, last |-> IsLast] \in Items
    /\ IsItem(core, input, [byte |-> HwByte, last |-> IsLast])
    /\ Place(core, input, [byte |-> HwByte, last |-> IsLast]) = Awaited(core, input, Pos)
    /\ Behind(core, input, [byte |-> HwByte, last |-> IsLast]) = Awaited(core, input, next)
    /\ next[1] = IF IsLast THEN Pos[1] + 1 ELSE Pos[1]

Passing(next) ==
    /\ Awaited(core, input, next) = Awaited(core, input, Pos)
    /\ \/ next[1] = Pos[1]
       \/ Pos[1] \in 1 .. Len(input) /\ next[1] = Pos[1] + 1 /\ ~Wants(core, input[Pos[1]])

LEMMA EchoFeed ==
    ASSUME FeedInv, StackInv, NEW idle, RxNext(idle, EchoReady)
    PROVE  \E next : next = Pos' /\ (IF EchoPushes(idle) THEN Pushing(idle, next) ELSE Passing(next))
<1>1. IsBeat(input, Pos) /\ Pos \in Nat \X Nat /\ input \in Scripts /\ core \in {"full", "small"}
  BY HeadFacts DEF FeedInv
<1>2. PICK p \in Nat, b \in Nat : Pos = << p, b >> /\ Pos[1] = p /\ Pos[2] = b
  BY <1>1
<1>3. PICK next : next = Pos'
  OBVIOUS
<1>4. next = IF HwTakes(idle, EchoReady) THEN NextBeat(input, << p, b >>) ELSE << p, b >>
  <2>1. Broadcast(idle, EchoReady) /\ UNCHANGED configVars
    BY DEF RxNext
  <2>2. Pos' = IF HwTakes(idle, EchoReady) THEN NextBeat(input, Pos) ELSE Pos
    BY <2>1, FeedStep
  <2>3. QED
    BY <1>2, <1>3, <2>2, Zenon
<1>5. NextBeat(input, << p, b >>)[1] = IF b = Beats(input[p]) THEN p + 1 ELSE p
  BY DEF NextBeat
<1>6. ASSUME HwValid(idle)
      PROVE  /\ p \in 1 .. Len(input) /\ b \in 1 .. Beats(input[p]) /\ F = input[p]
             /\ (IsLast <=> b = Beats(input[p])) /\ HwByte = << p, b - 2 >>
             /\ ToIcmp(idle) <=> input[p].type = "ip" /\ b >= 3 /\ ipRx = "RECEIVE" /\ IpUserOf(input[p]) = "icmp"
             /\ ReceiverInv(input[p], b) /\ icmpRx \in {"IDLE", "RECEIVE"} /\ ipRx \in {"IDLE", "RECEIVE", "DROP"}
  <2>1. /\ Pos[1] \in 1 .. Len(input) /\ F = input[Pos[1]]
        /\ IsLast <=> Pos[2] = Beats(input[Pos[1]])
        /\ Pos[2] \in 1 .. Beats(input[Pos[1]])
        /\ HwByte = << Pos[1], Pos[2] - 2 >>
        /\ ToIcmp(idle) <=> /\ input[Pos[1]].type = "ip" /\ Pos[2] >= 3 /\ ipRx = "RECEIVE"
                            /\ IpUserOf(input[Pos[1]]) = "icmp"
    BY <1>6, View
  <2>2. Pos[1] <= Len(input)
    BY <1>6, HeadFacts
  <2>3. ReceiverInv(input[Pos[1]], Pos[2]) /\ icmpRx \in {"IDLE", "RECEIVE"} /\ ipRx \in {"IDLE", "RECEIVE", "DROP"}
    BY <2>2 DEF StackInv, ReceiverTypes
  <2>4. QED
    BY <1>2, <2>1, <2>3, Zenon
<1>7. CASE EchoPushes(idle)
  <2>1. ToIcmp(idle) /\ icmpRx = "RECEIVE" /\ EchoReady
    BY <1>7 DEF EchoPushes, EchoSink
  <2>2. /\ HwValid(idle) /\ F.type = "ip" /\ Beat >= 3 /\ ipRx = "RECEIVE" /\ IpUser = "icmp"
    BY <2>1 DEF ToIcmp, UserValid, IpValid
  <2>3. /\ p \in 1 .. Len(input) /\ b \in 1 .. Beats(input[p]) /\ F = input[p]
        /\ (IsLast <=> b = Beats(input[p])) /\ HwByte = << p, b - 2 >>
        /\ input[p].type = "ip" /\ b >= 3 /\ ipRx = "RECEIVE" /\ IpUserOf(input[p]) = "icmp"
        /\ ReceiverInv(input[p], b)
    BY <1>6, <2>1, <2>2
  <2>4. Wants(core, input[p])
    <3>1. input[p].ok
      BY <2>3 DEF ReceiverInv
    <3>2. core = "full" /\ input[p].proto = "icmp"
      BY <1>1, <2>3 DEF IpUserOf
    <3>3. QED
      BY <2>3, <3>1, <3>2 DEF Wants
  <2>5. HwTakes(idle, EchoReady)
    <3>1. StateReady(icmpRx, EchoReady)
      BY <2>1 DEF StateReady
    <3>2. IpUserReady(idle, EchoReady)
      BY <2>2, <3>1 DEF IpUserReady
    <3>3. StateReady(ipRx, IpUserReady(idle, EchoReady))
      BY <2>2, <3>2 DEF StateReady
    <3>4. HwReady(idle, EchoReady)
      BY <2>2, <3>3 DEF HwReady
    <3>5. QED
      BY <2>2, <3>4 DEF HwTakes
  <2>6. next = NextBeat(input, << p, b >>) /\ next[1] = IF IsLast THEN p + 1 ELSE p
    BY <1>4, <1>5, <2>3, <2>5
  <2>7. PICK x : x = [byte |-> HwByte, last |-> IsLast]
    OBVIOUS
  <2>8. x = Item(input, << p, b - 2 >>)
    <3>1. PICK s, l : s = input[p].size /\ l = Beats(input[p])
      OBVIOUS
    <3>2. l = 2 + s /\ s \in Nat
      <4>1. RequestAt(core, input, p, b)
        BY <1>1, <2>3, AwaitedNext
      <4>2. QED
        BY <2>4, <3>1, <4>1 DEF RequestAt
    <3>3. (b = l) = (b - 2 = s)
      BY <3>2
    <3>4. IsLast = (b = l)
      BY <1>2, <2>3, <3>1 DEF IsLast
    <3>5. << p, b - 2 >>[1] = p /\ << p, b - 2 >>[2] = b - 2
      OBVIOUS
    <3>6. Item(input, << p, b - 2 >>) = [byte |-> << p, b - 2 >>, last |-> b - 2 = s]
      BY <3>1, <3>5, Zenon DEF Item
    <3>7. QED
      BY <2>3, <2>7, <3>3, <3>4, <3>6, Zenon
  <2>9. /\ x \in Items /\ IsItem(core, input, x)
        /\ Place(core, input, x) = Awaited(core, input, << p, b >>)
        /\ Behind(core, input, x) = Awaited(core, input, NextBeat(input, << p, b >>))
    <3>1. Fits(core, input, p, b, x)
      BY <1>1, <2>3, <2>4, <2>8, Gets
    <3>2. QED
      BY <3>1 DEF Fits
  <2>10. Pushing(idle, next)
    BY <1>2, <2>3, <2>4, <2>6, <2>7, <2>9, Zenon DEF Pushing
  <2>11. QED
    BY <1>3, <1>7, <2>10
<1>8. CASE ~EchoPushes(idle)
  <2>1. CASE ~HwTakes(idle, EchoReady)
    <3>1. next = << p, b >>
      BY <1>4, <2>1
    <3>2. Passing(next)
      BY <1>2, <3>1, Zenon DEF Passing
    <3>3. QED
      BY <1>3, <1>8, <3>2
  <2>2. CASE HwTakes(idle, EchoReady)
    <3>1. HwValid(idle) /\ (ToIcmp(idle) => icmpRx = "DROP" \/ (icmpRx = "RECEIVE" /\ EchoReady))
      BY <2>2, TakeFacts
    <3>2. /\ p \in 1 .. Len(input) /\ b \in 1 .. Beats(input[p])
          /\ ToIcmp(idle) <=> input[p].type = "ip" /\ b >= 3 /\ ipRx = "RECEIVE" /\ IpUserOf(input[p]) = "icmp"
          /\ ReceiverInv(input[p], b) /\ icmpRx \in {"IDLE", "RECEIVE"} /\ ipRx \in {"IDLE", "RECEIVE", "DROP"}
      BY <1>6, <3>1
    <3>3. ~ToIcmp(idle)
      BY <1>8, <3>1, <3>2 DEF EchoPushes, EchoSink
    <3>4. ~Wants(core, input[p]) \/ b < 3
      <4>1. SUFFICES ASSUME Wants(core, input[p]), b >= 3 PROVE FALSE
        OBVIOUS
      <4>2. core = "full" /\ input[p].type = "ip" /\ input[p].ok /\ input[p].proto = "icmp"
        BY <4>1 DEF Wants
      <4>3. ipRx = "RECEIVE"
        BY <3>2, <4>1, <4>2 DEF ReceiverInv
      <4>4. IpUserOf(input[p]) = "icmp"
        BY <4>2 DEF IpUserOf
      <4>5. QED
        BY <3>2, <3>3, <4>1, <4>2, <4>3, <4>4
    <3>5. /\ Awaited(core, input, NextBeat(input, << p, b >>)) = Awaited(core, input, << p, b >>)
          /\ b = Beats(input[p]) => ~Wants(core, input[p])
      BY <1>1, <3>2, <3>4, Misses
    <3>6. next = NextBeat(input, << p, b >>) /\ next[1] = IF b = Beats(input[p]) THEN p + 1 ELSE p
      BY <1>4, <1>5, <2>2
    <3>7. Passing(next)
      <4>1. Awaited(core, input, next) = Awaited(core, input, Pos)
        BY <1>2, <3>5, <3>6, Zenon
      <4>2. next[1] = p \/ (next[1] = p + 1 /\ ~Wants(core, input[p]))
        BY <3>5, <3>6
      <4>3. QED
        BY <1>2, <3>2, <4>1, <4>2, Zenon DEF Passing
    <3>8. QED
      BY <1>3, <1>8, <3>7
  <2>3. QED
    BY <2>1, <2>2
<1>9. QED
  BY <1>7, <1>8

-----------------------------------------------------------------------------
(* The requests' parameters. *)

ParamsOf(f) == [src |-> f.src, length |-> f.length, checksum |-> f.checksum]

AllParams(frames) == {ParamsOf(frames[n]) : n \in 1 .. Len(frames)}

\* In ps are those of the requests before frame p that have not been answered, r have been.
ParamsAre(c, frames, ps, r, p) ==
    /\ ps \in Seq(AllParams(frames)) /\ r \in Nat /\ r + Len(ps) = Wanted(c, frames, p - 1)
    /\ \A n \in 1 .. p - 1 : Wants(c, frames[n]) /\ Wanted(c, frames, n) > r =>
         ps[Wanted(c, frames, n) - r] = ParamsOf(frames[n])

LEMMA ParamsPush ==
    ASSUME NEW c, NEW frames, NEW ps, NEW r, NEW p \in 1 .. Len(frames), Len(frames) \in Nat,
           ParamsAre(c, frames, ps, r, p), Wants(c, frames[p])
    PROVE  /\ ParamsAre(c, frames, ps \o << ParamsOf(frames[p]) >>, r, p + 1)
           /\ Len(ps \o << ParamsOf(frames[p]) >>) = Len(ps) + 1
<1>1. /\ ps \in Seq(AllParams(frames)) /\ r \in Nat /\ r + Len(ps) = Wanted(c, frames, p - 1)
      /\ \A n \in 1 .. p - 1 : Wants(c, frames[n]) /\ Wanted(c, frames, n) > r =>
           ps[Wanted(c, frames, n) - r] = ParamsOf(frames[n])
  BY DEF ParamsAre
<1>2. PICK l \in Nat, q \in {ps \o << ParamsOf(frames[p]) >>} : l = Len(ps) /\ q = ps \o << ParamsOf(frames[p]) >>
  BY <1>1, LenProperties
<1>3. ParamsOf(frames[p]) \in AllParams(frames)
  BY DEF AllParams
<1>4. /\ q \in Seq(AllParams(frames)) /\ Len(q) = l + 1 /\ q[l + 1] = ParamsOf(frames[p])
      /\ \A j \in 1 .. l : q[j] = ps[j]
  BY <1>1, <1>2, <1>3
<1>5. PICK m \in Nat : m = p - 1 /\ p = m + 1 /\ p + 1 - 1 = p
  <2>1. p \in Nat \ {0}
    OBVIOUS
  <2>2. p - 1 \in Nat /\ p = p - 1 + 1 /\ p + 1 - 1 = p
    BY <2>1
  <2>3. QED
    BY <2>2
<1>6. Wanted(c, frames, p) = Wanted(c, frames, m) + 1 /\ Wanted(c, frames, m) \in Nat
  BY <1>5, WantedFacts
<1>7. Wanted(c, frames, m) = r + l
  BY <1>1, <1>2, <1>5
<1>8. ASSUME NEW n \in 1 .. p, Wants(c, frames[n]), Wanted(c, frames, n) > r
      PROVE  q[Wanted(c, frames, n) - r] = ParamsOf(frames[n])
  <2>1. CASE n = p
    <3>1. Wanted(c, frames, p) - r = l + 1
      BY <1>1, <1>6, <1>7
    <3>2. QED
      BY <1>4, <2>1, <3>1, Zenon
  <2>2. CASE n # p
    <3>1. n \in 1 .. m /\ n \in Nat /\ n <= m
      BY <1>5, <2>2
    <3>2. ps[Wanted(c, frames, n) - r] = ParamsOf(frames[n])
      BY <1>1, <1>5, <1>8, <3>1
    <3>3. PICK w \in Nat : w = Wanted(c, frames, n)
      BY <3>1, WantedFacts
    <3>4. w <= r + l
      BY <1>5, <1>7, <3>1, <3>3, WantedGrows
    <3>5. w - r \in 1 .. l
      BY <1>1, <1>8, <3>3, <3>4
    <3>6. QED
      BY <1>4, <3>2, <3>3, <3>5
  <2>3. QED
    BY <2>1, <2>2
<1>9. ParamsAre(c, frames, q, r, p + 1)
  <2>1. r + Len(q) = Wanted(c, frames, p)
    BY <1>1, <1>4, <1>6, <1>7
  <2>2. QED
    BY <1>1, <1>4, <1>5, <1>8, <2>1 DEF ParamsAre
<1>10. QED
  BY <1>2, <1>4, <1>9

LEMMA ParamsSkip ==
    ASSUME NEW c, NEW frames, NEW ps, NEW r, NEW p \in Nat \ {0},
           ParamsAre(c, frames, ps, r, p), ~Wants(c, frames[p])
    PROVE  ParamsAre(c, frames, ps, r, p + 1)
<1>1. PICK m \in Nat : m = p - 1 /\ p = m + 1 /\ p + 1 - 1 = p
  <2>1. p - 1 \in Nat /\ p = p - 1 + 1 /\ p + 1 - 1 = p
    OBVIOUS
  <2>2. QED
    BY <2>1
<1>2. Wanted(c, frames, p) = Wanted(c, frames, m)
  BY <1>1, WantedFacts
<1>3. \A n \in 1 .. p : Wants(c, frames[n]) => n \in 1 .. p - 1
  OBVIOUS
<1>4. QED
  BY <1>1, <1>2, <1>3 DEF ParamsAre

LEMMA ParamsPop ==
    ASSUME NEW c, NEW frames, NEW ps, NEW r, NEW p \in Nat \ {0}, ParamsAre(c, frames, ps, r, p), ps # << >>
    PROVE  ParamsAre(c, frames, Tail(ps), r + 1, p) /\ Len(Tail(ps)) = Len(ps) - 1 /\ Len(ps) \in Nat \ {0}
<1>1. /\ ps \in Seq(AllParams(frames)) /\ r \in Nat /\ r + Len(ps) = Wanted(c, frames, p - 1)
      /\ \A n \in 1 .. p - 1 : Wants(c, frames[n]) /\ Wanted(c, frames, n) > r =>
           ps[Wanted(c, frames, n) - r] = ParamsOf(frames[n])
  BY DEF ParamsAre
<1>2. PICK l \in Nat \ {0}, q \in {Tail(ps)} : l = Len(ps) /\ q = Tail(ps)
  BY <1>1, TailFacts
<1>3. q \in Seq(AllParams(frames)) /\ Len(q) = l - 1 /\ \A j \in 1 .. l - 1 : q[j] = ps[j + 1]
  <2>1. /\ Tail(ps) \in Seq(AllParams(frames)) /\ Len(Tail(ps)) = Len(ps) - 1
        /\ \A j \in 1 .. Len(ps) - 1 : Tail(ps)[j] = ps[j + 1]
    BY <1>1, TailFacts
  <2>2. QED
    BY <1>2, <2>1
<1>4. PICK m \in Nat : m = p - 1
  BY DEF ParamsAre
<1>5. Wanted(c, frames, m) = r + l
  BY <1>1, <1>2, <1>4
<1>6. ASSUME NEW n \in 1 .. m, Wants(c, frames[n]), Wanted(c, frames, n) > r + 1
      PROVE  q[Wanted(c, frames, n) - (r + 1)] = ParamsOf(frames[n])
  <2>1. PICK w \in Nat : w = Wanted(c, frames, n)
    BY WantedFacts
  <2>2. w <= r + l
    BY <1>5, <2>1, WantedGrows
  <2>3. w > r /\ w - (r + 1) \in 1 .. l - 1 /\ w - (r + 1) + 1 = w - r
    BY <1>1, <1>6, <2>1, <2>2
  <2>4. ps[w - r] = ParamsOf(frames[n])
    BY <1>1, <1>4, <1>6, <2>1, <2>3
  <2>5. QED
    BY <1>3, <2>1, <2>3, <2>4
<1>7. ParamsAre(c, frames, q, r + 1, p)
  <2>1. r + 1 + Len(q) = Wanted(c, frames, m) /\ r + 1 \in Nat
    BY <1>1, <1>3, <1>5
  <2>2. QED
    BY <1>3, <1>4, <1>6, <2>1 DEF ParamsAre
<1>8. QED
  BY <1>2, <1>3, <1>7

\* The head's are those of the next request to be answered.
LEMMA ParamsHead ==
    ASSUME NEW c, NEW frames, NEW ps, NEW r, NEW p \in Nat \ {0}, ParamsAre(c, frames, ps, r, p), ps # << >>,
           NEW n \in Nat \ {0}, Wants(c, frames[n]), Wanted(c, frames, n) = r + 1
    PROVE  Head(ps) = ParamsOf(frames[n])
<1>1. /\ ps \in Seq(AllParams(frames)) /\ r \in Nat /\ r + Len(ps) = Wanted(c, frames, p - 1)
      /\ \A j \in 1 .. p - 1 : Wants(c, frames[j]) /\ Wanted(c, frames, j) > r =>
           ps[Wanted(c, frames, j) - r] = ParamsOf(frames[j])
  BY DEF ParamsAre
<1>2. Len(ps) \in Nat \ {0} /\ Head(ps) = ps[1]
  BY <1>1, TailFacts
<1>3. PICK m \in Nat : m = p - 1
  BY DEF ParamsAre
<1>4. n <= m
  <2>1. SUFFICES ASSUME m < n PROVE FALSE
    BY <1>3
  <2>2. Wanted(c, frames, m) < Wanted(c, frames, n)
    BY <2>1, WantedOnce
  <2>3. PICK w : w = Wanted(c, frames, m)
    OBVIOUS
  <2>4. w = r + Len(ps) /\ w < r + 1
    BY <1>1, <1>3, <2>2, <2>3
  <2>5. QED
    BY <1>1, <1>2, <2>4
<1>5. n \in 1 .. p - 1 /\ Wanted(c, frames, n) > r /\ r + 1 - r = 1
  BY <1>1, <1>3, <1>4
<1>6. ps[1] = ParamsOf(frames[n])
  BY <1>1, <1>5
<1>7. QED
  BY <1>2, <1>6

-----------------------------------------------------------------------------
(* The replies. *)

Replies(packets, n) == Cardinality({m \in 1 .. n : packets[m].proto = "icmp"})

LEMMA RepliesGrow ==
    ASSUME NEW packets, SentPackets(packets), NEW p, Packet(p), NEW l, l = Len(packets)
    PROVE  /\ l \in Nat /\ Replies(packets, l) \in Nat
           /\ p.proto = "icmp" => Replies(Append(packets, p), l + 1) = Replies(packets, l) + 1
           /\ p.proto # "icmp" => Replies(Append(packets, p), l + 1) = Replies(packets, l)
           /\ \A n \in 1 .. l : Replies(Append(packets, p), n) = Replies(packets, n)
<1>1. PICK q : q = Append(packets, p)
  OBVIOUS
<1>2. l \in Nat /\ (\A n \in 1 .. l : q[n] = packets[n]) /\ q[l + 1] = p
  BY <1>1, SentGrows
<1>3. PICK T, U : T = {m \in 1 .. l : packets[m].proto = "icmp"} /\ U = {m \in 1 .. l + 1 : q[m].proto = "icmp"}
  OBVIOUS
<1>4. IsFiniteSet(T) /\ Cardinality(T) \in Nat
  <2>1. IsFiniteSet(1 .. l)
    BY <1>2, FS_Interval
  <2>2. T \in SUBSET (1 .. l)
    BY <1>3
  <2>3. QED
    BY <2>1, <2>2, FS_Subset, FS_CardinalityType
<1>5. p.proto = "icmp" => Cardinality(U) = Cardinality(T) + 1
  <2>1. SUFFICES ASSUME p.proto = "icmp" PROVE Cardinality(U) = Cardinality(T) + 1
    OBVIOUS
  <2>2. U = T \cup {l + 1} /\ l + 1 \notin T
    BY <1>2, <1>3, <2>1
  <2>3. QED
    BY <1>4, <2>2, FS_AddElement
<1>6. p.proto # "icmp" => U = T
  BY <1>2, <1>3
<1>7. \A n \in 1 .. l : Replies(q, n) = Replies(packets, n)
  <2>1. SUFFICES ASSUME NEW n \in 1 .. l PROVE Replies(q, n) = Replies(packets, n)
    OBVIOUS
  <2>2. {m \in 1 .. n : q[m].proto = "icmp"} = {m \in 1 .. n : packets[m].proto = "icmp"}
    BY <1>2
  <2>3. QED
    BY <2>2, Zenon DEF Replies
<1>8. Replies(q, l + 1) = Cardinality(U) /\ Replies(packets, l) = Cardinality(T)
  BY <1>3, Zenon DEF Replies
<1>9. QED
  BY <1>1, <1>2, <1>4, <1>5, <1>6, <1>7, <1>8

\* The packet is the reply to the request after the first r, with w of its bytes.
Answering(c, frames, packet, r, w) ==
    \E n \in 1 .. Len(frames) :
      Wants(c, frames[n]) /\ Wanted(c, frames, n) = r + 1 /\ packet = Reply(ParamsOf(frames[n]), Bytes(n, w))

AllReplies(c, frames, packets) ==
    \A n \in 1 .. Len(packets) : packets[n].proto = "icmp" =>
      \E m \in 1 .. Len(frames) :
        /\ Wants(c, frames[m]) /\ Wanted(c, frames, m) = Replies(packets, n)
        /\ packets[n] = Reply(ParamsOf(frames[m]), Bytes(m, frames[m].size))

LEMMA AllRepliesGrow ==
    ASSUME NEW c, NEW frames, NEW packets, SentPackets(packets), AllReplies(c, frames, packets), NEW p, Packet(p),
           p.proto = "icmp" =>
             \E m \in 1 .. Len(frames) :
               /\ Wants(c, frames[m]) /\ Wanted(c, frames, m) = Replies(packets, Len(packets)) + 1
               /\ p = Reply(ParamsOf(frames[m]), Bytes(m, frames[m].size))
    PROVE  AllReplies(c, frames, Append(packets, p))
<1>1. PICK l, q : l = Len(packets) /\ q = Append(packets, p)
  OBVIOUS
<1>2. l \in Nat /\ Len(q) = l + 1 /\ (\A n \in 1 .. l : q[n] = packets[n]) /\ q[l + 1] = p
  BY <1>1, SentGrows
<1>3. /\ p.proto = "icmp" => Replies(q, l + 1) = Replies(packets, l) + 1
      /\ \A n \in 1 .. l : Replies(q, n) = Replies(packets, n)
  BY <1>1, RepliesGrow
<1>4. SUFFICES ASSUME NEW n \in 1 .. l + 1, q[n].proto = "icmp"
      PROVE  \E m \in 1 .. Len(frames) :
               /\ Wants(c, frames[m]) /\ Wanted(c, frames, m) = Replies(q, n)
               /\ q[n] = Reply(ParamsOf(frames[m]), Bytes(m, frames[m].size))
  BY <1>1, <1>2, Zenon DEF AllReplies
<1>5. CASE n = l + 1
  <2>1. p.proto = "icmp"
    BY <1>2, <1>4, <1>5
  <2>2. PICK m \in 1 .. Len(frames) :
          /\ Wants(c, frames[m]) /\ Wanted(c, frames, m) = Replies(packets, Len(packets)) + 1
          /\ p = Reply(ParamsOf(frames[m]), Bytes(m, frames[m].size))
    BY <2>1
  <2>3. Wanted(c, frames, m) = Replies(q, n) /\ q[n] = Reply(ParamsOf(frames[m]), Bytes(m, frames[m].size))
    BY <1>1, <1>2, <1>3, <1>5, <2>1, <2>2, Zenon
  <2>4. QED
    BY <2>2, <2>3, Zenon
<1>6. CASE n # l + 1
  <2>1. n \in 1 .. l
    BY <1>2, <1>6
  <2>2. packets[n].proto = "icmp"
    BY <1>2, <1>4, <2>1, Zenon
  <2>3. PICK m \in 1 .. Len(frames) :
          /\ Wants(c, frames[m]) /\ Wanted(c, frames, m) = Replies(packets, n)
          /\ packets[n] = Reply(ParamsOf(frames[m]), Bytes(m, frames[m].size))
    BY <1>1, <2>1, <2>2, Zenon DEF AllReplies
  <2>4. Wanted(c, frames, m) = Replies(q, n) /\ q[n] = Reply(ParamsOf(frames[m]), Bytes(m, frames[m].size))
    BY <1>2, <1>3, <2>1, <2>3, Zenon
  <2>5. QED
    BY <2>3, <2>4, Zenon
<1>7. QED
  BY <1>5, <1>6

\* With parameters in the buffer its head is the next byte of the reply they are for.
NextByte(c, frames, q, ps, r, w, n) ==
    /\ n \in 1 .. Len(frames) /\ n \in Nat \ {0} /\ Wants(c, frames[n]) /\ Wanted(c, frames, n) = r + 1 /\ q # << >>
    /\ Head(q).byte = << n, w + 1 >> /\ Head(ps) = ParamsOf(frames[n])
    /\ Head(q).last <=> w + 1 = frames[n].size
    /\ Behind(c, frames, Head(q)) = IF Head(q).last THEN << r + 2, 1 >> ELSE << r + 1, w + 2 >>

LEMMA EchoHead ==
    ASSUME NEW c, NEW frames \in Scripts, NEW q, NEW ps, NEW r \in Nat, NEW w \in Nat, NEW p \in Nat \ {0}, NEW e,
           EchoChain(c, frames, q, << r + 1, w + 1 >>, << Wanted(c, frames, p - 1) + 1, e >>),
           ParamsAre(c, frames, ps, r, p), ps # << >>
    PROVE  \E n : NextByte(c, frames, q, ps, r, w, n)
<1>1. q # << >>
  <2>1. SUFFICES ASSUME q = << >> PROVE FALSE
    OBVIOUS
  <2>2. << r + 1, w + 1 >> = << Wanted(c, frames, p - 1) + 1, e >>
    BY <2>1 DEF EchoChain
  <2>3. r + 1 = Wanted(c, frames, p - 1) + 1
    BY <2>2
  <2>4. r + Len(ps) = Wanted(c, frames, p - 1) /\ ps \in Seq(AllParams(frames))
    BY DEF ParamsAre
  <2>5. Len(ps) \in Nat \ {0}
    BY <2>4, TailFacts
  <2>6. QED
    BY <2>3, <2>4, <2>5
<1>2. IsItem(c, frames, Head(q)) /\ << r + 1, w + 1 >> = Place(c, frames, Head(q))
  BY <1>1, EchoPop
<1>3. PICK n \in 1 .. Len(frames), b \in Nat \ {0} :
        Head(q) = Item(frames, << n, b >>) /\ Wants(c, frames[n]) /\ b <= frames[n].size
  BY <1>2 DEF IsItem
<1>4. n \in Nat \ {0}
  <2>1. Len(frames) \in Nat
    BY InputFacts
  <2>2. QED
    BY <2>1
<1>5. /\ Item(frames, << n, b >>).byte = << n, b >>
      /\ Item(frames, << n, b >>).last <=> b = frames[n].size
      /\ << n, b >>[1] = n /\ << n, b >>[2] = b
  BY <1>4, ItemFacts
<1>6. Place(c, frames, Head(q)) = << Wanted(c, frames, n), b >>
  BY <1>3, <1>5, Zenon DEF Place
<1>7. Wanted(c, frames, n) = r + 1 /\ b = w + 1
  BY <1>2, <1>6
<1>8. Head(q).byte = << n, w + 1 >> /\ (Head(q).last <=> w + 1 = frames[n].size)
  BY <1>3, <1>5, <1>7, Zenon
<1>9. Head(ps) = ParamsOf(frames[n])
  BY <1>3, <1>4, <1>7, ParamsHead
<1>10. Behind(c, frames, Head(q)) = IF Head(q).last THEN << r + 1 + 1, 1 >> ELSE << r + 1, w + 1 + 1 >>
  BY <1>3, <1>5, <1>7, Zenon DEF Behind
<1>11. r + 1 + 1 = r + 2 /\ w + 1 + 1 = w + 2
  OBVIOUS
<1>12. NextByte(c, frames, q, ps, r, w, n)
  BY <1>1, <1>3, <1>4, <1>7, <1>8, <1>9, <1>10, <1>11, Zenon DEF NextByte
<1>13. QED
  BY <1>12

\* Bytes of a reply that are out.
OnEcho == IF wire # NoPacket /\ grant = "icmp" THEN Len(wire.body) ELSE 0

\* The echo's step, by what becomes of the reply.
LEMMA EchoCases ==
    ASSUME SenderInv, StreamerInv, NEW S, echo.params \in Seq(S), NEW idle, NEW writes, NEW reply, NEW pushed,
           NEW ended \in Seq(S), TxNext(idle, writes, reply, pushed, ended)
    PROVE  \/ /\ Takes("icmp", idle) /\ wire # NoPacket /\ grant = "icmp" /\ echo.params # << >>
              /\ Ends("icmp", idle) <=> Head(echo.payload).last
              /\ IF Head(echo.payload).last THEN wire' = NoPacket /\ sent' = Append(sent, Now)
                 ELSE wire' = Now /\ grant' = "icmp" /\ sent' = sent
           \/ /\ ~Takes("icmp", idle) /\ ~Ends("icmp", idle)
              /\ wire # NoPacket /\ grant = "icmp" => wire' = wire /\ grant' = "icmp"
              /\ wire' # NoPacket /\ grant' = "icmp" =>
                   \/ wire # NoPacket /\ grant = "icmp" /\ wire' = wire
                   \/ /\ wire = NoPacket /\ wire' = Headers("icmp") /\ echo.params # << >>
              /\ sent' # sent => sent' = Append(sent, Now) /\ Packet(Now) /\ Now.proto = "udp"
<1>1. /\ grant \in {"udp", "icmp"}
      /\ TxValid("icmp") => echo.params # << >>
      /\ SourceLast("icmp") <=> Head(echo.payload).last
      /\ SourceLast("udp") <=> counter = level - 1
      /\ \A u : Ends(u, idle) <=> Takes(u, idle) /\ SourceLast(u)
      /\ \A u : Takes(u, idle) => u = grant
  BY DEF SenderInv, TxValid, SourceLast, StreamLast, Ends, Takes
<1>2. CASE Takes("icmp", idle)
  <2>1. grant = "icmp" /\ (Ends("icmp", idle) <=> Head(echo.payload).last)
    BY <1>1, <1>2
  <2>2. /\ wire # NoPacket /\ TxValid("icmp")
        /\ IF SourceLast("icmp") THEN wire' = NoPacket /\ sent' = Append(sent, Now)
           ELSE wire' = Now /\ grant' = "icmp" /\ sent' = sent
    BY <1>2, <2>1, WireStep
  <2>3. QED
    BY <1>1, <1>2, <2>1, <2>2
<1>3. CASE ~Takes("icmp", idle)
  <2>1. ~Ends("icmp", idle)
    BY <1>1, <1>3
  <2>2. wire # NoPacket /\ grant = "icmp" => wire' = wire /\ grant' = "icmp"
    BY <1>3, WireStep
  <2>3. ASSUME wire' # NoPacket, grant' = "icmp"
        PROVE  \/ wire # NoPacket /\ grant = "icmp" /\ wire' = wire
               \/ wire = NoPacket /\ wire' = Headers("icmp") /\ echo.params # << >>
    <3>1. \/ grant' = grant /\ wire # NoPacket
          \/ wire = NoPacket /\ TxValid(grant) /\ wire' = Headers(grant) /\ grant' = grant
      BY <2>3, WireStep
    <3>2. QED
      BY <1>1, <2>2, <2>3, <3>1
  <2>4. ASSUME sent' # sent PROVE sent' = Append(sent, Now) /\ Packet(Now) /\ Now.proto = "udp"
    <3>1. Takes(grant, idle) /\ SourceLast(grant) /\ sent' = Append(sent, Now)
      BY <2>4, WireStep
    <3>2. Takes("udp", idle) /\ counter = level - 1
      BY <1>1, <1>3, <3>1
    <3>3. /\ Now = Datagram(level, From(written - Len(tx_fifo) - counter, level))
          /\ written - Len(tx_fifo) - counter \in Nat /\ level \in Nat
      BY <3>2, StreamerStep
    <3>4. PICK a \in Nat, l \in Nat : a = written - Len(tx_fifo) - counter /\ l = level
      BY <3>3
    <3>5. Now = Datagram(l, From(a, l)) /\ From(a, l) \in Seq(Nat) /\ Len(From(a, l)) = l
      <4>1. From(a, l) \in Seq(Nat) /\ Len(From(a, l)) = l
        BY FromFacts
      <4>2. QED
        BY <3>3, <3>4, <4>1, Zenon
    <3>6. Packet(Datagram(l, From(a, l))) /\ Datagram(l, From(a, l)).proto = "udp"
      BY <3>5 DEF Datagram, Packet
    <3>7. QED
      BY <3>1, <3>5, <3>6, Zenon
  <2>5. QED
    BY <1>3, <2>1, <2>2, <2>3, <2>4
<1>4. QED
  BY <1>2, <1>3

EchoInv ==
    /\ Len(echo.payload) <= EchoDepth /\ Len(echo.params) <= ParamDepth /\ OnEcho \in Nat
    /\ EchoChain(core, input, echo.payload, << Replies(sent, Len(sent)) + 1, OnEcho + 1 >>, Awaited(core, input, Pos))
    /\ ParamsAre(core, input, echo.params, Replies(sent, Len(sent)), Pos[1])
    /\ wire # NoPacket /\ grant = "icmp" => Answering(core, input, wire, Replies(sent, Len(sent)), OnEcho)
    /\ AllReplies(core, input, sent)

\* One byte more of the reply that goes out.
LEMMA NowAnswers ==
    ASSUME FeedInv, NEW r \in Nat, NEW w \in Nat, Answering(core, input, wire, r, w), grant = "icmp",
           NEW n, NextByte(core, input, echo.payload, echo.params, r, w, n)
    PROVE  /\ Now = Reply(ParamsOf(input[n]), Bytes(n, w + 1)) /\ Len(Now.body) = w + 1
           /\ Now # NoPacket /\ Now.proto = "icmp" /\ Packet(Now)
<1>1. /\ n \in 1 .. Len(input) /\ n \in Nat \ {0} /\ Wants(core, input[n]) /\ Wanted(core, input, n) = r + 1
      /\ Head(echo.payload).byte = << n, w + 1 >>
  BY DEF NextByte
<1>2. PICK m \in 1 .. Len(input) :
        /\ Wants(core, input[m]) /\ Wanted(core, input, m) = r + 1
        /\ wire = Reply(ParamsOf(input[m]), Bytes(m, w))
  BY DEF Answering
<1>3. m = n
  <2>1. Len(input) \in Nat
    BY InputFacts DEF FeedInv
  <2>2. m \in Nat
    BY <2>1
  <2>3. QED
    BY <1>1, <1>2, <2>2, WantedSame
<1>4. PICK q, body, e : q = ParamsOf(input[n]) /\ body = Bytes(n, w) /\ e = << n, w + 1 >>
  OBVIOUS
<1>5. Now = [wire EXCEPT !.body = Append(@, e)]
  BY <1>1, <1>4 DEF Now
<1>6. [Reply(q, body) EXCEPT !.body = Append(@, e)] = Reply(q, Append(body, e))
  BY ReplyFacts
<1>7. Bytes(n, w + 1) = Append(Bytes(n, w), << n, w + 1 >>) /\ Len(Bytes(n, w + 1)) = w + 1
  <2>1. w + 1 \in Nat
    OBVIOUS
  <2>2. Len(Bytes(n, w + 1)) = w + 1
    BY <1>1, <2>1, BytesFacts
  <2>3. Bytes(n, w + 1) = Append(Bytes(n, w), << n, w + 1 >>)
    BY <1>1, BytesFacts
  <2>4. QED
    BY <2>2, <2>3
<1>8. PICK d : d = Bytes(n, w + 1)
  OBVIOUS
<1>9. Now = Reply(q, d)
  BY <1>2, <1>3, <1>4, <1>5, <1>6, <1>7, <1>8, Zenon
<1>10. Reply(q, d) # NoPacket /\ Reply(q, d).proto = "icmp" /\ Reply(q, d).body = d
  <2>1. Reply(q, d).proto = "icmp" /\ NoPacket.proto = "none"
    BY DEF Reply, NoPacket
  <2>2. QED
    BY <2>1 DEF Reply
<1>11. Packet(Reply(q, d))
  BY <1>10 DEF Packet
<1>12. QED
  BY <1>4, <1>7, <1>8, <1>9, <1>10, <1>11, Zenon

\* The buffer and the reply after the sender's part of a cycle.
EchoLeft(q, ps, r, w, packet, u, packets) ==
    /\ r = Replies(packets, Len(packets)) /\ w \in Nat
    /\ w = IF packet # NoPacket /\ u = "icmp" THEN Len(packet.body) ELSE 0
    /\ EchoChain(core, input, q, << r + 1, w + 1 >>, Awaited(core, input, Pos))
    /\ ParamsAre(core, input, ps, r, Pos[1])
    /\ packet # NoPacket /\ u = "icmp" => Answering(core, input, packet, r, w)
    /\ AllReplies(core, input, packets)
    /\ Len(q) <= Len(echo.payload) /\ Len(ps) <= Len(echo.params)

EchoSent(bytes, params, pushed, ended, packet, u, packets) ==
    \E q, ps, r, w :
      bytes = q \o pushed /\ params = ps \o ended /\ EchoLeft(q, ps, r, w, packet, u, packets)

LEMMA EchoSends ==
    ASSUME FeedInv, SenderInv, StreamerInv, SentPackets(sent), EchoInv, NEW S, echo.params \in Seq(S), NEW idle,
           NEW writes, NEW reply, NEW pushed, NEW ended \in Seq(S), TxNext(idle, writes, reply, pushed, ended)
    PROVE  EchoSent(echo'.payload, echo'.params, pushed, ended, wire', grant', sent')
<1>1. PICK p \in Nat \ {0}, e \in {Awaited(core, input, Pos)[2]} :
        p = Pos[1] /\ Awaited(core, input, Pos) = << Wanted(core, input, p - 1) + 1, e >> /\ input \in Scripts
  <2>1. IsBeat(input, Pos) /\ input \in Scripts
    BY HeadFacts DEF FeedInv
  <2>2. Len(input) \in Nat
    BY <2>1, InputFacts
  <2>3. Pos[1] \in Nat \ {0}
    BY <2>1, <2>2 DEF IsBeat
  <2>4. QED
    BY <2>1, <2>3 DEF Awaited
<1>2. PICK r \in Nat, w \in Nat : r = Replies(sent, Len(sent)) /\ w = OnEcho
  BY DEF EchoInv, ParamsAre
<1>3. /\ EchoChain(core, input, echo.payload, << r + 1, w + 1 >>, Awaited(core, input, Pos))
      /\ ParamsAre(core, input, echo.params, r, p)
      /\ wire # NoPacket /\ grant = "icmp" => Answering(core, input, wire, r, w)
      /\ AllReplies(core, input, sent)
  BY <1>1, <1>2, Zenon DEF EchoInv
<1>4. /\ echo'.payload = (IF Takes("icmp", idle) THEN Tail(echo.payload) ELSE echo.payload) \o pushed
      /\ echo'.params = (IF Ends("icmp", idle) THEN Tail(echo.params) ELSE echo.params) \o ended
  BY DEF TxNext, Echo
<1>5. Len(echo.payload) \in Nat /\ Len(echo.params) \in Nat
  BY <1>3, LenProperties DEF EchoChain
<1>6. CASE Takes("icmp", idle)
  <2>1. /\ wire # NoPacket /\ grant = "icmp" /\ echo.params # << >>
        /\ Ends("icmp", idle) <=> Head(echo.payload).last
        /\ IF Head(echo.payload).last THEN wire' = NoPacket /\ sent' = Append(sent, Now)
           ELSE wire' = Now /\ grant' = "icmp" /\ sent' = sent
    BY <1>6, EchoCases
  <2>2. PICK n : NextByte(core, input, echo.payload, echo.params, r, w, n)
    <3>1. EchoChain(core, input, echo.payload, << r + 1, w + 1 >>, << Wanted(core, input, p - 1) + 1, e >>)
      BY <1>1, <1>3, Zenon
    <3>2. QED
      BY <1>1, <1>3, <2>1, <3>1, EchoHead
  <2>3. /\ n \in 1 .. Len(input) /\ Wants(core, input[n]) /\ Wanted(core, input, n) = r + 1 /\ echo.payload # << >>
        /\ Head(echo.payload).last <=> w + 1 = input[n].size
        /\ Behind(core, input, Head(echo.payload))
             = IF Head(echo.payload).last THEN << r + 2, 1 >> ELSE << r + 1, w + 2 >>
    BY <2>2 DEF NextByte
  <2>4. /\ Now = Reply(ParamsOf(input[n]), Bytes(n, w + 1)) /\ Len(Now.body) = w + 1
        /\ Now # NoPacket /\ Now.proto = "icmp" /\ Packet(Now)
    BY <1>3, <2>1, <2>2, NowAnswers
  <2>5. PICK q : q = Tail(echo.payload)
    OBVIOUS
  <2>6. /\ EchoChain(core, input, q, Behind(core, input, Head(echo.payload)), Awaited(core, input, Pos))
        /\ Len(q) <= Len(echo.payload)
    <3>1. /\ EchoChain(core, input, Tail(echo.payload), Behind(core, input, Head(echo.payload)), Awaited(core, input, Pos))
          /\ Len(Tail(echo.payload)) = Len(echo.payload) - 1
      BY <1>3, <2>3, EchoPop
    <3>2. Len(echo.payload) - 1 <= Len(echo.payload)
      BY <1>5
    <3>3. QED
      BY <2>5, <3>1, <3>2, Zenon
  <2>7. echo'.payload = q \o pushed
    BY <1>4, <1>6, <2>5, Zenon
  <2>8. CASE Head(echo.payload).last
    <3>1. PICK ps : ps = Tail(echo.params)
      OBVIOUS
    <3>2. ParamsAre(core, input, ps, r + 1, p) /\ Len(ps) <= Len(echo.params)
      <4>1. ParamsAre(core, input, Tail(echo.params), r + 1, p) /\ Len(Tail(echo.params)) = Len(echo.params) - 1
        BY <1>3, <2>1, ParamsPop
      <4>2. Len(echo.params) - 1 <= Len(echo.params)
        BY <1>5
      <4>3. QED
        BY <3>1, <4>1, <4>2, Zenon
    <3>3. wire' = NoPacket /\ sent' = Append(sent, Now) /\ echo'.params = ps \o ended
      BY <1>4, <2>1, <2>8, <3>1
    <3>4. Replies(sent', Len(sent')) = r + 1
      <4>1. Len(Append(sent, Now)) = Len(sent) + 1
        BY <2>4, SentGrows
      <4>2. Replies(Append(sent, Now), Len(sent) + 1) = Replies(sent, Len(sent)) + 1
        BY <2>4, RepliesGrow
      <4>3. QED
        BY <1>2, <3>3, <4>1, <4>2, Zenon
    <3>5. AllReplies(core, input, sent')
      <4>1. Wanted(core, input, n) = Replies(sent, Len(sent)) + 1 /\ Now = Reply(ParamsOf(input[n]), Bytes(n, input[n].size))
        BY <1>2, <2>3, <2>4, <2>8, Zenon
      <4>2. AllReplies(core, input, Append(sent, Now))
        BY <1>3, <2>3, <2>4, <4>1, AllRepliesGrow
      <4>3. QED
        BY <3>3, <4>2, Zenon
    <3>6. << r + 1 + 1, 0 + 1 >> = << r + 2, 1 >> /\ 0 \in Nat
      OBVIOUS
    <3>7. EchoChain(core, input, q, << r + 1 + 1, 0 + 1 >>, Awaited(core, input, Pos))
      BY <2>3, <2>6, <2>8, <3>6, Zenon
    <3>8. EchoLeft(q, ps, r + 1, 0, wire', grant', sent')
      BY <1>1, <2>6, <3>2, <3>3, <3>4, <3>5, <3>6, <3>7, Zenon DEF EchoLeft
    <3>9. QED
      BY <2>7, <3>3, <3>8, Zenon DEF EchoSent
  <2>9. CASE ~Head(echo.payload).last
    <3>1. wire' = Now /\ grant' = "icmp" /\ sent' = sent /\ echo'.params = echo.params \o ended
      BY <1>4, <2>1, <2>9
    <3>2. w + 1 \in Nat /\ w + 1 + 1 = w + 2 /\ Len(echo.params) <= Len(echo.params)
      BY <1>5
    <3>3. EchoChain(core, input, q, << r + 1, w + 1 + 1 >>, Awaited(core, input, Pos))
      BY <2>3, <2>6, <2>9, <3>2, Zenon
    <3>4. Answering(core, input, Now, r, w + 1)
      BY <2>3, <2>4, Zenon DEF Answering
    <3>5. r = Replies(sent', Len(sent')) /\ AllReplies(core, input, sent')
      BY <1>2, <1>3, <3>1, Zenon
    <3>6. w + 1 = IF wire' # NoPacket /\ grant' = "icmp" THEN Len(wire'.body) ELSE 0
      BY <2>4, <3>1, Zenon
    <3>7. EchoLeft(q, echo.params, r, w + 1, wire', grant', sent')
      BY <1>1, <1>3, <2>6, <3>1, <3>2, <3>3, <3>4, <3>5, <3>6, Zenon DEF EchoLeft
    <3>8. QED
      BY <2>7, <3>1, <3>7, Zenon DEF EchoSent
  <2>10. QED
    BY <2>8, <2>9
<1>7. CASE ~Takes("icmp", idle)
  <2>1. /\ ~Ends("icmp", idle)
        /\ wire # NoPacket /\ grant = "icmp" => wire' = wire /\ grant' = "icmp"
        /\ wire' # NoPacket /\ grant' = "icmp" =>
             \/ wire # NoPacket /\ grant = "icmp" /\ wire' = wire
             \/ /\ wire = NoPacket /\ wire' = Headers("icmp") /\ echo.params # << >>
        /\ sent' # sent => sent' = Append(sent, Now) /\ Packet(Now) /\ Now.proto = "udp"
    BY <1>7, EchoCases
  <2>2. echo'.payload = echo.payload \o pushed /\ echo'.params = echo.params \o ended
    BY <1>4, <1>7, <2>1
  <2>3. r = Replies(sent', Len(sent')) /\ AllReplies(core, input, sent')
    <3>1. CASE sent' = sent
      BY <1>2, <1>3, <3>1, Zenon
    <3>2. CASE sent' # sent
      <4>1. sent' = Append(sent, Now) /\ Packet(Now) /\ Now.proto = "udp" /\ Now.proto # "icmp"
        BY <2>1, <3>2
      <4>2. Len(Append(sent, Now)) = Len(sent) + 1
        BY <4>1, SentGrows
      <4>3. Replies(Append(sent, Now), Len(sent) + 1) = Replies(sent, Len(sent))
        BY <4>1, RepliesGrow
      <4>4. AllReplies(core, input, Append(sent, Now))
        BY <1>3, <4>1, AllRepliesGrow
      <4>5. QED
        BY <1>2, <4>1, <4>2, <4>3, <4>4, Zenon
    <3>3. QED
      BY <3>1, <3>2
  <2>4. /\ w = IF wire' # NoPacket /\ grant' = "icmp" THEN Len(wire'.body) ELSE 0
        /\ wire' # NoPacket /\ grant' = "icmp" => Answering(core, input, wire', r, w)
    <3>1. CASE wire # NoPacket /\ grant = "icmp"
      BY <1>2, <1>3, <2>1, <3>1 DEF OnEcho
    <3>2. CASE ~(wire # NoPacket /\ grant = "icmp") /\ ~(wire' # NoPacket /\ grant' = "icmp")
      BY <1>2, <3>2 DEF OnEcho
    <3>3. CASE ~(wire # NoPacket /\ grant = "icmp") /\ wire' # NoPacket /\ grant' = "icmp"
      <4>1. w = 0 /\ wire' = Headers("icmp") /\ echo.params # << >>
        BY <1>2, <2>1, <3>3 DEF OnEcho
      <4>2. PICK n : NextByte(core, input, echo.payload, echo.params, r, w, n)
        <5>1. EchoChain(core, input, echo.payload, << r + 1, w + 1 >>, << Wanted(core, input, p - 1) + 1, e >>)
          BY <1>1, <1>3, Zenon
        <5>2. QED
          BY <1>1, <1>3, <4>1, <5>1, EchoHead
      <4>3. /\ n \in 1 .. Len(input) /\ n \in Nat /\ Wants(core, input[n]) /\ Wanted(core, input, n) = r + 1
            /\ Head(echo.params) = ParamsOf(input[n])
        BY <4>2 DEF NextByte
      <4>4. Headers("icmp") = Reply(Head(echo.params), << >>)
        BY DEF Headers, Reply
      <4>5. Bytes(n, 0) = << >>
        BY <4>3, BytesFacts
      <4>6. wire' = Reply(ParamsOf(input[n]), Bytes(n, w))
        BY <4>1, <4>3, <4>4, <4>5, Zenon
      <4>7. Answering(core, input, wire', r, w)
        BY <4>3, <4>6, Zenon DEF Answering
      <4>8. Len(wire'.body) = 0
        <5>1. Reply(Head(echo.params), << >>).body = << >>
          BY DEF Reply
        <5>2. Len(<< >>) = 0
          OBVIOUS
        <5>3. QED
          BY <4>1, <4>4, <5>1, <5>2, Zenon
      <4>9. QED
        BY <3>3, <4>1, <4>7, <4>8
    <3>4. QED
      BY <3>1, <3>2, <3>3
  <2>5. EchoLeft(echo.payload, echo.params, r, w, wire', grant', sent')
    <3>1. Len(echo.payload) <= Len(echo.payload) /\ Len(echo.params) <= Len(echo.params)
      BY <1>5
    <3>2. QED
      BY <1>1, <1>3, <2>3, <2>4, <3>1, Zenon DEF EchoLeft
  <2>6. QED
    BY <2>2, <2>5, Zenon DEF EchoSent
<1>8. QED
  BY <1>6, <1>7

\* The parameters that come in with a request's last byte are the request's.
LEMMA EndedTyped ==
    ASSUME FeedInv, StackInv, NEW idle, RxNext(idle, EchoReady), NEW ended,
           ended = IF EchoPushes(idle) /\ IsLast
                   THEN << [src |-> F.src, length |-> F.length, checksum |-> F.checksum] >> ELSE << >>
    PROVE  /\ ended \in Seq(AllParams(input))
           /\ ended = IF EchoPushes(idle) /\ IsLast THEN << ParamsOf(input[Pos[1]]) >> ELSE << >>
<1>1. PICK next : next = Pos' /\ (IF EchoPushes(idle) THEN Pushing(idle, next) ELSE Passing(next))
  BY EchoFeed
<1>2. CASE EchoPushes(idle) /\ IsLast
  <2>1. F = input[Pos[1]] /\ Pos[1] \in 1 .. Len(input)
    BY <1>1, <1>2 DEF Pushing
  <2>2. ended = << ParamsOf(input[Pos[1]]) >>
    BY <1>2, <2>1 DEF ParamsOf
  <2>3. ParamsOf(input[Pos[1]]) \in AllParams(input)
    BY <2>1 DEF AllParams
  <2>4. QED
    BY <1>2, <2>2, <2>3
<1>3. CASE ~(EchoPushes(idle) /\ IsLast)
  <2>1. ended = << >>
    BY <1>3
  <2>2. QED
    BY <1>3, <2>1, Nothing
<1>4. QED
  BY <1>2, <1>3

LEMMA EchoStep ==
    ASSUME FeedInv, StackInv, SenderInv, StreamerInv, SentPackets(sent), EchoInv, NEW idle, NEW writes, NEW reply,
           NEW pushed, NEW ended, RxNext(idle, EchoReady), TxNext(idle, writes, reply, pushed, ended),
           pushed = IF EchoPushes(idle) THEN << [byte |-> HwByte, last |-> IsLast] >> ELSE << >>,
           ended = IF EchoPushes(idle) /\ IsLast
                   THEN << [src |-> F.src, length |-> F.length, checksum |-> F.checksum] >> ELSE << >>
    PROVE  EchoInv'
<1>1. PICK next : next = Pos' /\ (IF EchoPushes(idle) THEN Pushing(idle, next) ELSE Passing(next))
  BY EchoFeed
<1>2. /\ ended \in Seq(AllParams(input))
      /\ ended = IF EchoPushes(idle) /\ IsLast THEN << ParamsOf(input[Pos[1]]) >> ELSE << >>
  BY EndedTyped
<1>3. echo.params \in Seq(AllParams(input))
  BY DEF EchoInv, ParamsAre
<1>4. PICK q, ps, r, w :
        /\ echo'.payload = q \o pushed /\ echo'.params = ps \o ended
        /\ EchoLeft(q, ps, r, w, wire', grant', sent')
  <2>1. EchoSent(echo'.payload, echo'.params, pushed, ended, wire', grant', sent')
    BY <1>2, <1>3, EchoSends
  <2>2. QED
    BY <2>1 DEF EchoSent
<1>5. /\ r = Replies(sent', Len(sent')) /\ w \in Nat
      /\ w = IF wire' # NoPacket /\ grant' = "icmp" THEN Len(wire'.body) ELSE 0
      /\ EchoChain(core, input, q, << r + 1, w + 1 >>, Awaited(core, input, Pos))
      /\ ParamsAre(core, input, ps, r, Pos[1])
      /\ wire' # NoPacket /\ grant' = "icmp" => Answering(core, input, wire', r, w)
      /\ AllReplies(core, input, sent')
      /\ Len(q) <= Len(echo.payload) /\ Len(ps) <= Len(echo.params)
  BY <1>4 DEF EchoLeft
<1>6. PICK p \in Nat \ {0} : p = Pos[1] /\ input \in Scripts /\ Len(input) \in Nat
  <2>1. IsBeat(input, Pos) /\ input \in Scripts
    BY HeadFacts DEF FeedInv
  <2>2. Len(input) \in Nat
    BY <2>1, InputFacts
  <2>3. Pos[1] \in Nat \ {0}
    BY <2>1, <2>2 DEF IsBeat
  <2>4. QED
    BY <2>1, <2>2, <2>3
<1>7. /\ Len(q) \in Nat /\ Len(ps) \in Nat /\ Len(echo.payload) \in Nat /\ Len(echo.params) \in Nat
      /\ q \in Seq(Items) /\ ps \in Seq(AllParams(input))
      /\ Len(echo.payload) <= EchoDepth /\ Len(echo.params) <= ParamDepth
      /\ EchoDepth \in Nat /\ ParamDepth \in Nat
  <2>1. /\ q \in Seq(Items) /\ ps \in Seq(AllParams(input)) /\ echo.payload \in Seq(Items)
        /\ Len(echo.payload) <= EchoDepth /\ Len(echo.params) <= ParamDepth
    BY <1>5 DEF EchoChain, ParamsAre, EchoInv
  <2>2. EchoDepth \in Nat /\ ParamDepth \in Nat
    BY TxAssumption DEF TxAssumption
  <2>3. QED
    BY <1>3, <2>1, <2>2, LenProperties
<1>8. Len(q) <= EchoDepth /\ Len(ps) <= ParamDepth
  BY <1>5, <1>7
<1>9. EchoPushes(idle) => Len(q) + 1 <= EchoDepth /\ Len(ps) + 1 <= ParamDepth
  <2>1. EchoPushes(idle) => Len(echo.payload) < EchoDepth /\ Len(echo.params) < ParamDepth
    BY DEF EchoPushes, EchoReady
  <2>2. QED
    BY <1>5, <1>7, <2>1
<1>10. PICK bytes, params : bytes = echo'.payload /\ params = echo'.params
  OBVIOUS
<1>11. /\ EchoChain(core, input, bytes, << r + 1, w + 1 >>, Awaited(core, input, next))
       /\ ParamsAre(core, input, params, r, next[1])
       /\ Len(bytes) <= EchoDepth /\ Len(params) <= ParamDepth
  <2>1. CASE EchoPushes(idle)
    <3>1. PICK x : x = [byte |-> HwByte, last |-> IsLast]
      OBVIOUS
    <3>2. /\ p \in 1 .. Len(input) /\ Wants(core, input[p])
          /\ x \in Items /\ IsItem(core, input, x)
          /\ Place(core, input, x) = Awaited(core, input, Pos)
          /\ Behind(core, input, x) = Awaited(core, input, next)
          /\ next[1] = IF IsLast THEN p + 1 ELSE p
      BY <1>1, <1>6, <2>1, <3>1, Zenon DEF Pushing
    <3>3. bytes = q \o << x >>
      BY <1>4, <1>10, <2>1, <3>1, Zenon
    <3>4. EchoChain(core, input, bytes, << r + 1, w + 1 >>, Awaited(core, input, next)) /\ Len(bytes) <= EchoDepth
      <4>1. /\ EchoChain(core, input, q \o << x >>, << r + 1, w + 1 >>, Behind(core, input, x))
            /\ Len(q \o << x >>) = Len(q) + 1
        BY <1>5, <3>2, EchoPush
      <4>2. QED
        BY <1>9, <2>1, <3>2, <3>3, <4>1, Zenon
    <3>5. CASE IsLast
      <4>1. params = ps \o << ParamsOf(input[p]) >> /\ next[1] = p + 1
        BY <1>2, <1>4, <1>6, <1>10, <2>1, <3>2, <3>5, Zenon
      <4>2. ParamsAre(core, input, ps, r, p)
        BY <1>5, <1>6, Zenon
      <4>3. /\ ParamsAre(core, input, ps \o << ParamsOf(input[p]) >>, r, p + 1)
            /\ Len(ps \o << ParamsOf(input[p]) >>) = Len(ps) + 1
        BY <1>6, <3>2, <4>2, ParamsPush
      <4>4. QED
        BY <1>9, <2>1, <3>4, <4>1, <4>3, Zenon
    <3>6. CASE ~IsLast
      <4>1. params = ps \o << >> /\ next[1] = p
        BY <1>2, <1>4, <1>10, <3>2, <3>6, Zenon
      <4>2. ps \o << >> = ps
        BY <1>7, ConcatEmptySeq
      <4>3. QED
        BY <1>5, <1>6, <1>8, <3>4, <4>1, <4>2, Zenon
    <3>7. QED
      BY <3>5, <3>6
  <2>2. CASE ~EchoPushes(idle)
    <3>1. /\ Awaited(core, input, next) = Awaited(core, input, Pos)
          /\ next[1] = p \/ (next[1] = p + 1 /\ ~Wants(core, input[p]))
      BY <1>1, <1>6, <2>2, Zenon DEF Passing
    <3>2. bytes = q \o << >> /\ params = ps \o << >>
      BY <1>2, <1>4, <1>10, <2>2, Zenon
    <3>3. q \o << >> = q /\ ps \o << >> = ps
      BY <1>7, ConcatEmptySeq
    <3>4. ParamsAre(core, input, ps, r, next[1])
      <4>1. ParamsAre(core, input, ps, r, p)
        BY <1>5, <1>6, Zenon
      <4>2. CASE next[1] = p
        BY <4>1, <4>2, Zenon
      <4>3. CASE next[1] = p + 1 /\ ~Wants(core, input[p])
        <5>1. ParamsAre(core, input, ps, r, p + 1)
          BY <1>6, <4>1, <4>3, ParamsSkip
        <5>2. QED
          BY <4>3, <5>1, Zenon
      <4>4. QED
        BY <3>1, <4>2, <4>3
    <3>5. QED
      BY <1>5, <1>8, <3>1, <3>2, <3>3, <3>4, Zenon
  <2>3. QED
    BY <2>1, <2>2
<1>12. core' = core /\ input' = input
  BY DEF RxNext, configVars
<1>13. OnEcho' = w
  BY <1>5 DEF OnEcho
<1>14. /\ Len(echo'.payload) <= EchoDepth /\ Len(echo'.params) <= ParamDepth /\ OnEcho' \in Nat
       /\ EchoChain(core', input', echo'.payload, << Replies(sent', Len(sent')) + 1, OnEcho' + 1 >>,
                    Awaited(core', input', Pos'))
       /\ ParamsAre(core', input', echo'.params, Replies(sent', Len(sent')), Pos'[1])
       /\ wire' # NoPacket /\ grant' = "icmp" =>
            Answering(core', input', wire', Replies(sent', Len(sent')), OnEcho')
       /\ AllReplies(core', input', sent')
  BY <1>1, <1>5, <1>10, <1>11, <1>12, <1>13, Zenon
<1>15. QED
  BY <1>14 DEF EchoInv

-----------------------------------------------------------------------------
(* The transmit path's theorems. *)

TxInv == SenderInv /\ StreamerInv /\ SentInv /\ EchoInv

LEMMA TxInvInit == ASSUME Init PROVE TxInv
<1>1. /\ input \in Scripts /\ k = 1 /\ i = 1 /\ hw_fifo = << >>
      /\ echo = [payload |-> << >>, params |-> << >>] /\ written = 0
      /\ tx_fifo = << >> /\ level = 0 /\ counter = 0 /\ streamTx = "IDLE"
      /\ udpTx = "IDLE" /\ icmpTx = "IDLE" /\ grant = "udp"
      /\ ipTx = "IDLE" /\ resolving = 0 /\ cached = "none" /\ wire = NoPacket /\ sent = << >>
  BY DEF Init, RxInit, TxInit
<1>2. /\ EchoDepth \in Nat /\ ParamDepth \in Nat /\ TxFifoDepth \in Nat /\ ResolveTime \in Nat
  BY TxAssumption DEF TxAssumption
<1>3. << >> \in Seq(Nat) /\ << >> \in Seq(Items) /\ << >> \in Seq(AllParams(input)) /\ Len(<< >>) = 0
  BY Nothing
<1>4. SenderInv
  BY <1>1, <1>2 DEF SenderInv
<1>5. OnWire = 0 /\ OnEcho = 0
  BY <1>1 DEF OnWire, OnEcho
<1>6. From(0, 0) = << >>
  BY FromFacts
<1>7. StreamerInv
  <2>1. 0 - 0 = 0 /\ 0 + 0 <= 0 /\ 0 \in 0 .. TxFifoDepth /\ 0 <= TxFifoDepth
    BY <1>2
  <2>2. tx_fifo = From(written - Len(tx_fifo), Len(tx_fifo))
    BY <1>1, <1>3, <1>6, <2>1, Zenon
  <2>3. QED
    BY <1>1, <1>2, <1>3, <1>5, <2>1, <2>2 DEF StreamerInv
<1>8. SentInv
  <2>1. SentPackets(<< >>)
    <3>1. \A n \in 1 .. 0 : Packet(<< >>[n])
      OBVIOUS
    <3>2. QED
      BY <1>3, <3>1, Zenon DEF SentPackets
  <2>2. Streamed(<< >>) = << >>
    <3>1. PICK s : s = << >> /\ Len(s) = 0
      OBVIOUS
    <3>2. PICK u : u = [n \in 1 .. 0 |-> IF s[n].proto = "udp" THEN s[n].body ELSE << >>]
      OBVIOUS
    <3>3. [n \in 1 .. 0 |-> u[n]] = [n \in 1 .. 0 |-> IF s[n].proto = "udp" THEN s[n].body ELSE << >>]
      BY <3>2
    <3>4. FlattenSeq([n \in 1 .. 0 |-> u[n]]) = << >>
      BY FlattenNone
    <3>5. Streamed(s) = FlattenSeq([n \in 1 .. 0 |-> IF s[n].proto = "udp" THEN s[n].body ELSE << >>])
      BY <3>1, Zenon DEF Streamed
    <3>6. QED
      BY <3>1, <3>3, <3>4, <3>5, Zenon
  <2>3. 0 - 0 - 0 = 0
    OBVIOUS
  <2>4. QED
    BY <1>1, <1>3, <1>5, <1>6, <2>1, <2>2, <2>3, Zenon DEF SentInv
<1>9. Replies(<< >>, 0) = 0
  <2>1. {m \in 1 .. 0 : << >>[m].proto = "icmp"} = {}
    OBVIOUS
  <2>2. QED
    BY <2>1, FS_EmptySet DEF Replies
<1>10. Pos = << 1, 1 >> /\ Pos[1] = 1
  BY <1>1 DEF Pos
<1>11. Wanted(core, input, 0) = 0 /\ 1 - 1 = 0 /\ 0 + 1 = 1 /\ ~(1 > 3) /\ 0 + 0 = 0
  BY WantedFacts
<1>12. Awaited(core, input, Pos) = << 1, 1 >>
  <2>1. << 1, 1 >>[1] = 1 /\ << 1, 1 >>[2] = 1
    OBVIOUS
  <2>2. QED
    BY <1>10, <1>11, <2>1, Zenon DEF Awaited
<1>13. EchoChain(core, input, << >>, << 0 + 1, 0 + 1 >>, Awaited(core, input, Pos))
  BY <1>3, <1>11, <1>12 DEF EchoChain
<1>14. ParamsAre(core, input, << >>, 0, 1)
  BY <1>3, <1>11 DEF ParamsAre
<1>15. AllReplies(core, input, << >>)
  BY DEF AllReplies
<1>16. echo.payload = << >> /\ echo.params = << >>
  BY <1>1
<1>17. /\ Len(echo.payload) <= EchoDepth /\ Len(echo.params) <= ParamDepth /\ OnEcho \in Nat
       /\ Replies(sent, Len(sent)) = 0 /\ ~(wire # NoPacket /\ grant = "icmp")
  <2>1. 0 <= EchoDepth /\ 0 <= ParamDepth /\ 0 \in Nat
    BY <1>2
  <2>2. Replies(sent, Len(sent)) = 0
    BY <1>1, <1>3, <1>9, Zenon
  <2>3. QED
    BY <1>1, <1>3, <1>5, <1>16, <2>1, <2>2, Zenon
<1>18. EchoInv
  <2>1. EchoChain(core, input, echo.payload, << Replies(sent, Len(sent)) + 1, OnEcho + 1 >>, Awaited(core, input, Pos))
    BY <1>5, <1>13, <1>16, <1>17, Zenon
  <2>2. ParamsAre(core, input, echo.params, Replies(sent, Len(sent)), Pos[1])
    BY <1>10, <1>14, <1>16, <1>17, Zenon
  <2>3. AllReplies(core, input, sent)
    BY <1>1, <1>15, Zenon
  <2>4. QED
    BY <1>17, <2>1, <2>2, <2>3 DEF EchoInv
<1>19. QED
  BY <1>4, <1>7, <1>8, <1>18 DEF TxInv

LEMMA TxInvStep == ASSUME RxInv, TxInv, [Next]_vars PROVE TxInv'
<1>1. FeedInv /\ StackInv /\ SenderInv /\ StreamerInv /\ SentInv /\ EchoInv
  BY DEF RxInv, TxInv
<1>2. CASE UNCHANGED vars
  <2>1. UNCHANGED << mac, core, input, k, i, hw_fifo >> /\ UNCHANGED txVars
    BY <1>2 DEF vars, configVars, rxVars
  <2>2. SenderInv'
    BY <1>1, <2>1 DEF SenderInv, TxValid, txVars
  <2>3. StreamerInv' /\ SentInv'
    BY <1>1, <2>1 DEF StreamerInv, SentInv, OnWire, txVars
  <2>4. Pos' = Pos
    BY <2>1 DEF Pos
  <2>5. OnEcho' = OnEcho
    BY <2>1 DEF OnEcho, txVars
  <2>6. EchoInv'
    <3>1. echo' = echo /\ sent' = sent /\ wire' = wire /\ grant' = grant /\ core' = core /\ input' = input
      BY <2>1 DEF txVars
    <3>2. QED
      BY <1>1, <2>4, <2>5, <3>1 DEF EchoInv
  <2>7. QED
    BY <2>2, <2>3, <2>6 DEF TxInv
<1>3. CASE Next
  <2>1. PICK idle \in Idlers : Cycle(idle)
    BY <1>3 DEF Next
  <2>2. PICK pushed, ended, reply :
          /\ pushed = IF EchoPushes(idle) THEN << [byte |-> HwByte, last |-> IsLast] >> ELSE << >>
          /\ ended = IF EchoPushes(idle) /\ IsLast
                     THEN << [src |-> F.src, length |-> F.length, checksum |-> F.checksum] >> ELSE << >>
          /\ reply = IF arpRx = "CHECK" /\ F.op = "reply" THEN F.src ELSE "none"
    OBVIOUS
  <2>3. PICK writes : TxNext(idle, writes, reply, pushed, ended)
    BY <2>1, <2>2 DEF Cycle
  <2>4. RxNext(idle, EchoReady)
    BY <2>1 DEF Cycle
  <2>5. ended \in Seq(AllParams(input))
    BY <1>1, <2>2, <2>4, EndedTyped
  <2>6. echo.params \in Seq(AllParams(input))
    BY <1>1 DEF EchoInv, ParamsAre
  <2>7. wire # NoPacket /\ grant = "icmp" => \E q, body : wire = Reply(q, body)
    BY <1>1 DEF EchoInv, Answering
  <2>8. SenderInv'
    BY <1>1, <2>3, <2>5, <2>6, SenderStep
  <2>9. StreamerInv'
    BY <1>1, <2>3, <2>5, <2>6, StreamerStep
  <2>10. SentInv'
    BY <1>1, <2>3, <2>5, <2>6, <2>7, SentStep
  <2>11. EchoInv'
    BY <1>1, <2>2, <2>3, <2>4, EchoStep DEF SentInv
  <2>12. QED
    BY <2>8, <2>9, <2>10, <2>11 DEF TxInv
<1>4. QED
  BY <1>2, <1>3

LEMMA StackInvAlways == Spec => [](RxInv /\ TxInv)
<1>1. Init => RxInv /\ TxInv
  BY RxInvInit, TxInvInit DEF Init
<1>2. RxInv /\ TxInv /\ [Next]_vars => RxInv' /\ TxInv'
  BY RxInvStep, TxInvStep
<1>3. QED
  BY <1>1, <1>2, PTL DEF Spec

LEMMA InOrder == ASSUME StreamerInv, SentInv PROVE StreamInOrder
<1>1. PICK l \in Nat : l = written - Len(tx_fifo) - OnWire /\ l <= written
  <2>1. PICK w \in Nat, n \in Nat : w = written /\ n = Len(tx_fifo)
    BY LenProperties DEF StreamerInv
  <2>2. OnWire \in Nat /\ n + OnWire <= w
    BY <2>1 DEF StreamerInv, OnWire
  <2>3. w - n - OnWire \in Nat /\ w - n - OnWire <= w
    BY <2>1, <2>2
  <2>4. QED
    BY <2>1, <2>3
<1>2. PICK bytes : bytes = Streamed(sent)
  OBVIOUS
<1>3. bytes = From(0, l)
  BY <1>1, <1>2 DEF SentInv
<1>4. Len(bytes) = l
  <2>1. Len(From(0, l)) = l
    BY FromFacts
  <2>2. QED
    BY <1>3, <2>1
<1>5. bytes = [n \in 1 .. Len(bytes) |-> n]
  <2>1. From(0, l) = [n \in 1 .. l |-> n]
    BY DEF From
  <2>2. QED
    BY <1>3, <1>4, <2>1, Zenon
<1>6. \A n \in DOMAIN sent : sent[n].proto = "udp" => sent[n].ip = Target /\ sent[n].length = Len(sent[n].body)
  <2>1. DOMAIN sent = 1 .. Len(sent)
    BY LenProperties DEF SentInv, SentPackets
  <2>2. \A n \in 1 .. Len(sent) : Packet(sent[n])
    BY DEF SentInv, SentPackets
  <2>3. QED
    BY <2>1, <2>2 DEF Packet
<1>7. QED
  BY <1>1, <1>2, <1>4, <1>5, <1>6, Zenon DEF StreamInOrder

\* The streamer's datagrams carry the application's bytes in the order they were
\* written, none lost and none twice, and tell their length, whenever the FIFO fills,
\* the other sender goes in between and the address comes (LiteEthStream2UDPTX).
THEOREM StreamKeepsOrder == Spec => []StreamInOrder
<1>1. RxInv /\ TxInv => StreamInOrder
  BY InOrder DEF TxInv
<1>2. QED
  BY <1>1, StackInvAlways, PTL

LEMMA ChecksumMadeGood ==
    ASSUME NEW sum \in 0 .. Max16
    PROVE  ReplyChecksum(sum) \in 0 .. Max16 /\ (ReplyChecksum(sum) - sum - 2048) % 65535 = 0
<1>1. PICK s \in Nat, m \in Nat : s = sum /\ m = Max16 /\ s <= m
  BY WidthNat
<1>2. m = 65535
  BY <1>1, Width
<1>3. CASE s >= 63488
  <2>1. s + 2048 + 1 >= 65536 /\ s + 2048 + 1 < 65536 + 65536
    BY <1>1, <1>2, <1>3
  <2>2. (s + 2048 + 1) % 65536 = s + 2048 + 1 - 65536
    BY <2>1
  <2>3. PICK c : c = ReplyChecksum(s)
    OBVIOUS
  <2>4. c = (s + 2048 + 1) % 65536
    BY <1>3, <2>3 DEF ReplyChecksum
  <2>5. c = s + 2048 + 1 - 65536 /\ c >= 0 /\ c <= m /\ c - s - 2048 = -65535
    BY <1>1, <1>2, <2>1, <2>2, <2>4
  <2>6. (-65535) % 65535 = 0
    OBVIOUS
  <2>7. (c - s - 2048) % 65535 = 0 /\ c \in 0 .. m
    BY <1>1, <2>5, <2>6
  <2>8. QED
    BY <1>1, <2>3, <2>7
<1>4. CASE ~(s >= 63488)
  <2>1. s + 2048 + 0 < 65536 /\ s + 2048 + 0 \in Nat
    BY <1>1, <1>4
  <2>2. (s + 2048 + 0) % 65536 = s + 2048
    BY <2>1
  <2>3. PICK c : c = ReplyChecksum(s)
    OBVIOUS
  <2>4. c = (s + 2048 + 0) % 65536
    BY <1>4, <2>3 DEF ReplyChecksum
  <2>5. c = s + 2048 /\ c >= 0 /\ c <= m /\ c - s - 2048 = 0
    BY <1>1, <1>2, <2>1, <2>2, <2>4
  <2>6. 0 % 65535 = 0
    OBVIOUS
  <2>7. (c - s - 2048) % 65535 = 0 /\ c \in 0 .. m
    BY <1>1, <2>5, <2>6
  <2>8. QED
    BY <1>1, <2>3, <2>7
<1>5. QED
  BY <1>3, <1>4

\* What Answers says of the checksum, of its two sums alone.
GoodSum(new, old) == new \in 0 .. Max16 /\ (new - old - 2048) % 65535 = 0

LEMMA AnswersIf ==
    ASSUME NEW p, NEW m, p.ip = input[m].src, p.length = input[m].length,
           p.body = Bytes(m, input[m].size), GoodSum(p.checksum, input[m].checksum)
    PROVE  Answers(p, m)
BY DEF Answers, GoodSum

LEMMA RepliesAreAnswers ==
    ASSUME FeedInv, SentPackets(sent), AllReplies(core, input, sent) PROVE EchoAnswers
<1>1. DOMAIN sent = 1 .. Len(sent) /\ DOMAIN input = 1 .. Len(input) /\ input \in Scripts
  BY LenProperties, InputFacts DEF FeedInv, SentPackets
<1>2. SUFFICES ASSUME NEW n \in 1 .. Len(sent), sent[n].proto = "icmp"
      PROVE  \E m \in 1 .. Len(input) : Asks(input[m]) /\ Asked(m) = Replied(n) /\ Answers(sent[n], m)
  BY <1>1, Zenon DEF EchoAnswers
<1>3. PICK m \in 1 .. Len(input) :
        /\ Wants(core, input[m]) /\ Wanted(core, input, m) = Replies(sent, n)
        /\ sent[n] = Reply(ParamsOf(input[m]), Bytes(m, input[m].size))
  BY <1>2 DEF AllReplies
<1>4. Asks(input[m])
  BY <1>3 DEF Wants, Asks
<1>5. Asked(m) = Replied(n)
  <2>1. {j \in 1 .. m : Asks(input[j])} = {j \in 1 .. m : Wants(core, input[j])}
    BY DEF Asks, Wants
  <2>2. QED
    BY <1>3, <2>1, Zenon DEF Asked, Replied, Wanted, Replies
<1>6. Answers(sent[n], m)
  <2>1. PICK f, q, body : f = input[m] /\ q = ParamsOf(f) /\ body = Bytes(m, f.size) /\ sent[n] = Reply(q, body)
    BY <1>3
  <2>2. q.src = f.src /\ q.length = f.length /\ q.checksum = f.checksum
    BY <2>1 DEF ParamsOf
  <2>3. /\ Reply(q, body).ip = q.src /\ Reply(q, body).length = q.length /\ Reply(q, body).body = body
        /\ Reply(q, body).checksum = ReplyChecksum(q.checksum)
    BY DEF Reply
  <2>4. f.checksum \in 0 .. Max16
    <3>1. f.type = "ip"
      BY <1>3, <2>1 DEF Wants
    <3>2. QED
      BY <1>1, <2>1, <3>1, InputFacts
  <2>5. PICK sum \in 0 .. Max16 : sum = f.checksum
    BY <2>4
  <2>6. GoodSum(ReplyChecksum(sum), sum)
    BY ChecksumMadeGood DEF GoodSum
  <2>7. sent[n].checksum = ReplyChecksum(sum) /\ input[m].checksum = sum
    BY <2>1, <2>2, <2>3, <2>5, Zenon
  <2>8. GoodSum(sent[n].checksum, input[m].checksum)
    BY <2>6, <2>7, Zenon
  <2>9. sent[n].ip = input[m].src /\ sent[n].length = input[m].length /\ sent[n].body = Bytes(m, input[m].size)
    BY <2>1, <2>2, <2>3, Zenon
  <2>10. QED
    BY <2>8, <2>9, AnswersIf, Zenon
<1>7. QED
  BY <1>4, <1>5, <1>6, Zenon

\* The n-th echo reply answers the n-th request accepted, with all its bytes and with
\* its checksum made good for the change of type: the buffer's two halves never get
\* out of step, whatever is received, stalled, resolved or sent in between
\* (LiteEthICMPEcho, LiteEthICMPTX).
THEOREM EchoIsAnswered == Spec => []EchoAnswers
<1>1. RxInv /\ TxInv => EchoAnswers
  BY RepliesAreAnswers DEF RxInv, TxInv, SentInv, EchoInv
<1>2. QED
  BY <1>1, StackInvAlways, PTL

\* No FIFO of the stack is pushed beyond its depth, the echo buffer's two halves
\* included, and every FSM and counter keeps its range.
THEOREM StackTypeCorrect == Spec => []TypeOK
<1>1. ASSUME RxInv, TxInv PROVE TypeOK
  <2>1. FeedInv /\ CpuInv /\ StackInv /\ TtyInv /\ SenderInv /\ StreamerInv /\ EchoInv
    BY <1>1 DEF RxInv, TxInv
  <2>2. k \in 1 .. Len(input) + 1 /\ i \in Nat \ {0} /\ Len(hw_fifo) <= MacFifoDepth
    <3>1. IsBeat(input, << k, i >>) /\ << k, i >>[1] = k /\ << k, i >>[2] = i /\ Len(hw_fifo) <= MacFifoDepth
      BY <2>1 DEF FeedInv
    <3>2. << k, i >> \in Nat \X Nat /\ k \in 1 .. Len(input) + 1 /\ i >= 1
      BY <3>1, Zenon DEF IsBeat
    <3>3. i \in Nat
      BY <3>2
    <3>4. QED
      BY <3>1, <3>2, <3>3
  <2>3. Len(cpu_fifo) <= MacFifoDepth /\ Len(rx_fifo) <= RxFifoDepth
    BY <2>1 DEF CpuInv, TtyInv
  <2>4. /\ {ipRx, udpRx, icmpRx} \subseteq {"IDLE", "RECEIVE", "DROP"}
        /\ arpRx \in {"IDLE", "CHECK", "TERMINATE"}
        /\ checksum \in 0 .. ChecksumCycles /\ count \in 0 .. Max16
    BY <2>1 DEF StackInv, ReceiverTypes
  <2>5. /\ Len(tx_fifo) <= TxFifoDepth /\ level \in 0 .. TxFifoDepth /\ counter \in Nat /\ counter <= TxFifoDepth
        /\ Len(echo.payload) <= EchoDepth /\ Len(echo.params) <= ParamDepth
    BY <2>1 DEF StreamerInv, EchoInv
  <2>6. counter \in 0 .. TxFifoDepth
    <3>1. TxFifoDepth \in Nat
      BY TxAssumption DEF TxAssumption
    <3>2. QED
      BY <2>5, <3>1
  <2>7. /\ {streamTx, udpTx, icmpTx} \subseteq {"IDLE", "SEND"} /\ grant \in {"udp", "icmp"}
        /\ ipTx \in {"IDLE", "RESOLVE", "SEND"} /\ resolving \in 0 .. ResolveTime
    BY <2>1 DEF SenderInv
  <2>8. QED
    BY <2>2, <2>3, <2>4, <2>5, <2>6, <2>7, Zenon DEF TypeOK
<1>2. QED
  BY <1>1, StackInvAlways, PTL
=============================================================================
