--------------------------- MODULE TunnelStackProofs ---------------------------
(***************************************************************************)
(* Proofs about a port of the userspace TCP stack and its bridges, for any *)
(* number of connections and bytes and any capacities: every connection    *)
(* has a bridge of its own, and both its streams stay in order.            *)
(*                                                                         *)
(* First what the operations on sequences do to the set of bytes in them   *)
(* and to their order, then what each movement of bytes does to a stream,  *)
(* then the steps of the stack and of the bridges.                         *)
(***************************************************************************)
EXTENDS TunnelStack, SequenceTheorems, WellFoundedInduction, TLAPS

-----------------------------------------------------------------------------
(* Sequences of bytes                                                      *)

(* The elements of a sequence, by position.                                *)
LEMMA Elements ==
  ASSUME NEW S, NEW s \in Seq(S)
  PROVE  /\ Len(s) \in Nat /\ Range(s) \subseteq S
         /\ \A x : x \in Range(s) <=> \E i \in 1 .. Len(s) : x = s[i]
<1>1. Len(s) \in Nat /\ DOMAIN s = 1 .. Len(s) /\ \A i \in 1 .. Len(s) : s[i] \in S
  OBVIOUS
<1> QED
  BY <1>1 DEF Range

(* The empty stream.                                                       *)
LEMMA NoElements == <<>> \in Seq(Int) /\ Range(<<>>) = {} /\ Increasing(<<>>) /\ Len(<<>>) = 0
BY DEF Range, Increasing

(* One sequence after another.                                             *)
LEMMA JoinedElements ==
  ASSUME NEW S, NEW s \in Seq(S), NEW t \in Seq(S)
  PROVE  s \o t \in Seq(S) /\ Range(s \o t) = Range(s) \cup Range(t)
<1> DEFINE u == s \o t
<1>1. /\ u \in Seq(S) /\ Len(s) \in Nat /\ Len(t) \in Nat
      /\ Len(u) = Len(s) + Len(t)
      /\ \A i \in 1 .. Len(u) : u[i] = IF i <= Len(s) THEN s[i] ELSE t[i - Len(s)]
  OBVIOUS
<1> HIDE DEF u
<1>2. ASSUME NEW x \in Range(u) PROVE x \in Range(s) \cup Range(t)
  <2>1. PICK i \in 1 .. Len(u) : x = u[i]
    BY <1>1, Elements
  <2>2. CASE i <= Len(s)
    BY <2>1, <2>2, <1>1, Elements
  <2>3. CASE ~(i <= Len(s))
    <3>1. i - Len(s) \in 1 .. Len(t) /\ x = t[i - Len(s)]
      BY <2>1, <2>3, <1>1
    <3> QED
      BY <3>1, Elements
  <2> QED
    BY <2>2, <2>3
<1>3. ASSUME NEW x \in Range(s) PROVE x \in Range(u)
  <2>1. PICK i \in 1 .. Len(s) : x = s[i]
    BY Elements
  <2>2. i \in 1 .. Len(u) /\ x = u[i]
    BY <2>1, <1>1
  <2> QED
    BY <2>2, <1>1, Elements
<1>4. ASSUME NEW x \in Range(t) PROVE x \in Range(u)
  <2>1. PICK i \in 1 .. Len(t) : x = t[i]
    BY Elements
  <2>2. /\ i + Len(s) \in 1 .. Len(u) /\ ~(i + Len(s) <= Len(s))
        /\ (i + Len(s)) - Len(s) = i
    BY <1>1
  <2>3. x = u[i + Len(s)]
    BY <2>1, <2>2, <1>1
  <2> QED
    BY <2>2, <2>3, <1>1, Elements
<1> QED
  BY <1>1, <1>2, <1>3, <1>4 DEF u

(* One sequence after another is in order when all of the first comes      *)
(* before all of the second.                                               *)
LEMMA JoinedIncreasing ==
  ASSUME NEW s \in Seq(Int), NEW t \in Seq(Int), Increasing(s), Increasing(t),
         Below(s, t)
  PROVE  Increasing(s \o t)
<1> DEFINE u == s \o t
<1>1. /\ u \in Seq(Int) /\ Len(s) \in Nat /\ Len(t) \in Nat
      /\ Len(u) = Len(s) + Len(t)
      /\ \A i \in 1 .. Len(u) : u[i] = IF i <= Len(s) THEN s[i] ELSE t[i - Len(s)]
  OBVIOUS
<1> HIDE DEF u
<1>2. ASSUME NEW i \in 1 .. Len(u), NEW j \in 1 .. Len(u), i < j
      PROVE  u[i] < u[j]
  <2>1. CASE j <= Len(s)
    <3>1. /\ i \in 1 .. Len(s) /\ j \in 1 .. Len(s)
          /\ u[i] = s[i] /\ u[j] = s[j]
      BY <2>1, <1>1, <1>2
    <3> QED
      BY <3>1, <1>2 DEF Increasing
  <2>2. CASE i <= Len(s) /\ ~(j <= Len(s))
    <3>1. i \in 1 .. Len(s) /\ j - Len(s) \in 1 .. Len(t)
      BY <2>2, <1>1, <1>2
    <3>2. u[i] = s[i] /\ u[j] = t[j - Len(s)]
      BY <2>2, <1>1
    <3>3. u[i] \in Range(s) /\ u[j] \in Range(t)
      BY <3>1, <3>2, Elements
    <3> QED
      BY <3>3 DEF Below
  <2>3. CASE ~(i <= Len(s))
    <3>1. /\ i - Len(s) \in 1 .. Len(t) /\ j - Len(s) \in 1 .. Len(t)
          /\ i - Len(s) < j - Len(s) /\ ~(j <= Len(s))
      <4>1. /\ Len(s) \in Nat /\ Len(t) \in Nat
            /\ i \in 1 .. (Len(s) + Len(t)) /\ j \in 1 .. (Len(s) + Len(t))
        BY <1>1
      <4>2. i < j /\ i > Len(s)
        BY <4>1, <2>3, <1>2
      <4> QED
        BY <4>1, <4>2
    <3>2. u[i] = t[i - Len(s)] /\ u[j] = t[j - Len(s)]
      BY <2>3, <3>1, <1>1
    <3> QED
      BY <3>1, <3>2 DEF Increasing
  <2> QED
    BY <2>1, <2>2, <2>3, <1>1, <1>2
<1> QED
  BY <1>2 DEF u, Increasing

(* What recv_slice, send_slice or an acknowledgement takes, and what is    *)
(* left, make up the whole, one before the other.                          *)
LEMMA Cut ==
  ASSUME NEW S, NEW s \in Seq(S), NEW n \in Nat
  PROVE  LET m == Shorter(n, Len(s))
         IN  /\ m \in 0 .. Len(s) /\ Len(s) \in Nat
             /\ Taken(s, n) \in Seq(S) /\ Len(Taken(s, n)) = m
             /\ \A i \in 1 .. m : Taken(s, n)[i] = s[i]
             /\ Dropped(s, n) \in Seq(S) /\ Len(Dropped(s, n)) = Len(s) - m
             /\ \A i \in 1 .. Len(s) - m : Dropped(s, n)[i] = s[m + i]
<1> DEFINE m == Shorter(n, Len(s))
<1>1. Len(s) \in Nat /\ \A i \in 1 .. Len(s) : s[i] \in S
  OBVIOUS
<1>2. m \in 0 .. Len(s)
  BY <1>1 DEF Shorter
<1>3. Taken(s, n) = SubSeq(s, 1, m) /\ Dropped(s, n) = SubSeq(s, m + 1, Len(s))
  BY DEF Taken, Dropped
<1> HIDE DEF m
<1>4. /\ SubSeq(s, 1, m) \in Seq(S)
      /\ Len(SubSeq(s, 1, m)) = IF 1 <= m THEN m - 1 + 1 ELSE 0
      /\ \A i \in 1 .. m - 1 + 1 : SubSeq(s, 1, m)[i] = s[1 + i - 1]
  <2>1. 1 \in Int /\ m \in Int /\ \A i \in 1 .. m : s[i] \in S
    BY <1>1, <1>2
  <2> QED
    BY <2>1, SubSeqProperties
<1>5. /\ SubSeq(s, m + 1, Len(s)) \in Seq(S)
      /\ Len(SubSeq(s, m + 1, Len(s))) =
           IF m + 1 <= Len(s) THEN Len(s) - (m + 1) + 1 ELSE 0
      /\ \A i \in 1 .. Len(s) - (m + 1) + 1 :
           SubSeq(s, m + 1, Len(s))[i] = s[m + 1 + i - 1]
  <2>1. m + 1 \in Int /\ Len(s) \in Int /\ \A i \in m + 1 .. Len(s) : s[i] \in S
    BY <1>1, <1>2
  <2> QED
    BY <2>1, SubSeqProperties
<1>6. \A k \in Nat : (IF 1 <= k THEN k - 1 + 1 ELSE 0) = k
  OBVIOUS
<1>7. \A l \in Nat : \A k \in 0 .. l :
        (IF k + 1 <= l THEN l - (k + 1) + 1 ELSE 0) = l - k
  OBVIOUS
<1>8. m \in Nat
  BY <1>1, <1>2
<1>9. Len(SubSeq(s, 1, m)) = m
  BY <1>4, <1>6, <1>8, Zenon
<1>10. Len(SubSeq(s, m + 1, Len(s))) = Len(s) - m
  BY <1>1, <1>2, <1>5, <1>7, Zenon
<1>11. ASSUME NEW i \in 1 .. m PROVE SubSeq(s, 1, m)[i] = s[i]
  <2>1. i \in 1 .. m - 1 + 1 /\ 1 + i - 1 = i
    BY <1>8
  <2> QED
    BY <2>1, <1>4
<1>12. ASSUME NEW i \in 1 .. Len(s) - m
       PROVE  SubSeq(s, m + 1, Len(s))[i] = s[m + i]
  <2>1. i \in 1 .. Len(s) - (m + 1) + 1 /\ m + 1 + i - 1 = m + i
    BY <1>1, <1>8
  <2> QED
    BY <2>1, <1>5
<1>13. /\ m \in 0 .. Len(s) /\ Len(s) \in Nat
       /\ Taken(s, n) \in Seq(S) /\ Len(Taken(s, n)) = m
       /\ \A i \in 1 .. m : Taken(s, n)[i] = s[i]
       /\ Dropped(s, n) \in Seq(S) /\ Len(Dropped(s, n)) = Len(s) - m
       /\ \A i \in 1 .. Len(s) - m : Dropped(s, n)[i] = s[m + i]
  BY <1>1, <1>2, <1>3, <1>4, <1>5, <1>9, <1>10, <1>11, <1>12
<1> QED
  BY <1>13 DEF m

(* Cutting a sequence loses nothing of it.                                 *)
LEMMA CutElements ==
  ASSUME NEW S, NEW s \in Seq(S), NEW n \in Nat
  PROVE  Range(s) = Range(Taken(s, n)) \cup Range(Dropped(s, n))
<1> DEFINE m == Shorter(n, Len(s))
           t == Taken(s, n)
           d == Dropped(s, n)
<1>1. /\ m \in 0 .. Len(s) /\ Len(s) \in Nat
      /\ t \in Seq(S) /\ Len(t) = m /\ \A i \in 1 .. m : t[i] = s[i]
      /\ d \in Seq(S) /\ Len(d) = Len(s) - m
      /\ \A i \in 1 .. Len(s) - m : d[i] = s[m + i]
  BY Cut
<1> HIDE DEF m, t, d
<1>2. ASSUME NEW x \in Range(s) PROVE x \in Range(t) \cup Range(d)
  <2>1. PICK i \in 1 .. Len(s) : x = s[i]
    BY Elements
  <2>2. CASE i <= m
    BY <2>1, <2>2, <1>1, Elements
  <2>3. CASE ~(i <= m)
    <3>1. i - m \in 1 .. Len(d) /\ m + (i - m) = i
      BY <2>3, <1>1
    <3>2. x = d[i - m]
      BY <3>1, <2>1, <1>1
    <3> QED
      BY <3>1, <3>2, <1>1, Elements
  <2> QED
    BY <2>2, <2>3
<1>3. ASSUME NEW x \in Range(t) PROVE x \in Range(s)
  <2>1. PICK i \in 1 .. m : x = t[i]
    BY <1>1, Elements
  <2>2. i \in 1 .. Len(s) /\ x = s[i]
    BY <2>1, <1>1
  <2> QED
    BY <2>2, Elements
<1>4. ASSUME NEW x \in Range(d) PROVE x \in Range(s)
  <2>1. PICK i \in 1 .. Len(s) - m : x = d[i]
    BY <1>1, Elements
  <2>2. m + i \in 1 .. Len(s) /\ x = s[m + i]
    BY <2>1, <1>1
  <2> QED
    BY <2>2, Elements
<1> QED
  BY <1>2, <1>3, <1>4 DEF t, d

(* The parts of a sequence in order are in order, one before the other.    *)
LEMMA CutIncreasing ==
  ASSUME NEW s \in Seq(Int), NEW n \in Nat, Increasing(s)
  PROVE  /\ Increasing(Taken(s, n)) /\ Increasing(Dropped(s, n))
         /\ Below(Taken(s, n), Dropped(s, n))
<1> DEFINE m == Shorter(n, Len(s))
           t == Taken(s, n)
           d == Dropped(s, n)
<1>1. /\ m \in 0 .. Len(s) /\ Len(s) \in Nat
      /\ t \in Seq(Int) /\ Len(t) = m /\ \A i \in 1 .. m : t[i] = s[i]
      /\ d \in Seq(Int) /\ Len(d) = Len(s) - m
      /\ \A i \in 1 .. Len(s) - m : d[i] = s[m + i]
  BY Cut
<1> HIDE DEF m, t, d
<1>2. Increasing(t)
  <2> SUFFICES ASSUME NEW i \in 1 .. m, NEW j \in 1 .. m, i < j PROVE t[i] < t[j]
    BY <1>1 DEF Increasing
  <2>1. i \in 1 .. Len(s) /\ j \in 1 .. Len(s)
    BY <1>1
  <2>2. t[i] = s[i] /\ t[j] = s[j]
    BY <1>1
  <2> QED
    BY <2>1, <2>2 DEF Increasing
<1>3. ASSUME NEW i \in 1 .. Len(d), NEW j \in 1 .. Len(d), i < j
      PROVE  d[i] < d[j]
  <2>1. /\ m + i \in 1 .. Len(s) /\ m + j \in 1 .. Len(s) /\ m + i < m + j
        /\ i \in 1 .. Len(s) - m /\ j \in 1 .. Len(s) - m
    BY <1>1, <1>3
  <2>2. d[i] = s[m + i] /\ d[j] = s[m + j]
    BY <2>1, <1>1
  <2> QED
    BY <2>1, <2>2 DEF Increasing
<1>4. ASSUME NEW x \in Range(t), NEW y \in Range(d) PROVE x < y
  <2>0. /\ \A z : z \in Range(t) <=> \E i \in 1 .. Len(t) : z = t[i]
        /\ \A z : z \in Range(d) <=> \E i \in 1 .. Len(d) : z = d[i]
    BY <1>1, Elements, Zenon
  <2>1. PICK i \in 1 .. Len(t) : x = t[i]
    BY <2>0
  <2>2. PICK j \in 1 .. Len(d) : y = d[j]
    BY <2>0
  <2>3. i \in 1 .. m /\ j \in 1 .. Len(s) - m
    BY <1>1
  <2>4. Len(s) \in Nat /\ m \in 0 .. Len(s)
    BY <1>1
  <2>5. i \in 1 .. Len(s) /\ m + j \in 1 .. Len(s) /\ i < m + j
    BY <2>3, <2>4
  <2>6. x = s[i] /\ y = s[m + j]
    BY <2>3, <2>1, <2>2, <1>1
  <2> QED
    BY <2>5, <2>6 DEF Increasing
<1>5. Increasing(d)
  BY <1>3 DEF Increasing
<1>6. Below(t, d)
  BY <1>4 DEF Below
<1> QED
  BY <1>2, <1>5, <1>6 DEF t, d

(* The next n bytes of a stream.                                           *)
LEMMA NextBytes ==
  ASSUME NEW top \in Nat, NEW n \in Nat
  PROVE  LET s == [i \in 1 .. n |-> top + i]
         IN  /\ s \in Seq(Int) /\ Len(s) = n /\ Increasing(s)
             /\ \A x : x \in Range(s) <=> x \in (top + 1) .. (top + n)
<1> DEFINE s == [i \in 1 .. n |-> top + i]
<1>1. s \in Seq(Int) /\ Len(s) = n /\ \A i \in 1 .. n : s[i] = top + i
  OBVIOUS
<1> HIDE DEF s
<1>2. Increasing(s)
  BY <1>1 DEF Increasing
<1>3. ASSUME NEW x \in Range(s) PROVE x \in (top + 1) .. (top + n)
  <2>1. PICK i \in 1 .. n : x = s[i]
    BY <1>1, Elements
  <2> QED
    BY <2>1, <1>1
<1>4. ASSUME NEW x \in (top + 1) .. (top + n) PROVE x \in Range(s)
  <2>1. x - top \in 1 .. n /\ top + (x - top) = x
    OBVIOUS
  <2>2. x = s[x - top]
    BY <2>1, <1>1
  <2> QED
    BY <2>1, <2>2, <1>1, Elements
<1> QED
  BY <1>1, <1>2, <1>3, <1>4 DEF s

-----------------------------------------------------------------------------
(* Movements of bytes in a stream                                          *)

(* The pieces of a stream.                                                 *)
Pieces(a, b, q, d, top) ==
  /\ a \in Seq(Int) /\ b \in Seq(Int) /\ d \in Seq(Int)
  /\ q \in Seq(Seq(Int)) /\ top \in Nat

(* A channel with a message more, and without its first.                   *)
LEMMA ChannelAppend ==
  ASSUME NEW S, NEW q \in Seq(S), NEW m \in S
  PROVE  /\ Append(q, m) \in Seq(S) /\ Len(q) \in Nat
         /\ Len(Append(q, m)) = Len(q) + 1
         /\ \A i \in 1 .. Len(q) + 1 :
              Append(q, m)[i] = IF i = Len(q) + 1 THEN m ELSE q[i]
OBVIOUS

(* A channel without its first message.                                    *)
LEMMA ChannelTail ==
  ASSUME NEW S, NEW q \in Seq(S), q # <<>>
  PROVE  /\ Tail(q) \in Seq(S) /\ Head(q) \in S /\ Head(q) = q[1]
         /\ Len(q) \in Nat \ {0} /\ Len(Tail(q)) = Len(q) - 1
         /\ \A i \in 1 .. Len(q) - 1 : Tail(q)[i] = q[i + 1]
OBVIOUS

(* A message m that comes after everything in a channel and before what is *)
(* still to be put there.                                                  *)
LEMMA AppendOrdered ==
  ASSUME NEW a, NEW b, NEW q, NEW d, NEW top, NEW m \in Seq(Int),
         Pieces(a, b, q, d, top), Ordered(a, b, q, d, top),
         Increasing(m), Range(m) \subseteq 1 .. top,
         Below(a, m), Below(b, m), Below(m, d),
         \A i \in 1 .. Len(q) : Below(q[i], m)
  PROVE  Ordered(a, b, Append(q, m), d, top)
<1> DEFINE u == Append(q, m)
<1>1. /\ Len(q) \in Nat /\ Len(u) = Len(q) + 1
      /\ \A i \in 1 .. Len(u) : u[i] = IF i = Len(q) + 1 THEN m ELSE q[i]
  BY ChannelAppend DEF Pieces
<1> HIDE DEF u
<1>2. ASSUME NEW i \in 1 .. Len(u)
      PROVE  /\ Increasing(u[i]) /\ Range(u[i]) \subseteq 1 .. top
             /\ Below(a, u[i]) /\ Below(b, u[i]) /\ Below(u[i], d)
  <2>1. CASE i = Len(q) + 1
    BY <2>1, <1>1
  <2>2. CASE i # Len(q) + 1
    <3>1. i \in 1 .. Len(q) /\ u[i] = q[i]
      BY <2>2, <1>1
    <3> QED
      BY <3>1 DEF Ordered
  <2> QED
    BY <2>1, <2>2
<1>3. ASSUME NEW i \in 1 .. Len(u), NEW j \in 1 .. Len(u), i < j
      PROVE  Below(u[i], u[j])
  <2>1. i \in 1 .. Len(q) /\ u[i] = q[i]
    BY <1>1, <1>3
  <2>2. CASE j = Len(q) + 1
    BY <2>1, <2>2, <1>1
  <2>3. CASE j # Len(q) + 1
    <3>1. j \in 1 .. Len(q) /\ u[j] = q[j]
      BY <2>3, <1>1
    <3> QED
      BY <2>1, <3>1, <1>3 DEF Ordered
  <2> QED
    BY <2>2, <2>3
<1>4. Ordered(a, b, u, d, top)
  BY <1>2, <1>3 DEF Ordered
<1> QED
  BY <1>4 DEF u

(* What was in a channel or is appended to it is in it.                    *)
LEMMA AppendComplete ==
  ASSUME NEW q \in Seq(Seq(Int)), NEW m \in Seq(Int), NEW x,
         (\E i \in 1 .. Len(q) : x \in Range(q[i])) \/ x \in Range(m)
  PROVE  \E i \in 1 .. Len(Append(q, m)) : x \in Range(Append(q, m)[i])
<1> DEFINE u == Append(q, m)
<1>1. /\ Len(q) \in Nat /\ Len(u) = Len(q) + 1
      /\ \A i \in 1 .. Len(u) : u[i] = IF i = Len(q) + 1 THEN m ELSE q[i]
  BY ChannelAppend
<1> HIDE DEF u
<1>2. ASSUME NEW i \in 1 .. Len(q), x \in Range(q[i])
      PROVE  \E j \in 1 .. Len(u) : x \in Range(u[j])
  <2>1. i \in 1 .. Len(u) /\ u[i] = q[i]
    BY <1>1
  <2> QED
    BY <1>2, <2>1
<1>3. ASSUME x \in Range(m) PROVE \E j \in 1 .. Len(u) : x \in Range(u[j])
  <2>1. Len(q) + 1 \in 1 .. Len(u) /\ u[Len(q) + 1] = m
    BY <1>1
  <2> QED
    BY <1>3, <2>1
<1> QED
  BY <1>2, <1>3 DEF u

(* What is still to be put there may get shorter from the front.           *)
LEMMA ShorterOrdered ==
  ASSUME NEW a, NEW b, NEW q, NEW d, NEW top, NEW e \in Seq(Int),
         Ordered(a, b, q, d, top), Increasing(e), Range(e) \subseteq Range(d)
  PROVE  Ordered(a, b, q, e, top)
BY DEF Ordered, Below

(* The stack reads at most n bytes of the receive buffer d and puts them   *)
(* into the channel, or drops them.                                        *)
LEMMA ReadOrdered ==
  ASSUME NEW a, NEW b, NEW q, NEW d, NEW top, NEW n \in Nat,
         Pieces(a, b, q, d, top), Ordered(a, b, q, d, top)
  PROVE  /\ Pieces(a, b, Append(q, Taken(d, n)), Dropped(d, n), top)
         /\ Ordered(a, b, Append(q, Taken(d, n)), Dropped(d, n), top)
         /\ Complete(a, b, q, d, top)
              => Complete(a, b, Append(q, Taken(d, n)), Dropped(d, n), top)
         /\ Ordered(a, b, q, Dropped(d, n), top)
<1> DEFINE m == Taken(d, n)
           e == Dropped(d, n)
<1>1. /\ d \in Seq(Int) /\ m \in Seq(Int) /\ e \in Seq(Int)
      /\ q \in Seq(Seq(Int)) /\ Increasing(d)
  BY Cut DEF Pieces, Ordered
<1>2. Range(d) = Range(m) \cup Range(e) /\ Increasing(m) /\ Increasing(e) /\ Below(m, e)
  BY <1>1, CutElements, CutIncreasing
<1> HIDE DEF m, e
<1>3. Ordered(a, b, q, e, top)
  BY <1>1, <1>2, ShorterOrdered
<1>4. /\ Range(m) \subseteq 1 .. top /\ Below(a, m) /\ Below(b, m)
      /\ \A i \in 1 .. Len(q) : Below(q[i], m)
  BY <1>2 DEF Ordered, Below
<1>5. Pieces(a, b, q, e, top)
  BY <1>1 DEF Pieces
<1>6. Ordered(a, b, Append(q, m), e, top)
  BY <1>1, <1>2, <1>3, <1>4, <1>5, AppendOrdered
<1>7. Pieces(a, b, Append(q, m), e, top)
  BY <1>1, <1>5, ChannelAppend DEF Pieces
<1>8. ASSUME Complete(a, b, q, d, top) PROVE Complete(a, b, Append(q, m), e, top)
  <2> SUFFICES ASSUME NEW x \in 1 .. top
               PROVE  \/ x \in Range(a) \cup Range(b) \cup Range(e)
                      \/ \E i \in 1 .. Len(Append(q, m)) : x \in Range(Append(q, m)[i])
    BY DEF Complete
  <2>1. \/ x \in Range(a) \cup Range(b) \cup Range(e)
        \/ (\E i \in 1 .. Len(q) : x \in Range(q[i])) \/ x \in Range(m)
    BY <1>2, <1>8 DEF Complete
  <2> QED
    BY <2>1, <1>1, AppendComplete
<1> QED
  BY <1>3, <1>6, <1>7, <1>8 DEF m, e

(* n bytes more arrive.                                                    *)
LEMMA ArriveOrdered ==
  ASSUME NEW a, NEW b, NEW q, NEW d, NEW top, NEW n \in Nat,
         Pieces(a, b, q, d, top), Ordered(a, b, q, d, top)
  PROVE  LET s == [i \in 1 .. n |-> top + i]
         IN  /\ Pieces(a, b, q, d \o s, top + n)
             /\ Ordered(a, b, q, d \o s, top + n)
             /\ Complete(a, b, q, d, top) => Complete(a, b, q, d \o s, top + n)
<1> DEFINE s == [i \in 1 .. n |-> top + i]
           e == d \o s
<1>1. /\ d \in Seq(Int) /\ Increasing(d) /\ top \in Nat /\ Range(d) \subseteq 1 .. top
  BY DEF Pieces, Ordered
<1>2. /\ s \in Seq(Int) /\ Increasing(s)
      /\ \A x : x \in Range(s) <=> x \in (top + 1) .. (top + n)
  BY <1>1, NextBytes
<1> HIDE DEF s
<1>3. e \in Seq(Int) /\ Range(e) = Range(d) \cup Range(s)
  BY <1>1, <1>2, JoinedElements
<1>4. Below(d, s)
  BY <1>1, <1>2 DEF Below
<1>5. Increasing(e)
  BY <1>1, <1>2, <1>4, JoinedIncreasing
<1> HIDE DEF e
<1>6. /\ \A x \in 1 .. top : x \in 1 .. (top + n) /\ \A y \in Range(s) : x < y
      /\ Range(s) \subseteq 1 .. (top + n)
      /\ \A x \in 1 .. (top + n) : x \in 1 .. top \/ x \in Range(s)
  <2>1. top \in Nat
    BY <1>1
  <2>2. ASSUME NEW x \in 1 .. top
        PROVE  x \in 1 .. (top + n) /\ \A y \in Range(s) : x < y
    BY <2>1, <1>2
  <2>3. ASSUME NEW y \in Range(s) PROVE y \in 1 .. (top + n)
    BY <2>1, <1>2
  <2>4. ASSUME NEW x \in 1 .. (top + n) PROVE x \in 1 .. top \/ x \in Range(s)
    BY <2>1, <1>2
  <2> QED
    BY <2>2, <2>3, <2>4
<1>7. /\ Increasing(a) /\ Increasing(b) /\ Below(a, b)
      /\ Range(a) \cup Range(b) \cup Range(e) \subseteq 1 .. (top + n)
      /\ Below(a, e) /\ Below(b, e)
  BY <1>3, <1>6 DEF Ordered, Below
<1>8. ASSUME NEW i \in 1 .. Len(q)
      PROVE  /\ Increasing(q[i]) /\ Range(q[i]) \subseteq 1 .. (top + n)
             /\ Below(a, q[i]) /\ Below(b, q[i]) /\ Below(q[i], e)
             /\ \A j \in 1 .. Len(q) : i < j => Below(q[i], q[j])
  BY <1>3, <1>6 DEF Ordered, Below
<1>9. Ordered(a, b, q, e, top + n)
  BY <1>5, <1>7, <1>8 DEF Ordered
<1>10. ASSUME Complete(a, b, q, d, top) PROVE Complete(a, b, q, e, top + n)
  BY <1>3, <1>6, <1>10 DEF Complete
<1>11. Pieces(a, b, q, e, top + n)
  BY <1>1, <1>3 DEF Pieces
<1> QED
  BY <1>9, <1>10, <1>11 DEF e, s

(* n bytes more go into the channel as one message.                        *)
LEMMA SendOrdered ==
  ASSUME NEW a, NEW b, NEW q, NEW top, NEW n \in Nat,
         Pieces(a, b, q, <<>>, top), Ordered(a, b, q, <<>>, top)
  PROVE  LET s == [i \in 1 .. n |-> top + i]
         IN  /\ Pieces(a, b, Append(q, s), <<>>, top + n)
             /\ Ordered(a, b, Append(q, s), <<>>, top + n)
             /\ Complete(a, b, q, <<>>, top)
                  => Complete(a, b, Append(q, s), <<>>, top + n)
<1> DEFINE s == [i \in 1 .. n |-> top + i]
           none == <<>>
<1>1. top \in Nat /\ q \in Seq(Seq(Int)) /\ Range(none) = {} /\ Increasing(none)
  BY NoElements DEF Pieces
<1>2. /\ s \in Seq(Int) /\ Increasing(s)
      /\ \A x : x \in Range(s) <=> x \in (top + 1) .. (top + n)
  BY <1>1, NextBytes
<1> HIDE DEF s, none
<1>3. /\ \A x \in 1 .. top : x \in 1 .. (top + n) /\ \A y \in Range(s) : x < y
      /\ Range(s) \subseteq 1 .. (top + n)
      /\ \A x \in 1 .. (top + n) : x \in 1 .. top \/ x \in Range(s)
  <2>1. top \in Nat
    BY <1>1
  <2>2. ASSUME NEW x \in 1 .. top
        PROVE  x \in 1 .. (top + n) /\ \A y \in Range(s) : x < y
    BY <2>1, <1>2
  <2>3. ASSUME NEW y \in Range(s) PROVE y \in 1 .. (top + n)
    BY <2>1, <1>2
  <2>4. ASSUME NEW x \in 1 .. (top + n) PROVE x \in 1 .. top \/ x \in Range(s)
    BY <2>1, <1>2
  <2> QED
    BY <2>2, <2>3, <2>4
<1>4. Pieces(a, b, q, none, top) /\ Ordered(a, b, q, none, top)
  BY DEF none
<1>5. Ordered(a, b, q, none, top + n)
  BY <1>3, <1>4 DEF Ordered
<1>6. Pieces(a, b, q, none, top + n)
  BY <1>1, <1>4 DEF Pieces
<1>7. /\ Below(a, s) /\ Below(b, s) /\ Below(s, none)
      /\ \A i \in 1 .. Len(q) : Below(q[i], s)
  BY <1>1, <1>3, <1>4 DEF Ordered, Below
<1>8. Ordered(a, b, Append(q, s), none, top + n)
  BY <1>2, <1>3, <1>5, <1>6, <1>7, AppendOrdered
<1>9. Pieces(a, b, Append(q, s), none, top + n)
  BY <1>1, <1>2, <1>6, ChannelAppend DEF Pieces
<1>10. ASSUME Complete(a, b, q, none, top)
       PROVE  Complete(a, b, Append(q, s), none, top + n)
  <2> SUFFICES ASSUME NEW x \in 1 .. (top + n)
               PROVE  \/ x \in Range(a) \cup Range(b) \cup Range(none)
                      \/ \E i \in 1 .. Len(Append(q, s)) : x \in Range(Append(q, s)[i])
    BY DEF Complete
  <2>1. \/ x \in Range(a) \cup Range(b) \cup Range(none)
        \/ (\E i \in 1 .. Len(q) : x \in Range(q[i])) \/ x \in Range(s)
    BY <1>3, <1>10 DEF Complete
  <2> QED
    BY <2>1, <1>1, <1>2, AppendComplete
<1> QED
  BY <1>8, <1>9, <1>10 DEF s, none

(* At most n bytes of the channel's first message are delivered; the rest  *)
(* of it is gone, a hole unless the message fits.                          *)
LEMMA DeliverOrdered ==
  ASSUME NEW a, NEW b, NEW q, NEW d, NEW top, NEW n \in Nat, q # <<>>,
         Pieces(a, b, q, d, top), Ordered(a, b, q, d, top)
  PROVE  /\ Pieces(a, b \o Taken(Head(q), n), Tail(q), d, top)
         /\ Ordered(a, b \o Taken(Head(q), n), Tail(q), d, top)
         /\ Complete(a, b, q, d, top) /\ Len(Head(q)) <= n
              => Complete(a, b \o Taken(Head(q), n), Tail(q), d, top)
<1> DEFINE h == Head(q)
           t == Taken(h, n)
           c == b \o t
           u == Tail(q)
<1>1. /\ b \in Seq(Int) /\ q \in Seq(Seq(Int)) /\ Increasing(b)
  BY DEF Pieces, Ordered
<1>2. /\ u \in Seq(Seq(Int)) /\ h \in Seq(Int) /\ h = q[1]
      /\ Len(q) \in Nat \ {0} /\ Len(u) = Len(q) - 1
      /\ \A i \in 1 .. Len(u) : u[i] = q[i + 1]
  BY <1>1, ChannelTail
<1> HIDE DEF h, u
<1>3. 1 \in 1 .. Len(q) /\ Increasing(h) /\ Below(b, h) /\ Below(a, h) /\ Below(h, d)
      /\ Range(h) \subseteq 1 .. top
  BY <1>2 DEF Ordered
<1>4. /\ t \in Seq(Int) /\ Increasing(t) /\ Range(t) \subseteq Range(h)
      /\ Len(h) <= n => Range(t) = Range(h)
  <2>1. t \in Seq(Int) /\ Increasing(t) /\ Range(h) = Range(t) \cup Range(Dropped(h, n))
    BY <1>2, <1>3, Cut, CutElements, CutIncreasing
  <2>2. ASSUME Len(h) <= n PROVE Range(Dropped(h, n)) = {}
    <3>1. /\ Dropped(h, n) \in Seq(Int) /\ Len(h) \in Nat
          /\ Len(Dropped(h, n)) = Len(h) - Shorter(n, Len(h))
      BY <1>2, Cut
    <3>2. Shorter(n, Len(h)) = Len(h)
      BY <2>2, <3>1 DEF Shorter
    <3>3. Len(Dropped(h, n)) = 0 /\ 1 .. 0 = {}
      BY <3>1, <3>2
    <3>4. \A x : x \in Range(Dropped(h, n)) <=>
                  \E i \in 1 .. Len(Dropped(h, n)) : x = Dropped(h, n)[i]
      BY <3>1, Elements
    <3> QED
      BY <3>3, <3>4
  <2> QED
    BY <2>1, <2>2
<1> HIDE DEF t
<1>5. c \in Seq(Int) /\ Range(c) = Range(b) \cup Range(t)
  BY <1>1, <1>4, JoinedElements
<1>6. Increasing(c)
  <2>1. Below(b, t)
    BY <1>3, <1>4 DEF Below
  <2> QED
    BY <2>1, <1>1, <1>4, JoinedIncreasing
<1> HIDE DEF c
<1>7. ASSUME NEW i \in 1 .. Len(u)
      PROVE  i + 1 \in 1 .. Len(q) /\ u[i] = q[i + 1] /\ 1 < i + 1
  BY <1>2
<1>8. ASSUME NEW i \in 1 .. Len(u)
      PROVE  /\ Increasing(u[i]) /\ Range(u[i]) \subseteq 1 .. top
             /\ Below(a, u[i]) /\ Below(c, u[i]) /\ Below(u[i], d)
  <2>1. /\ Increasing(u[i]) /\ Range(u[i]) \subseteq 1 .. top
        /\ Below(a, u[i]) /\ Below(b, u[i]) /\ Below(u[i], d)
    BY <1>7 DEF Ordered
  <2>2. Below(h, u[i])
    BY <1>2, <1>3, <1>7 DEF Ordered
  <2>3. Below(c, u[i])
    BY <2>1, <2>2, <1>4, <1>5 DEF Below
  <2> QED
    BY <2>1, <2>3
<1>9. ASSUME NEW i \in 1 .. Len(u), NEW j \in 1 .. Len(u), i < j
      PROVE  Below(u[i], u[j])
  <2>1. i + 1 < j + 1
    BY <1>9
  <2> QED
    BY <2>1, <1>7 DEF Ordered
<1>10. /\ Increasing(a) /\ Increasing(d) /\ Below(a, c) /\ Below(a, d) /\ Below(c, d)
       /\ Range(a) \cup Range(c) \cup Range(d) \subseteq 1 .. top
  BY <1>3, <1>4, <1>5 DEF Ordered, Below
<1>11. Ordered(a, c, u, d, top)
  BY <1>6, <1>8, <1>9, <1>10 DEF Ordered
<1>12. Pieces(a, c, u, d, top)
  BY <1>2, <1>5 DEF Pieces
<1>13. ASSUME Complete(a, b, q, d, top), Len(h) <= n PROVE Complete(a, c, u, d, top)
  <2> SUFFICES ASSUME NEW x \in 1 .. top, NEW i \in 1 .. Len(q), x \in Range(q[i])
               PROVE  x \in Range(c) \/ \E j \in 1 .. Len(u) : x \in Range(u[j])
    BY <1>5, <1>13 DEF Complete
  <2>1. CASE i = 1
    BY <2>1, <1>2, <1>4, <1>5, <1>13
  <2>2. CASE i # 1
    <3>1. i - 1 \in 1 .. Len(u) /\ (i - 1) + 1 = i
      BY <2>2, <1>2
    <3>2. u[i - 1] = q[(i - 1) + 1]
      BY <3>1, <1>2
    <3>3. x \in Range(u[i - 1])
      BY <3>1, <3>2
    <3> QED
      BY <3>1, <3>3
  <2> QED
    BY <2>1, <2>2
<1> QED
  BY <1>11, <1>12, <1>13 DEF c, t, u, h

(* The peer acknowledges n bytes of b.                                     *)
LEMMA AckOrdered ==
  ASSUME NEW a, NEW b, NEW q, NEW d, NEW top, NEW n \in Nat,
         Pieces(a, b, q, d, top), Ordered(a, b, q, d, top)
  PROVE  /\ Pieces(a \o Taken(b, n), Dropped(b, n), q, d, top)
         /\ Ordered(a \o Taken(b, n), Dropped(b, n), q, d, top)
         /\ Complete(a, b, q, d, top)
              => Complete(a \o Taken(b, n), Dropped(b, n), q, d, top)
<1> DEFINE t == Taken(b, n)
           e == Dropped(b, n)
           c == a \o t
<1>1. a \in Seq(Int) /\ b \in Seq(Int) /\ Increasing(a) /\ Increasing(b) /\ Below(a, b)
  BY DEF Pieces, Ordered
<1>2. /\ t \in Seq(Int) /\ e \in Seq(Int) /\ Range(b) = Range(t) \cup Range(e)
      /\ Increasing(t) /\ Increasing(e) /\ Below(t, e)
  BY <1>1, Cut, CutElements, CutIncreasing
<1> HIDE DEF t, e
<1>3. c \in Seq(Int) /\ Range(c) = Range(a) \cup Range(t)
  BY <1>1, <1>2, JoinedElements
<1>4. Increasing(c)
  <2>1. Below(a, t)
    BY <1>1, <1>2 DEF Below
  <2> QED
    BY <2>1, <1>1, <1>2, JoinedIncreasing
<1> HIDE DEF c
<1>5. /\ Increasing(d) /\ Below(c, e) /\ Below(c, d) /\ Below(e, d)
      /\ Range(c) \cup Range(e) \cup Range(d) \subseteq 1 .. top
  BY <1>1, <1>2, <1>3 DEF Ordered, Below
<1>6. ASSUME NEW i \in 1 .. Len(q)
      PROVE  /\ Increasing(q[i]) /\ Range(q[i]) \subseteq 1 .. top
             /\ Below(c, q[i]) /\ Below(e, q[i]) /\ Below(q[i], d)
             /\ \A j \in 1 .. Len(q) : i < j => Below(q[i], q[j])
  BY <1>2, <1>3 DEF Ordered, Below
<1>7. Ordered(c, e, q, d, top)
  BY <1>2, <1>4, <1>5, <1>6 DEF Ordered
<1>8. Complete(a, b, q, d, top) => Complete(c, e, q, d, top)
  BY <1>2, <1>3 DEF Complete
<1>9. Pieces(c, e, q, d, top)
  BY <1>2, <1>3 DEF Pieces
<1> QED
  BY <1>7, <1>8, <1>9 DEF c, t, e

(* A channel that is dropped leaves the rest in order; a new connection    *)
(* starts with nothing.                                                    *)
LEMMA ClearOrdered ==
  ASSUME NEW a, NEW b, NEW q, NEW d, NEW top, Ordered(a, b, q, d, top)
  PROVE  Ordered(a, b, <<>>, d, top)
<1>1. Len(<<>>) = 0 /\ 1 .. 0 = {}
  OBVIOUS
<1> QED
  BY <1>1 DEF Ordered

(* A new connection starts with two empty streams.                         *)
LEMMA BeginOrdered ==
  Ordered(<<>>, <<>>, <<>>, <<>>, 0) /\ Complete(<<>>, <<>>, <<>>, <<>>, 0)
<1>1. Len(<<>>) = 0 /\ 1 .. 0 = {}
  OBVIOUS
<1> QED
  BY <1>1, NoElements DEF Ordered, Complete, Below

-----------------------------------------------------------------------------
(* The invariant in parts: each stream by itself, and the rest             *)

UpTypes ==
  /\ rx \in Seq(Bytes) /\ Len(rx) <= RxCap
  /\ up \in [Conns -> Seq(Seq(Bytes))] /\ \A k \in Conns : Len(up[k]) <= ChanCap
  /\ upgot \in [Conns -> Seq(Bytes)] /\ sent \in 0 .. MaxUp

DownTypes ==
  /\ tx \in Seq(Bytes) /\ Len(tx) <= TxCap
  /\ down \in [Conns -> Seq(Seq(Bytes))] /\ \A k \in Conns : Len(down[k]) <= ChanCap
  /\ made \in [Conns -> 0 .. MaxDown] /\ downgot \in Seq(Bytes)

RestTypes ==
  /\ sock \in {"listen", "syn", "open", "closewait", "closed"}
  /\ act \in BOOLEAN /\ conn \in 0 .. MaxConns /\ peer \in 0 .. MaxConns
  /\ bridge \in [Conns -> {"none", "queued", "started"}]
  /\ pipes \in [Conns -> SUBSET {"up", "down"}]
  /\ hole \subseteq {"up", "down"}
  /\ act => conn \in Conns

UpOK(q, r, n) ==
  /\ Ordered(<<>>, upgot[conn], q, r, n)
  /\ "up" \notin hole => Complete(<<>>, upgot[conn], q, r, n)

DownOK(g, t, q) ==
  /\ Ordered(g, t, q, <<>>, made[conn])
  /\ "down" \notin hole => Complete(g, t, q, <<>>, made[conn])

UpInv   == UpTypes /\ (act => UpOK(up[conn], rx, sent))
DownInv == DownTypes /\ (act => DownOK(downgot, tx, down[conn]))
AllInv  == UpInv /\ DownInv /\ RestTypes /\ EntryFollowsSocket

(* The parts make up the invariant that TLC checks.                        *)
LEMMA PartsMakeStackInv == AllInv => StackInv
BY DEF AllInv, UpInv, DownInv, UpTypes, DownTypes, RestTypes, UpOK, DownOK,
   EntryFollowsSocket, StackInv, TypeOK, OwnBridge, PiecesInOrder

(* The assumed bounds, and bytes as numbers.                               *)
LEMMA Bounds ==
  /\ MaxConns \in Nat \ {0} /\ MaxUp \in Nat /\ MaxDown \in Nat
  /\ RxCap \in Nat \ {0} /\ TxCap \in Nat \ {0} /\ ChanCap \in Nat \ {0}
  /\ RecvMax \in Nat \ {0} /\ ReadMax \in Nat \ {0}
  /\ Bytes \subseteq Int
BY TunnelAssumption DEF Bytes

(* Sequences of bytes are sequences of numbers, and so are messages.       *)
LEMMA ByteSeqs ==
  /\ \A s \in Seq(Bytes) : s \in Seq(Int)
  /\ \A q \in Seq(Seq(Bytes)) : q \in Seq(Seq(Int))
<1>1. \A S, T : S \subseteq T => Seq(S) \subseteq Seq(T)
  OBVIOUS
<1>2. Bytes \subseteq Int
  BY Bounds
<1>3. Seq(Bytes) \subseteq Seq(Int)
  BY <1>1, <1>2, Zenon
<1>4. Seq(Seq(Bytes)) \subseteq Seq(Seq(Int))
  BY <1>1, <1>3, Zenon
<1> QED
  BY <1>3, <1>4

(* The empty sequence has every type.                                      *)
LEMMA EmptyBytes == \A S : <<>> \in Seq(S) /\ Len(<<>>) = 0
OBVIOUS

(* Received bytes go to the bridge, or leave a hole.                       *)
LEMMA MoveUpStep ==
  ASSUME UpTypes, conn \in Conns, NEW r \in Seq(Bytes), Len(r) <= RxCap,
         MoveUp(r), UNCHANGED <<conn, upgot>>, sent' \in 0 .. MaxUp,
         UpOK(up[conn], r, sent'), hole \subseteq hole',
         r # <<>> /\ ~Fits(conn) => "up" \in hole'
  PROVE  UpTypes' /\ UpOK(up[conn], rx, sent)'
         /\ \A k \in Conns : k # conn => up'[k] = up[k]
<1> DEFINE q == up[conn]
           g == upgot[conn]
<1>1. /\ RecvMax \in Nat /\ ChanCap \in Nat /\ RxCap \in Nat
      /\ up \in [Conns -> Seq(Seq(Bytes))] /\ q \in Seq(Seq(Bytes))
      /\ upgot \in [Conns -> Seq(Bytes)] /\ g \in Seq(Bytes)
  BY Bounds DEF UpTypes
<1>2. rx' = Dropped(r, RecvMax)
  BY DEF MoveUp, Unread
<1>3. /\ Taken(r, RecvMax) \in Seq(Bytes) /\ rx' \in Seq(Bytes)
      /\ Len(rx') = Len(r) - Shorter(RecvMax, Len(r))
      /\ Shorter(RecvMax, Len(r)) \in 0 .. Len(r) /\ Len(r) \in Nat
  BY <1>1, <1>2, Cut
<1>4. Len(rx') <= RxCap
  BY <1>1, <1>3
<1>5. Pieces(<<>>, g, q, r, sent')
  BY <1>1, Bounds, ByteSeqs, NoElements DEF Pieces
<1>6. /\ Ordered(<<>>, g, q, r, sent')
      /\ "up" \notin hole => Complete(<<>>, g, q, r, sent')
  BY DEF UpOK
<1>7. /\ Ordered(<<>>, g, Append(q, Taken(r, RecvMax)), rx', sent')
      /\ Complete(<<>>, g, q, r, sent') =>
           Complete(<<>>, g, Append(q, Taken(r, RecvMax)), rx', sent')
      /\ Ordered(<<>>, g, q, rx', sent')
  BY <1>1, <1>2, <1>5, <1>6, ReadOrdered
<1>8. CASE r # <<>> /\ Fits(conn)
  <2>1. up' = [up EXCEPT ![conn] = Append(q, Taken(r, RecvMax))]
    BY <1>8 DEF MoveUp
  <2>2. /\ Append(q, Taken(r, RecvMax)) \in Seq(Seq(Bytes))
        /\ Len(q) \in Nat /\ Len(Append(q, Taken(r, RecvMax))) = Len(q) + 1
    BY <1>1, <1>3, ChannelAppend
  <2>3. Len(q) < ChanCap
    BY <1>8 DEF Fits
  <2>4. Len(Append(q, Taken(r, RecvMax))) <= ChanCap
    BY <2>2, <2>3, <1>1
  <2> HIDE DEF q, g
  <2>5. /\ up' \in [Conns -> Seq(Seq(Bytes))]
        /\ \A k \in Conns : up'[k] = IF k = conn THEN Append(q, Taken(r, RecvMax))
                                                 ELSE up[k]
    BY <2>1, <2>2, <1>1
  <2>6. \A k \in Conns : Len(up'[k]) <= ChanCap
    BY <2>4, <2>5 DEF UpTypes
  <2>7. UpTypes'
    BY <2>5, <2>6, <1>1, <1>3, <1>4 DEF UpTypes
  <2>8. UpOK(up[conn], rx, sent)'
    <3>1. up'[conn'] = Append(q, Taken(r, RecvMax)) /\ upgot'[conn'] = g
      BY <2>5 DEF g
    <3>2. "up" \notin hole' => "up" \notin hole
      OBVIOUS
    <3> QED
      BY <3>1, <3>2, <1>6, <1>7 DEF UpOK
  <2> QED
    BY <2>5, <2>7, <2>8
<1>9. CASE ~(r # <<>> /\ Fits(conn))
  <2>1. up' = up
    BY <1>9 DEF MoveUp
  <2>2. UpTypes'
    BY <2>1, <1>3, <1>4 DEF UpTypes
  <2>3. "up" \notin hole' => Complete(<<>>, g, q, rx', sent')
    <3> SUFFICES ASSUME "up" \notin hole' PROVE Complete(<<>>, g, q, rx', sent')
      OBVIOUS
    <3>1. r = <<>> /\ Complete(<<>>, g, q, r, sent')
      BY <1>6, <1>9
    <3>2. Range(r) = {}
      BY <3>1, NoElements
    <3> HIDE DEF q, g
    <3> QED
      BY <3>1, <3>2 DEF Complete
  <2>4. UpOK(up[conn], rx, sent)'
    BY <2>1, <2>3, <1>7 DEF UpOK
  <2> QED
    BY <2>1, <2>2, <2>4
<1> QED
  BY <1>8, <1>9

(* A message of the bridge goes to the socket; what does not fit is a      *)
(* hole.                                                                   *)
LEMMA MoveDownStep ==
  ASSUME DownTypes, conn \in Conns, NEW s, NEW t \in Seq(Bytes), Len(t) <= TxCap,
         MoveDown(s, t), UNCHANGED <<conn, made>>, downgot' \in Seq(Bytes),
         DownOK(downgot', t, down[conn]), hole \subseteq hole',
         (/\ can_send(s, t) /\ down[conn] # <<>>
          /\ Len(down[conn][1]) > TxCap - Len(t)) => "down" \in hole'
  PROVE  DownTypes' /\ DownOK(downgot, tx, down[conn])'
         /\ \A k \in Conns : k # conn => down'[k] = down[k]
<1> DEFINE q    == down[conn]
           room == TxCap - Len(t)
           top  == made[conn]
<1>1. /\ TxCap \in Nat /\ ChanCap \in Nat /\ Len(t) \in Nat /\ room \in Nat
      /\ down \in [Conns -> Seq(Seq(Bytes))] /\ q \in Seq(Seq(Bytes))
      /\ Len(q) <= ChanCap /\ made \in [Conns -> 0 .. MaxDown] /\ top \in Nat
  BY Bounds DEF DownTypes
<1>2. /\ Ordered(downgot', t, q, <<>>, top)
      /\ "down" \notin hole => Complete(downgot', t, q, <<>>, top)
  BY DEF DownOK
<1>3. Pieces(downgot', t, q, <<>>, top)
  BY <1>1, Bounds, ByteSeqs, NoElements DEF Pieces
<1>4. CASE can_send(s, t) /\ q # <<>>
  <2> DEFINE u == t \o Taken(Head(q), room)
  <2>1. tx' = u /\ down' = [down EXCEPT ![conn] = Tail(q)]
    BY <1>4 DEF MoveDown, Unsent
  <2>2. /\ Tail(q) \in Seq(Seq(Bytes)) /\ Head(q) \in Seq(Bytes) /\ Head(q) = q[1]
        /\ Len(q) \in Nat \ {0} /\ Len(Tail(q)) = Len(q) - 1
    BY <1>1, <1>4, ChannelTail
  <2>3. /\ Taken(Head(q), room) \in Seq(Bytes) /\ Len(Head(q)) \in Nat
        /\ Len(Taken(Head(q), room)) = Shorter(room, Len(Head(q)))
    BY <1>1, <2>2, Cut
  <2>4. Shorter(room, Len(Head(q))) <= room /\ Shorter(room, Len(Head(q))) \in Nat
    BY <1>1, <2>3 DEF Shorter
  <2>5. u \in Seq(Bytes) /\ Len(u) = Len(t) + Len(Taken(Head(q), room))
    BY <2>3
  <2>6. Len(u) <= TxCap
    BY <2>3, <2>4, <2>5, <1>1
  <2>7. /\ Ordered(downgot', u, Tail(q), <<>>, top)
        /\ Complete(downgot', t, q, <<>>, top) /\ Len(Head(q)) <= room
             => Complete(downgot', u, Tail(q), <<>>, top)
    BY <1>1, <1>2, <1>3, <1>4, DeliverOrdered
  <2>8. Len(Tail(q)) <= ChanCap
    BY <2>2, <1>1
  <2>9. "down" \notin hole' => Len(Head(q)) <= room
    BY <2>2, <2>3, <1>1, <1>4
  <2> HIDE DEF q, room, top, u
  <2>10. /\ down' \in [Conns -> Seq(Seq(Bytes))]
         /\ \A k \in Conns : down'[k] = IF k = conn THEN Tail(q) ELSE down[k]
    BY <2>1, <2>2, <1>1
  <2>11. \A k \in Conns : Len(down'[k]) <= ChanCap
    BY <2>8, <2>10 DEF DownTypes
  <2>12. DownTypes'
    BY <2>1, <2>5, <2>6, <2>10, <2>11, <1>1 DEF DownTypes
  <2>13. DownOK(downgot, tx, down[conn])'
    <3>1. down'[conn'] = Tail(q) /\ made'[conn'] = top /\ tx' = u
      BY <2>1, <2>10 DEF top
    <3>2. "down" \notin hole' => "down" \notin hole
      OBVIOUS
    <3> QED
      BY <3>1, <3>2, <2>7, <2>9, <1>2 DEF DownOK
  <2> QED
    BY <2>10, <2>12, <2>13
<1>5. CASE ~(can_send(s, t) /\ q # <<>>)
  <2>1. tx' = t /\ down' = down
    BY <1>5 DEF MoveDown
  <2>2. DownTypes'
    BY <2>1 DEF DownTypes
  <2>3. DownOK(downgot, tx, down[conn])'
    BY <2>1, <1>2 DEF DownOK
  <2> QED
    BY <2>1, <2>2, <2>3
<1> QED
  BY <1>4, <1>5

-----------------------------------------------------------------------------
(* The steps                                                               *)

(* Nothing was done yet for connections to come.                           *)
Untouched(k) ==
  /\ up[k] = <<>> /\ down[k] = <<>> /\ bridge[k] = "none"
  /\ pipes[k] = {} /\ made[k] = 0 /\ upgot[k] = <<>>

(* A turn of the loop, whatever smoltcp has done to the socket of a        *)
(* connection: both streams stay in order, or the connection is over.      *)
LEMMA TurnStep ==
  ASSUME AllInv, act,
         NEW s \in {"listen", "syn", "open", "closewait", "closed"},
         NEW r \in Seq(Bytes), Len(r) <= RxCap,
         NEW t \in Seq(Bytes), Len(t) <= TxCap,
         Turn(s, r, t), peer' = peer, sent' \in 0 .. MaxUp,
         downgot' \in Seq(Bytes),
         UpOK(up[conn], r, sent'), DownOK(downgot', t, down[conn])
  PROVE  AllInv'
<1>1. /\ conn \in Conns /\ conn' = conn /\ sock' = s
      /\ UNCHANGED <<bridge, pipes, made, upgot>>
  BY DEF AllInv, RestTypes, Turn, bridges
<1>2. /\ UpTypes /\ DownTypes /\ RestTypes /\ conn = peer
      /\ \A k \in Conns : k > conn => Untouched(k)
  BY DEF AllInv, UpInv, DownInv, EntryFollowsSocket, Untouched
<1>3. ASSUME NEW k \in Conns, k > conn PROVE k # conn
  BY <1>1, <1>3 DEF Conns
<1>4. CASE is_active(s)
  <2>1. /\ MoveUp(r) /\ MoveDown(s, t) /\ hole' = hole \cup Holes(s, r, t)
        /\ act' = act
    BY <1>4 DEF Turn
  <2>2. /\ hole \subseteq hole' /\ hole' \subseteq {"up", "down"}
        /\ r # <<>> /\ ~Fits(conn) => "up" \in hole'
        /\ (/\ can_send(s, t) /\ down[conn] # <<>>
            /\ Len(down[conn][1]) > TxCap - Len(t)) => "down" \in hole'
    <3>1. Holes(s, r, t) \subseteq {"up", "down"}
      BY DEF Holes
    <3>2. r # <<>> /\ ~Fits(conn) => "up" \in Holes(s, r, t)
      BY DEF Holes
    <3>3. (/\ can_send(s, t) /\ down[conn] # <<>>
           /\ Len(down[conn][1]) > TxCap - Len(t)) => "down" \in Holes(s, r, t)
      BY DEF Holes
    <3> QED
      BY <2>1, <3>1, <3>2, <3>3, <1>2 DEF RestTypes
  <2>3. UpTypes' /\ UpOK(up[conn], rx, sent)' /\ \A k \in Conns : k # conn => up'[k] = up[k]
    BY <1>1, <1>2, <2>1, <2>2, MoveUpStep
  <2>4. DownTypes' /\ DownOK(downgot, tx, down[conn])'
        /\ \A k \in Conns : k # conn => down'[k] = down[k]
    BY <1>1, <1>2, <2>1, <2>2, MoveDownStep
  <2>5. RestTypes'
    BY <1>1, <1>2, <2>1, <2>2 DEF RestTypes
  <2>6. \A k \in Conns : k > conn => Untouched(k)'
    BY <1>1, <1>2, <1>3, <2>3, <2>4 DEF Untouched
  <2>7. EntryFollowsSocket'
    BY <1>1, <1>2, <1>4, <2>1, <2>6 DEF EntryFollowsSocket, Untouched
  <2> QED
    BY <2>3, <2>4, <2>5, <2>7 DEF AllInv, UpInv, DownInv
<1>5. CASE ~is_active(s)
  <2>1. /\ act' = FALSE /\ down' = [down EXCEPT ![conn] = <<>>]
        /\ rx' = <<>> /\ tx' = <<>> /\ up' = up /\ hole' = hole
    BY <1>5 DEF Turn, DropEntry
  <2>2. \A S : <<>> \in Seq(S)
    BY EmptyBytes
  <2>3. /\ down' \in [Conns -> Seq(Seq(Bytes))]
        /\ \A k \in Conns : down'[k] = IF k = conn THEN <<>> ELSE down[k]
    BY <2>1, <2>2, <1>1, <1>2 DEF DownTypes
  <2>4. Len(<<>>) = 0 /\ 0 <= RxCap /\ 0 <= TxCap /\ 0 <= ChanCap
    BY EmptyBytes, Bounds
  <2>5. UpTypes'
    BY <1>1, <1>2, <2>1, <2>2, <2>4 DEF UpTypes
  <2>6. \A k \in Conns : Len(down'[k]) <= ChanCap
    BY <1>2, <2>3, <2>4 DEF DownTypes
  <2>7. DownTypes'
    BY <1>1, <1>2, <2>1, <2>2, <2>3, <2>4, <2>6 DEF DownTypes
  <2>8. RestTypes'
    BY <1>1, <1>2, <2>1 DEF RestTypes
  <2>9. \A k \in Conns : k > conn => Untouched(k)'
    BY <1>1, <1>2, <1>3, <2>1, <2>3 DEF Untouched
  <2>10. EntryFollowsSocket'
    BY <1>1, <1>2, <1>5, <2>1, <2>9 DEF EntryFollowsSocket, Untouched
  <2> QED
    BY <2>1, <2>5, <2>7, <2>8, <2>10 DEF AllInv, UpInv, DownInv
<1> QED
  BY <1>4, <1>5

(* What every turn starts from: the entry of an active socket, and both    *)
(* streams in pieces.                                                      *)
LEMMA ActiveParts ==
  ASSUME AllInv, is_active(sock)
  PROVE  /\ act /\ conn \in Conns
         /\ UpTypes /\ DownTypes /\ RestTypes
         /\ UpOK(up[conn], rx, sent) /\ DownOK(downgot, tx, down[conn])
         /\ sock \in {"syn", "open", "closewait"}
         /\ Pieces(<<>>, upgot[conn], up[conn], rx, sent)
         /\ Pieces(downgot, tx, down[conn], <<>>, made[conn])
<1>1. /\ act /\ conn \in Conns /\ UpTypes /\ DownTypes /\ RestTypes
      /\ UpOK(up[conn], rx, sent) /\ DownOK(downgot, tx, down[conn])
  BY DEF AllInv, UpInv, DownInv, RestTypes, EntryFollowsSocket
<1>2. /\ rx \in Seq(Bytes) /\ up[conn] \in Seq(Seq(Bytes)) /\ upgot[conn] \in Seq(Bytes)
      /\ sent \in Nat
  BY <1>1, Bounds DEF UpTypes
<1>3. /\ tx \in Seq(Bytes) /\ down[conn] \in Seq(Seq(Bytes)) /\ downgot \in Seq(Bytes)
      /\ made[conn] \in Nat
  BY <1>1, Bounds DEF DownTypes
<1>4. Pieces(<<>>, upgot[conn], up[conn], rx, sent)
  BY <1>2, ByteSeqs, NoElements DEF Pieces
<1>5. Pieces(downgot, tx, down[conn], <<>>, made[conn])
  BY <1>3, ByteSeqs, NoElements DEF Pieces
<1> QED
  BY <1>1, <1>4, <1>5 DEF is_active

(* The turns in which the socket changes its state, or only sends.         *)
LEMMA EventStep ==
  ASSUME AllInv, Established \/ Emit \/ Fin \/ Rst
  PROVE  AllInv'
<1>1. PICK s \in {"listen", "syn", "open", "closewait", "closed"} :
        is_active(sock) /\ Turn(s, rx, tx) /\ UNCHANGED remote
  BY DEF Established, Emit, Fin, Rst, is_active
<1>2. /\ act /\ rx \in Seq(Bytes) /\ Len(rx) <= RxCap /\ tx \in Seq(Bytes)
      /\ Len(tx) <= TxCap /\ sent \in 0 .. MaxUp /\ downgot \in Seq(Bytes)
      /\ UpOK(up[conn], rx, sent) /\ DownOK(downgot, tx, down[conn])
  BY <1>1, ActiveParts DEF UpTypes, DownTypes
<1>3. peer' = peer /\ sent' = sent /\ downgot' = downgot
  BY <1>1 DEF remote
<1> QED
  BY <1>1, <1>2, <1>3, TurnStep

(* Bytes arrive from the peer.                                             *)
LEMMA DataStep ==
  ASSUME AllInv, NEW n \in 1 .. RxCap, Data(n)
  PROVE  AllInv'
<1> DEFINE new == [i \in 1 .. n |-> sent + i]
           r   == rx \o new
<1>1. /\ sock = "open" /\ sent + n <= MaxUp /\ Len(rx) + n <= RxCap
      /\ sent' = sent + n /\ Turn("open", r, tx) /\ peer' = peer /\ downgot' = downgot
  BY DEF Data
<1>2. is_active(sock)
  BY <1>1 DEF is_active
<1>3. n \in Nat /\ RxCap \in Nat /\ MaxUp \in Nat /\ MaxDown \in Nat
  BY Bounds
<1>4. /\ act /\ conn \in Conns /\ UpTypes /\ DownTypes
      /\ UpOK(up[conn], rx, sent) /\ DownOK(downgot, tx, down[conn])
      /\ Pieces(<<>>, upgot[conn], up[conn], rx, sent)
  BY <1>2, ActiveParts
<1>5. rx \in Seq(Bytes) /\ sent \in Nat
  BY <1>3, <1>4 DEF UpTypes
<1>6. new \in Seq(Bytes) /\ Len(new) = n
  <2>1. \A i \in 1 .. n : sent + i \in Bytes
    BY <1>1, <1>3, <1>5 DEF Bytes
  <2> QED
    BY <2>1, <1>3
<1> HIDE DEF new
<1>7. r \in Seq(Bytes) /\ Len(r) = Len(rx) + n
  BY <1>5, <1>6
<1>8. Len(r) <= RxCap
  BY <1>1, <1>7
<1>9. sent' \in 0 .. MaxUp
  BY <1>1, <1>3, <1>5
<1>10. /\ Ordered(<<>>, upgot[conn], up[conn], r, sent + n)
       /\ Complete(<<>>, upgot[conn], up[conn], rx, sent)
            => Complete(<<>>, upgot[conn], up[conn], r, sent + n)
  BY <1>3, <1>4, ArriveOrdered DEF UpOK, new
<1> HIDE DEF r
<1>11. UpOK(up[conn], r, sent')
  BY <1>1, <1>4, <1>10 DEF UpOK
<1>12. DownOK(downgot', tx, down[conn])
  BY <1>1, <1>4
<1>13. tx \in Seq(Bytes) /\ Len(tx) <= TxCap /\ downgot' \in Seq(Bytes)
  BY <1>1, <1>4 DEF DownTypes
<1> QED
  BY <1>1, <1>4, <1>7, <1>8, <1>9, <1>11, <1>12, <1>13, TurnStep

(* The peer acknowledges bytes.                                            *)
LEMMA AckStep ==
  ASSUME AllInv, NEW n \in 0 .. TxCap, Ack(n)
  PROVE  AllInv'
<1> DEFINE t == Dropped(tx, n)
           g == downgot \o Taken(tx, n)
<1>1. /\ sock \in {"open", "closewait"} /\ downgot' = g /\ Turn(sock, rx, t)
      /\ peer' = peer /\ sent' = sent
  BY DEF Ack
<1>2. is_active(sock)
  BY <1>1 DEF is_active
<1>3. n \in Nat /\ TxCap \in Nat
  BY Bounds
<1>4. /\ act /\ conn \in Conns /\ UpTypes /\ DownTypes
      /\ UpOK(up[conn], rx, sent) /\ DownOK(downgot, tx, down[conn])
      /\ Pieces(downgot, tx, down[conn], <<>>, made[conn])
  BY <1>2, ActiveParts
<1>5. tx \in Seq(Bytes) /\ Len(tx) <= TxCap /\ downgot \in Seq(Bytes)
  BY <1>4 DEF DownTypes
<1>6. /\ t \in Seq(Bytes) /\ Taken(tx, n) \in Seq(Bytes)
      /\ Len(t) = Len(tx) - Shorter(n, Len(tx))
      /\ Shorter(n, Len(tx)) \in 0 .. Len(tx) /\ Len(tx) \in Nat
  BY <1>3, <1>5, Cut
<1>7. Len(t) <= TxCap
  BY <1>3, <1>5, <1>6
<1>8. g \in Seq(Bytes)
  BY <1>5, <1>6, JoinedElements
<1>9. /\ Ordered(g, t, down[conn], <<>>, made[conn])
      /\ Complete(downgot, tx, down[conn], <<>>, made[conn])
           => Complete(g, t, down[conn], <<>>, made[conn])
  BY <1>3, <1>4, AckOrdered DEF DownOK
<1> HIDE DEF t, g
<1>10. DownOK(downgot', t, down[conn])
  BY <1>1, <1>4, <1>9 DEF DownOK
<1>11. rx \in Seq(Bytes) /\ Len(rx) <= RxCap /\ sent' \in 0 .. MaxUp /\ UpOK(up[conn], rx, sent')
  BY <1>1, <1>4 DEF UpTypes
<1> QED
  BY <1>1, <1>4, <1>6, <1>7, <1>8, <1>10, <1>11, TurnStep

(* A new connection: nothing was done for it yet, so its streams begin     *)
(* with nothing.                                                           *)
LEMMA SynStep ==
  ASSUME AllInv, Syn
  PROVE  AllInv'
<1>1. /\ UpTypes /\ DownTypes /\ RestTypes /\ conn = peer
      /\ ~act /\ rx = <<>> /\ tx = <<>>
      /\ \A k \in Conns : k > conn => Untouched(k)
  BY DEF AllInv, UpInv, DownInv, EntryFollowsSocket, Untouched, Syn, is_active
<1>2. /\ sock' = "syn" /\ peer < MaxConns /\ peer' = peer + 1 /\ sent' = 0
      /\ downgot' = <<>> /\ hole' = {}
      /\ UNCHANGED <<rx, tx, up, down, pipes, made, upgot>>
  BY DEF Syn
<1>3. act' = TRUE /\ conn' = conn + 1 /\ bridge' = [bridge EXCEPT ![conn + 1] = "queued"]
  BY <1>1 DEF Syn
<1>4. /\ conn + 1 \in Conns /\ conn + 1 > conn /\ conn + 1 \in 0 .. MaxConns
      /\ conn' = peer' /\ 0 \in 0 .. MaxUp
      /\ \A k \in Conns : k > conn + 1 => k > conn /\ k # conn + 1
  BY <1>1, <1>2, <1>3, Bounds DEF Conns, RestTypes
<1>5. Untouched(conn + 1)
  BY <1>1, <1>4
<1>6. <<>> \in Seq(Bytes)
  BY EmptyBytes
<1>7. UpTypes'
  BY <1>1, <1>2, <1>4 DEF UpTypes
<1>8. DownTypes'
  BY <1>1, <1>2, <1>6 DEF DownTypes
<1>9. RestTypes'
  <2>1. /\ bridge' \in [Conns -> {"none", "queued", "started"}]
        /\ conn' \in 0 .. MaxConns /\ peer' \in 0 .. MaxConns /\ conn' \in Conns
    BY <1>1, <1>3, <1>4 DEF RestTypes
  <2> QED
    BY <2>1, <1>1, <1>2, <1>3 DEF RestTypes
<1>10. UpOK(up[conn], rx, sent)'
  <2>1. upgot'[conn'] = <<>> /\ up'[conn'] = <<>> /\ rx' = <<>> /\ sent' = 0
    BY <1>1, <1>2, <1>3, <1>5 DEF Untouched
  <2> QED
    BY <2>1, BeginOrdered DEF UpOK
<1>11. DownOK(downgot, tx, down[conn])'
  <2>1. made'[conn'] = 0 /\ down'[conn'] = <<>> /\ tx' = <<>> /\ downgot' = <<>>
    BY <1>1, <1>2, <1>3, <1>5 DEF Untouched
  <2> QED
    BY <2>1, BeginOrdered DEF DownOK
<1>12. ASSUME NEW k \in Conns, k > conn' PROVE Untouched(k)'
  <2>1. k > conn /\ k # conn + 1
    BY <1>3, <1>4, <1>12
  <2>2. bridge'[k] = bridge[k]
    BY <2>1, <1>1, <1>3 DEF RestTypes
  <2> QED
    BY <2>1, <2>2, <1>1, <1>2 DEF Untouched
<1>13. EntryFollowsSocket'
  BY <1>2, <1>3, <1>4, <1>12 DEF EntryFollowsSocket, Untouched, is_active
<1> QED
  BY <1>7, <1>8, <1>9, <1>10, <1>11, <1>13 DEF AllInv, UpInv, DownInv

(* A step of a bridge is one of a connection that was there, and changes   *)
(* nothing of the connections to come.                                     *)
LEMMA BridgeFrame ==
  ASSUME AllInv, NEW k \in Conns, bridge[k] # "none" \/ pipes[k] # {},
         UNCHANGED <<socket, stack, remote>>,
         \A j \in Conns : j # k =>
           /\ up'[j] = up[j] /\ down'[j] = down[j] /\ bridge'[j] = bridge[j]
           /\ pipes'[j] = pipes[j] /\ made'[j] = made[j] /\ upgot'[j] = upgot[j]
  PROVE  EntryFollowsSocket'
<1>1. /\ conn = peer /\ (act <=> is_active(sock)) /\ (~act => rx = <<>> /\ tx = <<>>)
      /\ \A j \in Conns : j > conn => Untouched(j)
  BY DEF AllInv, EntryFollowsSocket, Untouched
<1>2. sock' = sock /\ rx' = rx /\ tx' = tx /\ act' = act /\ conn' = conn /\ peer' = peer
  BY DEF socket, stack, remote
<1>3. ASSUME NEW j \in Conns, j > conn' PROVE Untouched(j)'
  <2>1. Untouched(j)
    BY <1>1, <1>2, <1>3
  <2>2. j # k
    BY <2>1 DEF Untouched
  <2> QED
    BY <2>1, <2>2 DEF Untouched
<1> QED
  BY <1>1, <1>2, <1>3 DEF EntryFollowsSocket, Untouched, is_active

(* What every step of a bridge starts from.                                *)
LEMMA BridgeParts ==
  ASSUME AllInv
  PROVE  /\ UpTypes /\ DownTypes /\ RestTypes
         /\ act => /\ conn \in Conns
                   /\ UpOK(up[conn], rx, sent) /\ DownOK(downgot, tx, down[conn])
                   /\ Pieces(<<>>, upgot[conn], up[conn], rx, sent)
                   /\ Pieces(downgot, tx, down[conn], <<>>, made[conn])
<1>1. act => is_active(sock)
  BY DEF AllInv, EntryFollowsSocket
<1> QED
  BY <1>1, ActiveParts DEF AllInv, UpInv, DownInv

(* The bytes waiting in the channel to the local proxy are dropped: a hole *)
(* if the connection is still there.                                       *)
LEMMA DropUp ==
  ASSUME AllInv, NEW k \in Conns, up' = [up EXCEPT ![k] = <<>>],
         hole' = IF k = conn /\ act THEN hole \cup {"up"} ELSE hole,
         UNCHANGED <<rx, sent, upgot, act, conn>>
  PROVE  UpInv' /\ hole' \subseteq {"up", "down"} /\ ("down" \in hole' <=> "down" \in hole)
         /\ \A j \in Conns : j # k => up'[j] = up[j]
<1>1. UpTypes /\ RestTypes /\ (act => conn \in Conns /\ UpOK(up[conn], rx, sent))
  BY BridgeParts
<1>2. /\ up' \in [Conns -> Seq(Seq(Bytes))]
      /\ \A j \in Conns : up'[j] = IF j = k THEN <<>> ELSE up[j]
  BY <1>1, EmptyBytes DEF UpTypes
<1>3. Len(<<>>) = 0 /\ 0 <= ChanCap
  BY Bounds, EmptyBytes
<1>4. \A j \in Conns : Len(up'[j]) <= ChanCap
  BY <1>1, <1>2, <1>3 DEF UpTypes
<1>5. UpTypes'
  BY <1>1, <1>2, <1>4 DEF UpTypes
<1>6. ASSUME act PROVE UpOK(up[conn], rx, sent)'
  <2>1. CASE k = conn
    <3>1. up'[conn'] = <<>> /\ "up" \in hole'
      BY <1>2, <2>1, <1>6
    <3> QED
      BY <3>1, <1>1, <1>6, ClearOrdered DEF UpOK
  <2>2. CASE k # conn
    <3>1. up'[conn'] = up[conn] /\ hole' = hole
      BY <1>1, <1>2, <1>6, <2>2
    <3> QED
      BY <3>1, <1>1, <1>6 DEF UpOK
  <2> QED
    BY <2>1, <2>2
<1>7. hole' \subseteq {"up", "down"} /\ ("down" \in hole' <=> "down" \in hole)
  BY <1>1 DEF RestTypes
<1> QED
  BY <1>2, <1>5, <1>6, <1>7 DEF UpInv

(* A part of the invariant whose variables a step leaves alone.            *)
LEMMA DownStays ==
  ASSUME AllInv, UNCHANGED <<tx, down, made, downgot, act, conn>>,
         "down" \in hole' <=> "down" \in hole
  PROVE  DownInv'
BY BridgeParts DEF DownInv, DownTypes, DownOK

(* Likewise.                                                               *)
LEMMA UpStays ==
  ASSUME AllInv, UNCHANGED <<rx, up, sent, upgot, act, conn>>,
         "up" \in hole' <=> "up" \in hole
  PROVE  UpInv'
BY BridgeParts DEF UpInv, UpTypes, UpOK

(* A bridge starts, or is given up because the local proxy refuses.        *)
LEMMA BridgeStartStep ==
  ASSUME AllInv, NEW k \in Conns, BridgeStart(k)
  PROVE  AllInv'
<1>1. /\ bridge[k] = "queued" /\ bridge' = [bridge EXCEPT ![k] = "started"]
      /\ UNCHANGED <<socket, stack, down, made, upgot, remote>>
      /\ UNCHANGED <<sock, rx, tx, act, conn, peer, sent, downgot>>
  BY DEF BridgeStart, socket, stack, remote
<1>2. UpTypes /\ DownTypes /\ RestTypes
  BY BridgeParts
<1>3. /\ bridge' \in [Conns -> {"none", "queued", "started"}]
      /\ \A j \in Conns : j # k => bridge'[j] = bridge[j]
  BY <1>1, <1>2 DEF RestTypes
<1>4. CASE pipes' = [pipes EXCEPT ![k] = {"up", "down"}] /\ UNCHANGED <<up, hole>>
  <2>1. /\ pipes' \in [Conns -> SUBSET {"up", "down"}]
        /\ \A j \in Conns : j # k => pipes'[j] = pipes[j]
    BY <1>2, <1>4 DEF RestTypes
  <2>2. RestTypes'
    BY <1>1, <1>2, <1>3, <1>4, <2>1 DEF RestTypes
  <2>3. EntryFollowsSocket'
    BY <1>1, <1>3, <1>4, <2>1, BridgeFrame
  <2>4. UpInv' /\ DownInv'
    BY <1>1, <1>4, UpStays, DownStays
  <2> QED
    BY <2>2, <2>3, <2>4 DEF AllInv
<1>5. CASE /\ up' = [up EXCEPT ![k] = <<>>]
           /\ hole' = IF k = conn /\ act THEN hole \cup {"up"} ELSE hole
           /\ pipes' = pipes
  <2>1. UpInv' /\ hole' \subseteq {"up", "down"} /\ ("down" \in hole' <=> "down" \in hole)
        /\ \A j \in Conns : j # k => up'[j] = up[j]
    BY <1>1, <1>5, DropUp
  <2>2. RestTypes'
    BY <1>1, <1>2, <1>3, <1>5, <2>1 DEF RestTypes
  <2>3. EntryFollowsSocket'
    BY <1>1, <1>3, <1>5, <2>1, BridgeFrame
  <2>4. DownInv'
    BY <1>1, <2>1, DownStays
  <2> QED
    BY <2>1, <2>2, <2>3, <2>4 DEF AllInv
<1> QED
  BY <1>4, <1>5 DEF BridgeStart

(* A message is written to the local proxy.                                *)
LEMMA UpPipeStep ==
  ASSUME AllInv, NEW k \in Conns, UpPipe(k)
  PROVE  AllInv'
<1> DEFINE q == up[k]
           g == upgot[k]
           h == Head(q)
<1>1. /\ "up" \in pipes[k] /\ q # <<>>
      /\ upgot' = [upgot EXCEPT ![k] = g \o h] /\ up' = [up EXCEPT ![k] = Tail(q)]
      /\ UNCHANGED <<socket, stack, down, bridge, pipes, made, remote, hole>>
      /\ UNCHANGED <<sock, rx, tx, act, conn, peer, sent, downgot>>
  BY DEF UpPipe, socket, stack, remote
<1>2. UpTypes /\ DownTypes /\ RestTypes
  BY BridgeParts
<1>3. q \in Seq(Seq(Bytes)) /\ g \in Seq(Bytes) /\ Len(q) <= ChanCap
  BY <1>2 DEF UpTypes
<1>4. /\ Tail(q) \in Seq(Seq(Bytes)) /\ h \in Seq(Bytes)
      /\ Len(q) \in Nat \ {0} /\ Len(Tail(q)) = Len(q) - 1
  BY <1>1, <1>3, ChannelTail
<1>5. Taken(h, Len(h)) = h /\ Len(h) \in Nat
  <2>1. Len(h) \in Nat /\ Shorter(Len(h), Len(h)) = Len(h)
    BY <1>4 DEF Shorter
  <2>2. SubSeq(h, 1, Len(h)) = h
    BY <1>4
  <2> QED
    BY <2>1, <2>2 DEF Taken
<1>6. g \o h \in Seq(Bytes)
  BY <1>3, <1>4, JoinedElements
<1>7. Len(Tail(q)) <= ChanCap
  BY <1>3, <1>4, Bounds
<1>8. ASSUME act, k = conn
      PROVE  /\ Ordered(<<>>, g \o h, Tail(q), rx, sent)
             /\ "up" \notin hole => Complete(<<>>, g \o h, Tail(q), rx, sent)
  <2>1. Pieces(<<>>, g, q, rx, sent) /\ UpOK(q, rx, sent)
    BY <1>8, BridgeParts
  <2>2. Ordered(<<>>, g, q, rx, sent) /\ ("up" \notin hole => Complete(<<>>, g, q, rx, sent))
    BY <2>1, <1>8 DEF UpOK
  <2>3. /\ Ordered(<<>>, g \o Taken(h, Len(h)), Tail(q), rx, sent)
        /\ Complete(<<>>, g, q, rx, sent) /\ Len(h) <= Len(h)
             => Complete(<<>>, g \o Taken(h, Len(h)), Tail(q), rx, sent)
    BY <2>1, <2>2, <1>1, <1>5, DeliverOrdered
  <2>4. Len(h) <= Len(h)
    BY <1>5
  <2> QED
    BY <2>2, <2>3, <2>4, <1>5
<1> HIDE DEF q, g, h
<1>9. /\ up' \in [Conns -> Seq(Seq(Bytes))] /\ upgot' \in [Conns -> Seq(Bytes)]
      /\ \A j \in Conns : /\ up'[j] = IF j = k THEN Tail(q) ELSE up[j]
                          /\ upgot'[j] = IF j = k THEN g \o h ELSE upgot[j]
  BY <1>1, <1>2, <1>4, <1>6 DEF UpTypes
<1>10. \A j \in Conns : Len(up'[j]) <= ChanCap
  BY <1>2, <1>7, <1>9 DEF UpTypes
<1>11. UpTypes'
  BY <1>1, <1>2, <1>9, <1>10 DEF UpTypes
<1>12. ASSUME act PROVE UpOK(up[conn], rx, sent)'
  <2>1. conn \in Conns /\ UpOK(up[conn], rx, sent)
    BY <1>12, BridgeParts
  <2>2. CASE k = conn
    BY <1>1, <1>8, <1>9, <1>12, <2>2 DEF UpOK
  <2>3. CASE k # conn
    <3>1. up'[conn'] = up[conn] /\ upgot'[conn'] = upgot[conn]
      BY <1>1, <1>9, <2>1, <2>3
    <3> QED
      BY <1>1, <2>1, <3>1 DEF UpOK
  <2> QED
    BY <2>2, <2>3
<1>13. UpInv'
  BY <1>1, <1>11, <1>12 DEF UpInv
<1>14. RestTypes'
  BY <1>1, <1>2 DEF RestTypes
<1>15. EntryFollowsSocket'
  BY <1>1, <1>9, BridgeFrame
<1>16. DownInv'
  BY <1>1, DownStays
<1> QED
  BY <1>13, <1>14, <1>15, <1>16 DEF AllInv

(* A pipe of a bridge ends.                                                *)
LEMMA PipeEndStep ==
  ASSUME AllInv, NEW k \in Conns, UpPipeEnd(k) \/ DownPipeEnd(k)
  PROVE  AllInv'
<1>1. UpTypes /\ DownTypes /\ RestTypes
  BY BridgeParts
<1>2. /\ pipes[k] # {}
      /\ pipes' \in [Conns -> SUBSET {"up", "down"}]
      /\ \A j \in Conns : j # k => pipes'[j] = pipes[j]
  <2>1. PICK d \in {"up", "down"} : d \in pipes[k] /\ pipes' = [pipes EXCEPT ![k] = @ \ {d}]
    BY DEF UpPipeEnd, DownPipeEnd, Hangup
  <2> QED
    BY <1>1, <2>1 DEF RestTypes
<1>3. UNCHANGED <<socket, stack, down, bridge, made, upgot, remote>>
      /\ UNCHANGED <<sock, rx, tx, act, conn, peer, sent, downgot>>
  BY DEF UpPipeEnd, DownPipeEnd, socket, stack, remote
<1>4. CASE UpPipeEnd(k)
  <2>1. UpInv' /\ hole' \subseteq {"up", "down"} /\ ("down" \in hole' <=> "down" \in hole)
        /\ \A j \in Conns : j # k => up'[j] = up[j]
    BY <1>3, <1>4, DropUp DEF UpPipeEnd
  <2>2. RestTypes'
    BY <1>1, <1>2, <1>3, <2>1 DEF RestTypes
  <2>3. EntryFollowsSocket'
    BY <1>2, <1>3, <2>1, BridgeFrame
  <2>4. DownInv'
    BY <1>3, <2>1, DownStays
  <2> QED
    BY <2>1, <2>2, <2>3, <2>4 DEF AllInv
<1>5. CASE DownPipeEnd(k)
  <2>1. up' = up /\ hole' = hole
    BY <1>5 DEF DownPipeEnd
  <2>2. RestTypes'
    BY <1>1, <1>2, <1>3, <2>1 DEF RestTypes
  <2>3. EntryFollowsSocket'
    BY <1>2, <1>3, <2>1, BridgeFrame
  <2>4. UpInv' /\ DownInv'
    BY <1>3, <2>1, UpStays, DownStays
  <2> QED
    BY <2>2, <2>3, <2>4 DEF AllInv
<1> QED
  BY <1>4, <1>5

(* Bytes are read from the local proxy.                                    *)
LEMMA DownPipeStep ==
  ASSUME AllInv, NEW k \in Conns, NEW n \in 1 .. ReadMax, DownPipe(k, n)
  PROVE  AllInv'
<1> DEFINE q   == down[k]
           new == [i \in 1 .. n |-> made[k] + i]
           top == made[k]
<1>1. /\ "down" \in pipes[k] /\ k = conn /\ act
      /\ top + n <= MaxDown /\ Len(q) < ChanCap
      /\ made' = [made EXCEPT ![k] = top + n]
      /\ down' = [down EXCEPT ![k] = Append(q, new)]
      /\ UNCHANGED <<socket, stack, up, bridge, pipes, upgot, remote, hole>>
      /\ UNCHANGED <<sock, rx, tx, act, conn, peer, sent, downgot>>
  BY DEF DownPipe, socket, stack, remote
<1>2. /\ UpTypes /\ DownTypes /\ RestTypes
      /\ Pieces(downgot, tx, q, <<>>, top) /\ DownOK(downgot, tx, q)
  BY <1>1, BridgeParts
<1>3. n \in Nat /\ MaxUp \in Nat /\ MaxDown \in Nat /\ ChanCap \in Nat
  BY Bounds
<1>4. q \in Seq(Seq(Bytes)) /\ top \in Nat
  BY <1>2, <1>3 DEF DownTypes
<1>5. new \in Seq(Bytes)
  <2>1. \A i \in 1 .. n : made[k] + i \in Bytes
    BY <1>1, <1>3, <1>4 DEF Bytes
  <2> QED
    BY <2>1, <1>3
<1>6. /\ Ordered(downgot, tx, Append(q, new), <<>>, top + n)
      /\ Complete(downgot, tx, q, <<>>, top)
           => Complete(downgot, tx, Append(q, new), <<>>, top + n)
      /\ ("down" \notin hole => Complete(downgot, tx, q, <<>>, top))
  <2>1. Ordered(downgot, tx, q, <<>>, top) /\ ("down" \notin hole => Complete(downgot, tx, q, <<>>, top))
    BY <1>1, <1>2 DEF DownOK
  <2> QED
    BY <2>1, <1>2, <1>3, SendOrdered
<1> HIDE DEF new
<1>7. /\ Append(q, new) \in Seq(Seq(Bytes))
      /\ Len(q) \in Nat /\ Len(Append(q, new)) = Len(q) + 1
  BY <1>4, <1>5, ChannelAppend
<1>8. Len(Append(q, new)) <= ChanCap /\ top + n \in 0 .. MaxDown
  BY <1>1, <1>3, <1>4, <1>7
<1> HIDE DEF q, top
<1>9. /\ down' \in [Conns -> Seq(Seq(Bytes))] /\ made' \in [Conns -> 0 .. MaxDown]
      /\ \A j \in Conns : /\ down'[j] = IF j = k THEN Append(q, new) ELSE down[j]
                          /\ made'[j] = IF j = k THEN top + n ELSE made[j]
  BY <1>1, <1>2, <1>7, <1>8 DEF DownTypes
<1>10. \A j \in Conns : Len(down'[j]) <= ChanCap
  BY <1>2, <1>8, <1>9 DEF DownTypes
<1>11. DownTypes'
  BY <1>1, <1>2, <1>9, <1>10 DEF DownTypes
<1>12. DownOK(downgot, tx, down[conn])'
  <2>1. down'[conn'] = Append(q, new) /\ made'[conn'] = top + n
    BY <1>1, <1>9
  <2> QED
    BY <2>1, <1>1, <1>6 DEF DownOK
<1>13. DownInv'
  BY <1>1, <1>11, <1>12 DEF DownInv
<1>14. RestTypes'
  BY <1>1, <1>2 DEF RestTypes
<1>15. EntryFollowsSocket'
  BY <1>1, <1>9, BridgeFrame
<1>16. UpInv'
  BY <1>1, UpStays
<1> QED
  BY <1>13, <1>14, <1>15, <1>16 DEF AllInv

(* Nothing has happened yet.                                               *)
LEMMA StackInit == Init => AllInv
<1> SUFFICES ASSUME Init PROVE AllInv
  OBVIOUS
<1>1. \A S : <<>> \in Seq(S) /\ Len(<<>>) = 0
  BY EmptyBytes
<1>2. UpTypes
  BY <1>1, Bounds DEF Init, UpTypes
<1>3. DownTypes
  BY <1>1, Bounds DEF Init, DownTypes
<1>4. RestTypes
  <2>1. 0 \in 0 .. MaxConns
    BY Bounds
  <2>2. conn \in 0 .. MaxConns /\ peer \in 0 .. MaxConns
    BY <2>1 DEF Init
  <2>3. /\ bridge \in [Conns -> {"none", "queued", "started"}]
        /\ pipes \in [Conns -> SUBSET {"up", "down"}]
        /\ sock \in {"listen", "syn", "open", "closewait", "closed"}
    BY DEF Init
  <2>4. act \in BOOLEAN /\ ~act /\ hole \subseteq {"up", "down"}
    BY DEF Init
  <2> QED
    BY <2>2, <2>3, <2>4 DEF RestTypes
<1>5. EntryFollowsSocket
  BY DEF Init, EntryFollowsSocket, is_active
<1> QED
  BY <1>2, <1>3, <1>4, <1>5 DEF Init, AllInv, UpInv, DownInv

(* Every step of the stack, the peer and the bridges keeps the invariant.  *)
LEMMA StackStep ==
  ASSUME AllInv, [Next]_vars
  PROVE  AllInv'
<1>1. CASE UNCHANGED vars
  BY <1>1 DEF vars, socket, stack, bridges, remote, AllInv, UpInv, DownInv,
     UpTypes, DownTypes, RestTypes, EntryFollowsSocket, UpOK, DownOK, is_active
<1>2. CASE Syn
  BY <1>2, SynStep
<1>3. CASE Established \/ Emit \/ Fin \/ Rst
  BY <1>3, EventStep
<1>4. CASE \E n \in 1 .. RxCap : Data(n)
  BY <1>4, DataStep
<1>5. CASE \E n \in 0 .. TxCap : Ack(n)
  BY <1>5, AckStep
<1>6. ASSUME NEW k \in Conns,
             \/ BridgeStart(k) \/ UpPipe(k) \/ UpPipeEnd(k) \/ DownPipeEnd(k)
             \/ \E n \in 1 .. ReadMax : DownPipe(k, n)
      PROVE  AllInv'
  BY <1>6, BridgeStartStep, UpPipeStep, PipeEndStep, DownPipeStep
<1> QED
  BY <1>1, <1>2, <1>3, <1>4, <1>5, <1>6 DEF Next

-----------------------------------------------------------------------------
(* The streams with their channels flattened                               *)

(* Every nonempty set of naturals has a least element.                     *)
LEMMA Least ==
  ASSUME NEW T \in SUBSET Nat, T # {}
  PROVE  \E m \in T : \A k \in T : m <= k
<1> DEFINE R == {ss \in Nat \X Nat : ss[1] < ss[2]}
<1>1. IsWellFoundedOn(R, Nat)
  BY NatLessThanWellFounded, Zenon DEF OpToRel
<1>2. \A x, y \in Nat : (<<y, x>> \in R) <=> y < x
  OBVIOUS
<1> HIDE DEF R
<1>3. T \subseteq Nat
  OBVIOUS
<1>4. \E x \in T : \A y \in T : ~(<<y, x>> \in R)
  BY <1>1, <1>3, WFMin, Zenon
<1>5. PICK x \in T : \A y \in T : ~(<<y, x>> \in R)
  BY <1>4
<1>6. ASSUME NEW y \in T PROVE x <= y
  <2>1. x \in Nat /\ y \in Nat /\ ~(y < x)
    BY <1>2, <1>3, <1>5
  <2> QED
    BY <2>1
<1> QED
  BY <1>5, <1>6

(* Induction up to N, for a set G of numbers: what fails somewhere fails a *)
(* first time.                                                             *)
LEMMA UpTo ==
  ASSUME NEW N \in Nat, NEW G, 0 \in G,
         \A n \in 0 .. N - 1 : n \in G => n + 1 \in G
  PROVE  \A n \in 0 .. N : n \in G
<1> DEFINE T == {n \in 0 .. N : n \notin G}
<1>1. SUFFICES ASSUME T # {} PROVE FALSE
  OBVIOUS
<1>2. T \in SUBSET Nat
  OBVIOUS
<1>3. PICK m \in T : \A k \in T : m <= k
  BY <1>1, <1>2, Least
<1>4. m \in 0 .. N /\ m \notin G /\ m # 0
  OBVIOUS
<1>5. m - 1 \in 0 .. N - 1 /\ (m - 1) + 1 = m /\ m - 1 \in 0 .. N /\ ~(m <= m - 1)
  BY <1>4
<1>6. m - 1 \in G
  BY <1>3, <1>5
<1> QED
  BY <1>4, <1>5, <1>6

(* The recursion of FlattenSeq over a channel: there is a function that    *)
(* satisfies it on every prefix.                                           *)
LEMMA FlattenExists ==
  ASSUME NEW q \in Seq(Seq(Int))
  PROVE  \E f : f = [i \in 1 .. Len(q) |->
                        IF i = 1 THEN q[i] ELSE f[i - 1] \o q[i]]
<1> DEFINE Good(n) ==
      \E f : f = [i \in 1 .. n |-> IF i = 1 THEN q[i] ELSE f[i - 1] \o q[i]]
<1> DEFINE G == {n \in Nat : Good(n)}
<1>1. Len(q) \in Nat
  OBVIOUS
<1>2. Good(0)
  <2> DEFINE f == [i \in 1 .. 0 |-> q[i]]
  <2>1. f = [i \in 1 .. 0 |-> IF i = 1 THEN q[i] ELSE f[i - 1] \o q[i]]
    OBVIOUS
  <2> HIDE DEF f
  <2> QED
    BY <2>1
<1>3. ASSUME NEW n \in Nat, Good(n) PROVE Good(n + 1)
  <2>1. PICK g : g = [i \in 1 .. n |-> IF i = 1 THEN q[i] ELSE g[i - 1] \o q[i]]
    BY <1>3
  <2> DEFINE f == [i \in 1 .. n + 1 |-> IF i = 1 THEN q[i] ELSE g[i - 1] \o q[i]]
  <2>2. ASSUME NEW i \in 1 .. n + 1, i # 1 PROVE f[i - 1] = g[i - 1]
    <3>1. i - 1 \in 1 .. n /\ i - 1 \in 1 .. n + 1
      BY <2>2
    <3>2. f[i - 1] = IF i - 1 = 1 THEN q[i - 1] ELSE g[(i - 1) - 1] \o q[i - 1]
      BY <3>1
    <3>3. g[i - 1] = IF i - 1 = 1 THEN q[i - 1] ELSE g[(i - 1) - 1] \o q[i - 1]
      BY <2>1, <3>1
    <3> QED
      BY <3>2, <3>3
  <2>3. f = [i \in 1 .. n + 1 |-> IF i = 1 THEN q[i] ELSE f[i - 1] \o q[i]]
    BY <2>2
  <2> HIDE DEF f
  <2> QED
    BY <2>3
<1> HIDE DEF Good
<1>4. 0 \in G /\ \A n \in 0 .. Len(q) - 1 : n \in G => n + 1 \in G
  BY <1>1, <1>2, <1>3
<1> HIDE DEF G
<1>5. Len(q) \in G
  <2>1. \A n \in 0 .. Len(q) : n \in G
    BY <1>1, <1>4, UpTo
  <2> QED
    BY <1>1, <2>1
<1> QED
  BY <1>5 DEF G, Good

(* FlattenSeq satisfies its recursion.                                     *)
LEMMA FlattenRecursion ==
  ASSUME NEW q \in Seq(Seq(Int)), Len(q) # 0
  PROVE  \E f : /\ f = [i \in 1 .. Len(q) |->
                        IF i = 1 THEN q[i] ELSE f[i - 1] \o q[i]]
               /\ FlattenSeq(q) = f[Len(q)]
<1> DEFINE f == CHOOSE g : g = [i \in 1 .. Len(q) |->
                                 IF i = 1 THEN q[i] ELSE g[i - 1] \o q[i]]
<1>1. \E g : g = [i \in 1 .. Len(q) |-> IF i = 1 THEN q[i] ELSE g[i - 1] \o q[i]]
  BY FlattenExists
<1>2. f = [i \in 1 .. Len(q) |-> IF i = 1 THEN q[i] ELSE f[i - 1] \o q[i]]
  BY <1>1, Zenon
<1>3. FlattenSeq(q) = f[Len(q)]
  BY Zenon DEF FlattenSeq
<1> HIDE DEF f
<1> QED
  BY <1>2, <1>3

(* Flattening a channel: its bytes are those of the messages, and they are *)
(* in order when the messages are.                                         *)
LEMMA Flattened ==
  ASSUME NEW q \in Seq(Seq(Int)),
         \A i \in 1 .. Len(q) :
           Increasing(q[i]) /\ \A j \in 1 .. Len(q) : i < j => Below(q[i], q[j])
  PROVE  /\ FlattenSeq(q) \in Seq(Int)
         /\ Increasing(FlattenSeq(q))
         /\ \A x : x \in Range(FlattenSeq(q))
                    <=> \E i \in 1 .. Len(q) : x \in Range(q[i])
<1>1. Len(q) \in Nat /\ \A i \in 1 .. Len(q) : q[i] \in Seq(Int)
  OBVIOUS
<1>2. CASE Len(q) = 0
  <2>1. q = <<>> /\ FlattenSeq(q) = q
    BY <1>2 DEF FlattenSeq
  <2>2. FlattenSeq(q) = <<>>
    BY <2>1
  <2>3. \A i \in 1 .. Len(q) : FALSE
    BY <1>2
  <2> QED
    BY <2>2, <2>3, NoElements
<1>3. CASE Len(q) # 0
  <2>1. PICK f : /\ f = [i \in 1 .. Len(q) |->
                          IF i = 1 THEN q[i] ELSE f[i - 1] \o q[i]]
                 /\ FlattenSeq(q) = f[Len(q)]
    BY <1>3, FlattenRecursion
  <2> DEFINE Good(n) == /\ f[n] \in Seq(Int) /\ Increasing(f[n])
                        /\ \A x : x \in Range(f[n])
                                   <=> \E i \in 1 .. n : x \in Range(q[i])
  <2> DEFINE G == {n \in Nat : n = 0 \/ Good(n)}
  <2>2. f[1] = q[1] /\ \A n \in 1 .. Len(q) - 1 : f[n + 1] = f[n] \o q[n + 1]
    <3>1. 1 \in 1 .. Len(q)
      BY <1>1, <1>3
    <3>2. ASSUME NEW n \in 1 .. Len(q) - 1 PROVE f[n + 1] = f[n] \o q[n + 1]
      <4>1. n + 1 \in 1 .. Len(q) /\ n + 1 # 1 /\ (n + 1) - 1 = n
        BY <1>1
      <4> HIDE DEF Good, G
      <4>2. f[n + 1] = f[(n + 1) - 1] \o q[n + 1]
        BY <2>1, <4>1
      <4> QED
        BY <4>1, <4>2
    <3> QED
      BY <2>1, <3>1, <3>2
  <2>3. ASSUME NEW n \in 0 .. Len(q) - 1, n = 0 \/ Good(n) PROVE Good(n + 1)
    <3>0. n \in Nat /\ n + 1 \in 1 .. Len(q) /\ q[n + 1] \in Seq(Int)
      BY <1>1
    <3>1. CASE n = 0
      <4>1. f[n + 1] = q[n + 1]
        BY <2>2, <3>1
      <4>2. n + 1 \in 1 .. n + 1 /\ \A i \in 1 .. n + 1 : i = n + 1
        BY <3>1
      <4>3. Increasing(q[n + 1])
        BY <3>0
      <4>4. \A x : x \in Range(q[n + 1]) <=> \E i \in 1 .. n + 1 : x \in Range(q[i])
        BY <4>2
      <4> QED
        BY <3>0, <4>1, <4>3, <4>4
    <3>2. CASE n # 0
      <4>1. /\ Good(n) /\ n \in 1 .. Len(q) - 1
            /\ \A i : i \in 1 .. n + 1 <=> i \in 1 .. n \/ i = n + 1
            /\ \A i \in 1 .. n : i \in 1 .. Len(q) /\ i < n + 1
        BY <2>3, <3>0, <3>2
      <4>2. f[n + 1] = f[n] \o q[n + 1]
        BY <2>2, <4>1
      <4>3. Below(f[n], q[n + 1])
        <5>1. ASSUME NEW x \in Range(f[n]), NEW y \in Range(q[n + 1]) PROVE x < y
          <6>1. PICK i \in 1 .. n : x \in Range(q[i])
            BY <4>1
          <6>2. Below(q[i], q[n + 1])
            BY <3>0, <4>1
          <6> QED
            BY <6>1, <6>2 DEF Below
        <5> QED
          BY <5>1 DEF Below
      <4>4. f[n] \o q[n + 1] \in Seq(Int) /\ Increasing(f[n] \o q[n + 1])
        BY <3>0, <4>1, <4>3, JoinedIncreasing
      <4>5. Range(f[n] \o q[n + 1]) = Range(f[n]) \cup Range(q[n + 1])
        BY <3>0, <4>1, JoinedElements
      <4> QED
        BY <4>1, <4>2, <4>4, <4>5
    <3> QED
      BY <3>1, <3>2
  <2> HIDE DEF Good
  <2>4. 0 \in G /\ \A n \in 0 .. Len(q) - 1 : n \in G => n + 1 \in G
    BY <1>1, <2>3
  <2> HIDE DEF G
  <2>5. \A n \in 0 .. Len(q) : n \in G
    BY <1>1, <2>4, UpTo
  <2>6. Good(Len(q))
    <3>1. Len(q) \in G
      BY <1>1, <2>5
    <3> QED
      BY <1>3, <3>1 DEF G
  <2> QED
    BY <2>1, <2>6 DEF Good
<1> QED
  BY <1>2, <1>3

(* The only increasing sequence of the numbers from 1 to n.                *)
LEMMA IncreasingUpto ==
  ASSUME NEW s \in Seq(Int), Increasing(s), NEW n \in Nat, Range(s) = 1 .. n
  PROVE  s = Upto(n)
<1>1. /\ Len(s) \in Nat /\ DOMAIN s = 1 .. Len(s)
      /\ \A i \in 1 .. Len(s) : s[i] \in 1 .. n
      /\ \A x \in 1 .. n : \E i \in 1 .. Len(s) : x = s[i]
  <2>1. Len(s) \in Nat /\ DOMAIN s = 1 .. Len(s)
    OBVIOUS
  <2>2. \A x : x \in 1 .. n <=> \E i \in 1 .. Len(s) : x = s[i]
    BY Elements
  <2> QED
    BY <2>1, <2>2
<1> DEFINE Bad == {i \in 1 .. Len(s) : s[i] # i}
<1>2. ASSUME Bad # {} PROVE FALSE
  <2>1. Bad \in SUBSET Nat
    BY <1>1
  <2>2. PICK m \in Bad : \A k \in Bad : m <= k
    BY <1>2, <2>1, Least
  <2>3. /\ m \in 1 .. Len(s) /\ s[m] # m /\ s[m] \in 1 .. n /\ m \in Nat
        /\ \A k \in 1 .. Len(s) : k < m => s[k] = k
    BY <1>1, <2>2
  <2> HIDE DEF Bad
  <2>4. s[m] > m
    <3>1. CASE m = 1
      BY <2>3, <3>1
    <3>2. CASE m # 1
      <4>1. m - 1 \in 1 .. Len(s) /\ m - 1 < m
        BY <1>1, <2>3, <3>2
      <4>2. s[m - 1] = m - 1 /\ s[m - 1] < s[m]
        BY <2>3, <4>1 DEF Increasing
      <4> QED
        BY <2>3, <4>2
    <3> QED
      BY <3>1, <3>2
  <2>5. m \in 1 .. n
    BY <2>3, <2>4
  <2>6. PICK k \in 1 .. Len(s) : m = s[k]
    BY <1>1, <2>5
  <2>7. k \in Nat /\ ~(k < m) /\ k # m
    BY <1>1, <2>3, <2>6
  <2>8. m < k
    BY <2>3, <2>7
  <2>9. s[m] < s[k]
    BY <2>3, <2>8 DEF Increasing
  <2> QED
    BY <2>3, <2>4, <2>6, <2>9
<1>3. \A i \in 1 .. Len(s) : s[i] = i
  BY <1>2
<1> HIDE DEF Bad
<1>4. Len(s) = n
  <2>1. \A x \in 1 .. Len(s) : x \in 1 .. n
    BY <1>1, <1>3
  <2>2. \A x \in 1 .. n : x \in 1 .. Len(s)
    BY <1>1, <1>3
  <2>3. Len(s) # 0 => Len(s) \in 1 .. Len(s)
    BY <1>1
  <2>4. n # 0 => n \in 1 .. n
    OBVIOUS
  <2>0. Len(s) \in Nat
    BY <1>1
  <2>5. Len(s) <= n
    BY <2>0, <2>1, <2>3
  <2>6. n <= Len(s)
    BY <2>0, <2>2, <2>4
  <2> QED
    BY <2>0, <2>5, <2>6
<1> QED
  BY <1>1, <1>3, <1>4 DEF Upto

(* The pieces of a stream, joined: in order, and the whole of it when no   *)
(* byte is missing.                                                        *)
LEMMA StreamsJoined ==
  ASSUME NEW a \in Seq(Int), NEW b \in Seq(Int), NEW q \in Seq(Seq(Int)),
         NEW d \in Seq(Int), NEW top \in Nat, Ordered(a, b, q, d, top)
  PROVE  /\ a \o b \o FlattenSeq(q) \o d \in Seq(Int)
         /\ Increasing(a \o b \o FlattenSeq(q) \o d)
         /\ Complete(a, b, q, d, top) => a \o b \o FlattenSeq(q) \o d = Upto(top)
<1> DEFINE m == FlattenSeq(q)
<1>1. /\ m \in Seq(Int) /\ Increasing(m)
      /\ \A x : x \in Range(m) <=> \E i \in 1 .. Len(q) : x \in Range(q[i])
  BY Flattened DEF Ordered
<1> HIDE DEF m
<1>2. Below(a, m) /\ Below(b, m) /\ Below(m, d) /\ Range(m) \subseteq 1 .. top
  BY <1>1 DEF Ordered, Below
<1>3. /\ a \o b \in Seq(Int) /\ Increasing(a \o b)
      /\ Range(a \o b) = Range(a) \cup Range(b)
  BY JoinedElements, JoinedIncreasing DEF Ordered
<1>4. Below(a \o b, m) /\ Below(a \o b, d)
  BY <1>2, <1>3 DEF Ordered, Below
<1> DEFINE t == a \o b
<1> HIDE DEF t
<1>5. /\ t \o m \in Seq(Int) /\ Increasing(t \o m)
      /\ Range(t \o m) = Range(t) \cup Range(m)
  <2>1. t \in Seq(Int) /\ Increasing(t) /\ Below(t, m) /\ m \in Seq(Int) /\ Increasing(m)
    BY <1>1, <1>3, <1>4 DEF t
  <2> QED
    BY <2>1, JoinedElements, JoinedIncreasing
<1>6. Below(t \o m, d)
  BY <1>2, <1>4, <1>5 DEF Below, t
<1>7. /\ (t \o m) \o d \in Seq(Int) /\ Increasing((t \o m) \o d)
      /\ Range((t \o m) \o d) = Range(t \o m) \cup Range(d)
  <2> DEFINE u == t \o m
  <2>1. u \in Seq(Int) /\ Increasing(u) /\ Below(u, d) /\ Increasing(d)
    BY <1>5, <1>6 DEF Ordered
  <2> HIDE DEF u
  <2>2. u \o d \in Seq(Int) /\ Increasing(u \o d) /\ Range(u \o d) = Range(u) \cup Range(d)
    BY <2>1, JoinedElements, JoinedIncreasing
  <2> QED
    BY <2>2 DEF u
<1>8. ASSUME Complete(a, b, q, d, top) PROVE (t \o m) \o d = Upto(top)
  <2>1. Range(a) \cup Range(b) \cup Range(d) \subseteq 1 .. top
    BY DEF Ordered
  <2>2. Range((t \o m) \o d) = Range(a) \cup Range(b) \cup Range(m) \cup Range(d)
    BY <1>3, <1>5, <1>7 DEF t
  <2>3. \A x \in 1 .. top : x \in Range(a) \cup Range(b) \cup Range(m) \cup Range(d)
    BY <1>1, <1>8 DEF Complete
  <2>4. Range((t \o m) \o d) = 1 .. top
    BY <1>2, <2>1, <2>2, <2>3
  <2> QED
    BY <1>7, <2>4, IncreasingUpto
<1> QED
  BY <1>7, <1>8 DEF t, m

(* Buffers and channels keep their capacity, a connection has the channels *)
(* and the bridge of its own number, and both its streams stay in order,   *)
(* complete unless a message was dropped (run_stack, bridge_to_local).     *)
THEOREM StackInvariant == Spec => []StackInv
<1>1. Init => AllInv
  BY StackInit
<1>2. AllInv /\ [Next]_vars => AllInv'
  BY StackStep
<1>3. AllInv => StackInv
  BY PartsMakeStackInv
<1> QED
  BY <1>1, <1>2, <1>3, PTL DEF Spec

(* Both streams of an open connection, from what was delivered through the *)
(* channel to what waits in the socket's buffer, are in order and without  *)
(* repetition, and complete unless a full channel or a short write dropped *)
(* a message (run_stack, bridge_to_local).                                 *)
THEOREM StreamsOrdered == Spec => []StreamsInOrder
<1>1. Init => AllInv
  BY StackInit
<1>2. AllInv /\ [Next]_vars => AllInv'
  BY StackStep
<1>3. AllInv => StreamsInOrder
  <2> SUFFICES ASSUME AllInv, is_active(sock)
               PROVE  /\ LET s == upgot[conn] \o FlattenSeq(up[conn]) \o rx
                         IN Increasing(s) /\ ("up" \notin hole => s = Upto(sent))
                      /\ LET s == downgot \o tx \o FlattenSeq(down[conn])
                         IN Increasing(s) /\ ("down" \notin hole => s = Upto(made[conn]))
    BY DEF StreamsInOrder, UpStream, DownStream
  <2> DEFINE u == upgot[conn] \o FlattenSeq(up[conn]) \o rx
             d == downgot \o tx \o FlattenSeq(down[conn])
  <2>1. /\ UpOK(up[conn], rx, sent) /\ DownOK(downgot, tx, down[conn])
        /\ Pieces(<<>>, upgot[conn], up[conn], rx, sent)
        /\ Pieces(downgot, tx, down[conn], <<>>, made[conn])
    BY ActiveParts
  <2>2. ASSUME NEW s \in Seq(Int) PROVE <<>> \o s = s /\ s \o <<>> = s
    OBVIOUS
  <2>3. Increasing(u) /\ ("up" \notin hole => u = Upto(sent))
    <3>1. <<>> \o upgot[conn] = upgot[conn]
      BY <2>1, <2>2 DEF Pieces
    <3>2. /\ Ordered(<<>>, upgot[conn], up[conn], rx, sent)
          /\ <<>> \in Seq(Int) /\ upgot[conn] \in Seq(Int)
          /\ up[conn] \in Seq(Seq(Int)) /\ rx \in Seq(Int) /\ sent \in Nat
      BY <2>1 DEF UpOK, Pieces
    <3>3. /\ Increasing(<<>> \o upgot[conn] \o FlattenSeq(up[conn]) \o rx)
          /\ Complete(<<>>, upgot[conn], up[conn], rx, sent) =>
               <<>> \o upgot[conn] \o FlattenSeq(up[conn]) \o rx = Upto(sent)
      BY <3>2, StreamsJoined
    <3>4. Increasing(u) /\ (Complete(<<>>, upgot[conn], up[conn], rx, sent) => u = Upto(sent))
      BY <3>1, <3>3
    <3> QED
      BY <2>1, <3>4 DEF UpOK
  <2>4. Increasing(d) /\ ("down" \notin hole => d = Upto(made[conn]))
    <3>1. d \in Seq(Int)
      <4>1. FlattenSeq(down[conn]) \in Seq(Int) /\ downgot \in Seq(Int) /\ tx \in Seq(Int)
        BY <2>1, Flattened DEF Pieces, DownOK, Ordered
      <4> QED
        BY <4>1
    <3>2. d \o <<>> = d
      BY <2>2, <3>1
    <3>3. /\ Ordered(downgot, tx, down[conn], <<>>, made[conn])
          /\ <<>> \in Seq(Int) /\ downgot \in Seq(Int) /\ tx \in Seq(Int)
          /\ down[conn] \in Seq(Seq(Int)) /\ made[conn] \in Nat
      BY <2>1 DEF DownOK, Pieces
    <3>4. /\ Increasing(d \o <<>>)
          /\ Complete(downgot, tx, down[conn], <<>>, made[conn]) =>
               d \o <<>> = Upto(made[conn])
      BY <3>3, StreamsJoined
    <3>5. Increasing(d) /\ (Complete(downgot, tx, down[conn], <<>>, made[conn])
                             => d = Upto(made[conn]))
      BY <3>2, <3>4
    <3> QED
      BY <2>1, <3>5 DEF DownOK
  <2> QED
    BY <2>3, <2>4
<1> QED
  BY <1>1, <1>2, <1>3, PTL DEF Spec
=============================================================================
