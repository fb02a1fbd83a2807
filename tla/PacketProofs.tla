---------------------------- MODULE PacketProofs ----------------------------
(***************************************************************************)
(* Proofs about Packet for any values, any capacity of the buffer and any  *)
(* number of packets on the wire.                                          *)
(***************************************************************************)
EXTENDS Packet, SequenceTheorems, WellFoundedInduction, TLAPS

-----------------------------------------------------------------------------
(* What FlattenSeq, defined by recursion over the index, computes.          *)

(* A set of naturals has a least member: the form induction takes here.     *)
LEMMA LeastIndex ==
    ASSUME NEW T \in SUBSET Nat, T # {}
    PROVE  \E x \in T : \A y \in T : ~(y < x)
<1>1. PICK x \in T : \A y \in T : ~(<<y, x>> \in OpToRel(<, Nat))
  BY NatLessThanWellFounded, WFMin
<1> QED BY <1>1 DEF OpToRel

(* The recursive function is defined: what it is for the first m sequences  *)
(* extends to one more.                                                     *)
Flattens(f, ss, m) ==
    f = [i \in 1..m |-> IF i = 1 THEN ss[i] ELSE f[i - 1] \o ss[i]]

LEMMA FlattensExists ==
    ASSUME NEW ss, NEW m \in Nat
    PROVE  \E f : Flattens(f, ss, m)
<1> DEFINE T == {n \in Nat : ~\E f : Flattens(f, ss, n)}
<1> SUFFICES ASSUME T # {} PROVE FALSE
  OBVIOUS
<1>1. PICK n \in T : \A y \in T : ~(y < n)
  BY LeastIndex
<1>2. n \in Nat /\ ~\E f : Flattens(f, ss, n)
  OBVIOUS
<1>3. CASE n = 0
  <2>1. Flattens([i \in 1..0 |-> 0], ss, 0)
    BY DEF Flattens
  <2> QED BY <1>2, <1>3, <2>1
<1>4. CASE n # 0
  <2>1. n - 1 \in Nat /\ n - 1 < n
    BY <1>2, <1>4
  <2>2. PICK f : Flattens(f, ss, n - 1)
    BY <1>1, <2>1
  <2> DEFINE g == [i \in 1..n |-> IF i = 1 THEN ss[i] ELSE f[i - 1] \o ss[i]]
  <2>3. \A i \in 1..(n - 1) : g[i] = f[i]
    <3>1. \A i \in 1..(n - 1) : i \in 1..n
      BY <1>2
    <3> QED BY <2>2, <3>1 DEF Flattens
  <2>4. \A i \in 1..n : i # 1 => i - 1 \in 1..(n - 1)
    BY <1>2
  <2>5. g = [i \in 1..n |-> IF i = 1 THEN ss[i] ELSE g[i - 1] \o ss[i]]
    <3> HIDE DEF g
    <3>1. \A i \in 1..n : i # 1 => f[i - 1] = g[i - 1]
      BY <2>3, <2>4
    <3> QED BY <3>1 DEF g
  <2> HIDE DEF g
  <2> QED BY <1>2, <2>5 DEF Flattens
<1> QED BY <1>3, <1>4

(* Two such functions agree where both are defined.                         *)
LEMMA FlattensUnique ==
    ASSUME NEW ss, NEW m \in Nat, NEW n \in Nat, NEW f, NEW g,
           Flattens(f, ss, m), Flattens(g, ss, n), NEW i \in 1..m, i <= n
    PROVE  f[i] = g[i]
<1> DEFINE T == {k \in 1..m : k <= n /\ f[k] # g[k]}
<1> SUFFICES ASSUME T # {} PROVE FALSE
  OBVIOUS
<1>1. PICK k \in T : \A y \in T : ~(y < k)
  <2>1. T \in SUBSET Nat
    OBVIOUS
  <2> HIDE DEF T
  <2> QED BY <2>1, LeastIndex
<1>2. k \in 1..m /\ k \in 1..n /\ f[k] # g[k]
  OBVIOUS
<1>3. /\ f[k] = IF k = 1 THEN ss[k] ELSE f[k - 1] \o ss[k]
      /\ g[k] = IF k = 1 THEN ss[k] ELSE g[k - 1] \o ss[k]
  BY <1>2 DEF Flattens
<1>4. k # 1
  BY <1>2, <1>3
<1>5. k - 1 \in 1..m /\ k - 1 <= n /\ k - 1 < k
  BY <1>2, <1>4
<1>6. f[k - 1] = g[k - 1]
  BY <1>1, <1>5
<1> QED BY <1>2, <1>3, <1>4, <1>6

(* FlattenSeq is the last value of the function.                            *)
LEMMA FlattenIs ==
    ASSUME NEW ss, Len(ss) \in Nat, Len(ss) # 0, NEW f, Flattens(f, ss, Len(ss))
    PROVE  FlattenSeq(ss) = f[Len(ss)]
<1> DEFINE n == Len(ss)
           flatten == CHOOSE h : h = [i \in 1..n |-> IF i = 1 THEN ss[i] ELSE h[i - 1] \o ss[i]]
<1>1. FlattenSeq(ss) = flatten[n]
  BY DEF FlattenSeq
<1>2. flatten = [i \in 1..n |-> IF i = 1 THEN ss[i] ELSE flatten[i - 1] \o ss[i]]
  BY DEF Flattens
<1> HIDE DEF flatten, n
<1>3. Flattens(flatten, ss, n)
  BY <1>2 DEF Flattens
<1>4. flatten[n] = f[n]
  BY <1>3, FlattensUnique DEF n
<1> QED BY <1>1, <1>4 DEF n

LEMMA FlattenEmpty == FlattenSeq(<< >>) = << >>
  BY DEF FlattenSeq

(* One more sequence goes to the end.                                       *)
LEMMA FlattenAppend ==
    ASSUME NEW S, NEW ss \in Seq(Seq(S)), NEW x \in Seq(S), FlattenSeq(ss) \in Seq(S)
    PROVE  FlattenSeq(Append(ss, x)) = FlattenSeq(ss) \o x
<1> DEFINE tt == Append(ss, x)
           n == Len(ss)
<1>1. /\ n \in Nat /\ Len(tt) = n + 1 /\ tt[n + 1] = x
      /\ \A i \in 1..n : tt[i] = ss[i]
  OBVIOUS
<1> HIDE DEF tt, n
<1>2. PICK f : Flattens(f, tt, n + 1)
  <2>1. n + 1 \in Nat
    BY <1>1
  <2> QED BY <2>1, FlattensExists
<1>3. FlattenSeq(tt) = f[n + 1]
  BY <1>1, <1>2, FlattenIs
<1>4. f[n + 1] = IF n + 1 = 1 THEN x ELSE f[n] \o x
  <2>1. n + 1 \in 1..(n + 1) /\ (n + 1) - 1 = n
    BY <1>1
  <2>2. f[n + 1] = IF n + 1 = 1 THEN tt[n + 1] ELSE f[(n + 1) - 1] \o tt[n + 1]
    BY <1>2, <2>1 DEF Flattens
  <2> QED BY <1>1, <2>1, <2>2
<1>5. CASE n = 0
  <2>1. ss = << >>
    BY <1>5 DEF n
  <2> QED BY <1>1, <1>3, <1>4, <1>5, <2>1, FlattenEmpty DEF tt
<1>6. CASE n # 0
  <2>1. PICK g : Flattens(g, ss, n)
    BY <1>1, FlattensExists
  <2>2. FlattenSeq(ss) = g[n]
    BY <1>1, <1>6, <2>1, FlattenIs DEF n
  <2>3. Flattens(g, tt, n)
    <3>1. [i \in 1..n |-> IF i = 1 THEN ss[i] ELSE g[i - 1] \o ss[i]]
          = [i \in 1..n |-> IF i = 1 THEN tt[i] ELSE g[i - 1] \o tt[i]]
      BY <1>1
    <3> QED BY <2>1, <3>1 DEF Flattens
  <2>4. f[n] = g[n]
    <3>1. n + 1 \in Nat /\ n \in 1..(n + 1) /\ n <= n
      BY <1>1, <1>6
    <3> QED BY <1>1, <1>2, <2>3, <3>1, FlattensUnique
  <2> QED BY <1>1, <1>3, <1>4, <1>6, <2>2, <2>4 DEF tt
<1> QED BY <1>5, <1>6

(* Concatenation is associative and commutes with Append.                   *)
LEMMA ConcatThree ==
    ASSUME NEW S, NEW a \in Seq(S), NEW b \in Seq(S), NEW c \in Seq(S)
    PROVE  (a \o b) \o c = a \o (b \o c)
  BY ConcatAssociative

LEMMA ConcatAppend ==
    ASSUME NEW S, NEW a \in Seq(S), NEW b \in Seq(S), NEW x \in S
    PROVE  a \o Append(b, x) = Append(a \o b, x) /\ a \o b \in Seq(S)
<1> DEFINE u == a \o Append(b, x)
           v == Append(a \o b, x)
<1>1. /\ Append(b, x) \in Seq(S) /\ Len(Append(b, x)) = Len(b) + 1
      /\ Append(b, x)[Len(b) + 1] = x /\ \A i \in 1..Len(b) : Append(b, x)[i] = b[i]
  BY AppendProperties
<1>2. /\ a \o b \in Seq(S) /\ Len(a \o b) = Len(a) + Len(b)
      /\ \A i \in 1..(Len(a) + Len(b)) :
            (a \o b)[i] = IF i <= Len(a) THEN a[i] ELSE b[i - Len(a)]
  BY ConcatProperties
<1> QED BY <1>1, <1>2, SeqEqual

(* A sequence is empty or longer by one than another one.                   *)
LEMMA AppendedTo ==
    ASSUME NEW S, NEW s \in Seq(S), s # << >>
    PROVE  \E t \in Seq(S), x \in S : s = Append(t, x) /\ Len(s) = Len(t) + 1
<1> DEFINE n == Len(s)
           t == SubSeq(s, 1, n - 1)
<1>1. n \in Nat /\ n > 0 /\ s[n] \in S
  OBVIOUS
<1>2. t \in Seq(S) /\ Len(t) = n - 1 /\ \A i \in 1..(n - 1) : t[i] = s[i]
  <2>1. 1 \in Int /\ n - 1 \in Int /\ \A i \in 1..(n - 1) : s[i] \in S
    BY <1>1
  <2>2. /\ t \in Seq(S) /\ Len(t) = IF 1 <= n - 1 THEN (n - 1) - 1 + 1 ELSE 0
        /\ \A i \in 1..((n - 1) - 1 + 1) : t[i] = s[1 + i - 1]
    BY <2>1, SubSeqProperties
  <2> HIDE DEF t, n
  <2>3. (n - 1) - 1 + 1 = n - 1 /\ \A i \in 1..(n - 1) : 1 + i - 1 = i
    BY <1>1
  <2>4. Len(t) = n - 1
    BY <1>1, <2>2
  <2>5. \A i \in 1..(n - 1) : t[i] = s[i]
    BY <2>2, <2>3
  <2> QED BY <2>2, <2>4, <2>5
<1> HIDE DEF t
<1>3. Len(Append(t, s[n])) = n /\ \A i \in 1..n : Append(t, s[n])[i] = s[i]
  BY <1>1, <1>2
<1>4. Append(t, s[n]) = s
  <2>1. Append(t, s[n]) \in Seq(S)
    BY <1>1, <1>2
  <2> QED BY <1>3, <2>1, SeqEqual
<1> QED BY <1>1, <1>2, <1>4

(* By the shortest sequence for which it fails.                             *)
LEMMA FlattenType ==
    ASSUME NEW S, NEW ss \in Seq(Seq(S))
    PROVE  FlattenSeq(ss) \in Seq(S)
<1> DEFINE T == {n \in Nat : \E s \in Seq(Seq(S)) : Len(s) = n /\ FlattenSeq(s) \notin Seq(S)}
<1> SUFFICES ASSUME T # {} PROVE FALSE
  OBVIOUS
<1>1. PICK n \in T : \A y \in T : ~(y < n)
  BY LeastIndex
<1>2. PICK s \in Seq(Seq(S)) : Len(s) = n /\ FlattenSeq(s) \notin Seq(S)
  BY <1>1
<1>3. s # << >>
  BY <1>2, FlattenEmpty
<1>4. PICK t \in Seq(Seq(S)), x \in Seq(S) : s = Append(t, x) /\ Len(s) = Len(t) + 1
  BY <1>3, AppendedTo
<1>5. Len(t) \in Nat /\ Len(t) < n
  BY <1>2, <1>4
<1>6. FlattenSeq(t) \in Seq(S)
  BY <1>1, <1>5
<1>7. FlattenSeq(s) = FlattenSeq(t) \o x
  BY <1>4, <1>6, FlattenAppend
<1> QED BY <1>2, <1>6, <1>7

(* The bytes of two parts are those of the whole.                           *)
LEMMA FlattenConcat ==
    ASSUME NEW S, NEW ss \in Seq(Seq(S)), NEW tt \in Seq(Seq(S))
    PROVE  FlattenSeq(ss \o tt) = FlattenSeq(ss) \o FlattenSeq(tt)
<1> DEFINE P(t) == FlattenSeq(ss \o t) = FlattenSeq(ss) \o FlattenSeq(t)
           T == {n \in Nat : \E t \in Seq(Seq(S)) : Len(t) = n /\ ~P(t)}
<1> SUFFICES ASSUME T # {} PROVE FALSE
  <2>1. Len(tt) \in Nat
    OBVIOUS
  <2>2. ~P(tt) => Len(tt) \in T
    BY <2>1
  <2> QED BY <2>2
<1>1. PICK n \in T : \A y \in T : ~(y < n)
  BY LeastIndex
<1>2. PICK t \in Seq(Seq(S)) : Len(t) = n /\ ~P(t)
  BY <1>1
<1>3. FlattenSeq(ss) \in Seq(S)
  BY FlattenType
<1>4. t # << >>
  <2>1. ss \o << >> = ss /\ FlattenSeq(ss) \o << >> = FlattenSeq(ss)
    BY <1>3, ConcatEmptySeq
  <2> QED BY <1>2, <2>1, FlattenEmpty
<1>5. PICK u \in Seq(Seq(S)), x \in Seq(S) : t = Append(u, x) /\ Len(t) = Len(u) + 1
  BY <1>4, AppendedTo
<1>6. Len(u) \in Nat /\ Len(u) < n
  <2> HIDE DEF P, T
  <2>1. Len(t) = n
    BY <1>2
  <2> QED BY <1>5, <2>1
<1>7. P(u)
  BY <1>1, <1>6
<1>8. ss \o t = Append(ss \o u, x) /\ ss \o u \in Seq(Seq(S))
  <2> DEFINE B == Seq(S)
  <2>1. ss \in Seq(B) /\ u \in Seq(B) /\ x \in B
    OBVIOUS
  <2> HIDE DEF B
  <2>2. ss \o Append(u, x) = Append(ss \o u, x) /\ ss \o u \in Seq(B)
    BY <2>1, ConcatAppend
  <2> QED BY <1>5, <2>2 DEF B
<1>9. FlattenSeq(u) \in Seq(S) /\ FlattenSeq(ss \o u) \in Seq(S)
  BY <1>8, FlattenType
<1>10. FlattenSeq(ss \o t) = FlattenSeq(ss \o u) \o x
  BY <1>8, <1>9, FlattenAppend
<1>11. FlattenSeq(t) = FlattenSeq(u) \o x
  BY <1>5, <1>9, FlattenAppend
<1>12. (FlattenSeq(ss) \o FlattenSeq(u)) \o x = FlattenSeq(ss) \o (FlattenSeq(u) \o x)
  <2> DEFINE a == FlattenSeq(ss)
             b == FlattenSeq(u)
  <2>1. a \in Seq(S) /\ b \in Seq(S) /\ x \in Seq(S)
    BY <1>3, <1>9
  <2> HIDE DEF a, b, T, P
  <2>2. (a \o b) \o x = a \o (b \o x)
    BY <2>1, ConcatThree, SMTT(30)
  <2> QED BY <2>2 DEF a, b
<1> QED BY <1>2, <1>7, <1>10, <1>11, <1>12

(* The sequences that e gives to the elements of s, one after the other.    *)
Joined(e, s) == FlattenSeq([i \in DOMAIN s |-> e[s[i]]])

(* Joined is a homomorphism; Body and Stream are two instances of it.       *)
LEMMA JoinedFacts ==
    ASSUME NEW S, NEW D, NEW e \in [D -> Seq(S)]
    PROVE  /\ Joined(e, << >>) = << >>
           /\ \A s \in Seq(D) : Joined(e, s) \in Seq(S)
           /\ \A x \in D : Joined(e, <<x>>) = e[x]
           /\ \A s, t \in Seq(D) : Joined(e, s \o t) = Joined(e, s) \o Joined(e, t)
<1> DEFINE M(s) == [i \in DOMAIN s |-> e[s[i]]]
           B == Seq(S)
<1>1. \A s \in Seq(D) : M(s) \in Seq(B) /\ Len(M(s)) = Len(s)
  <2> TAKE s \in Seq(D)
  <2>1. Len(s) \in Nat /\ DOMAIN s = 1..Len(s) /\ \A i \in 1..Len(s) : e[s[i]] \in B
    OBVIOUS
  <2> HIDE DEF B
  <2> QED BY <2>1, SeqDef
<1>2. Joined(e, << >>) = << >>
  <2>1. M(<< >>) = << >>
    OBVIOUS
  <2> QED BY <2>1, FlattenEmpty DEF Joined
<1>3. ASSUME NEW s \in Seq(D) PROVE Joined(e, s) \in Seq(S)
  <2> HIDE DEF M
  <2>1. FlattenSeq(M(s)) \in Seq(S)
    BY <1>1, FlattenType
  <2> QED BY <2>1 DEF Joined, M
<1>4. ASSUME NEW x \in D PROVE Joined(e, <<x>>) = e[x]
  <2>1. M(<<x>>) = <<e[x]>>
    <3>1. DOMAIN <<x>> = 1..1 /\ <<x>>[1] = x
      OBVIOUS
    <3> QED BY <3>1
  <2>2. <<e[x]>> = Append(<< >>, e[x]) /\ e[x] \in Seq(S) /\ << >> \o e[x] = e[x]
        /\ << >> \in Seq(Seq(S)) /\ << >> \in Seq(S)
    OBVIOUS
  <2>3. FlattenSeq(Append(<< >>, e[x])) = FlattenSeq(<< >>) \o e[x]
    BY <2>2, FlattenEmpty, FlattenAppend
  <2> QED BY <2>1, <2>2, <2>3, FlattenEmpty DEF Joined
<1>5. ASSUME NEW s \in Seq(D), NEW t \in Seq(D)
      PROVE  Joined(e, s \o t) = Joined(e, s) \o Joined(e, t)
  <2> DEFINE u == s \o t
  <2>1. /\ u \in Seq(D) /\ Len(u) = Len(s) + Len(t)
        /\ \A i \in 1..(Len(s) + Len(t)) : u[i] = IF i <= Len(s) THEN s[i] ELSE t[i - Len(s)]
    BY ConcatProperties
  <2> HIDE DEF u
  <2> DEFINE a == M(s)
             b == M(t)
             c == M(u)
  <2>2. a \in Seq(B) /\ b \in Seq(B) /\ c \in Seq(B)
        /\ Len(a) = Len(s) /\ Len(b) = Len(t) /\ Len(c) = Len(u)
    BY <1>1, <2>1
  <2>3. /\ \A i \in 1..Len(s) : a[i] = e[s[i]]
        /\ \A i \in 1..Len(t) : b[i] = e[t[i]]
        /\ \A i \in 1..Len(u) : c[i] = e[u[i]]
    BY <2>1, SMTT(30)
  <2>4. Len(s) \in Nat /\ Len(t) \in Nat
    OBVIOUS
  <2> HIDE DEF a, b, c, B
  <2>5. /\ a \o b \in Seq(B) /\ Len(a \o b) = Len(a) + Len(b)
        /\ \A i \in 1..(Len(a) + Len(b)) :
              (a \o b)[i] = IF i <= Len(a) THEN a[i] ELSE b[i - Len(a)]
    BY <2>2, ConcatProperties
  <2>6. \A i \in 1..Len(c) : c[i] = (a \o b)[i]
    <3> TAKE i \in 1..Len(c)
    <3>1. CASE i <= Len(s)
      BY <2>1, <2>2, <2>3, <2>4, <2>5, <3>1
    <3>2. CASE ~(i <= Len(s))
      <4>1. i - Len(s) \in 1..Len(t) /\ i \in 1..(Len(s) + Len(t))
        BY <2>1, <2>2, <2>4, <3>2
      <4>2. u[i] = t[i - Len(s)] /\ c[i] = e[u[i]]
        BY <2>1, <2>2, <2>3, <3>2, <4>1
      <4>3. (a \o b)[i] = b[i - Len(s)]
        BY <2>2, <2>5, <3>2, <4>1
      <4>4. b[i - Len(s)] = e[t[i - Len(s)]]
        BY <2>3, <4>1
      <4> QED BY <4>2, <4>3, <4>4
    <3> QED BY <3>1, <3>2
  <2>7. c = a \o b
    BY <2>1, <2>2, <2>5, <2>6, SeqEqual
  <2>8. FlattenSeq(a \o b) = FlattenSeq(a) \o FlattenSeq(b)
    BY <2>2, FlattenConcat DEF B
  <2> QED BY <2>7, <2>8 DEF Joined, a, b, c, u
<1> QED BY <1>2, <1>3, <1>4, <1>5

-----------------------------------------------------------------------------
(* The bytes of values and packets.                                         *)

(* What the assumption says, without the literal.                           *)
LEMMA ConstantFacts ==
    /\ Capacity \in Nat /\ 4 <= Capacity /\ Capacity < Word
    /\ Opcode \in Nat
  BY PacketAssumption

(* A cursor within the buffer does not wrap around.                         *)
LEMMA FitsWord ==
    ASSUME NEW n \in Nat, n < Word
    PROVE  n % Word = n
  BY DEF Word

(* A length can be read back from its two bytes.                            *)
LEMMA U16Facts ==
    ASSUME NEW n \in Nat
    PROVE  /\ U16(n) \in Seq(Nat) /\ Len(U16(n)) = 2
           /\ U16(n)[1] + 256 * U16(n)[2] = n
<1>1. n % 256 \in Nat /\ n \div 256 \in Nat /\ (n % 256) + 256 * (n \div 256) = n
  OBVIOUS
<1> QED BY <1>1 DEF U16

(* What operator<< writes for a value of each kind.                         *)
LEMMA EncodeFacts ==
    ASSUME NEW v \in Values
    PROVE  /\ v.bytes \in Seq(Nat) /\ Encode(v) \in Seq(Nat)
           /\ v = [type |-> v.type, bytes |-> v.bytes]
           /\ v.type \in {"u8", "u16", "float", "string"}
           /\ v.type # "string" => Encode(v) = v.bytes /\ Len(v.bytes) = Size(v.type)
           /\ v.type = "string" => /\ Encode(v) = U16(Len(v.bytes)) \o v.bytes
                                   /\ Len(Encode(v)) = 2 + Len(v.bytes)
<1>1. /\ v \in [type : {"u8", "u16", "float", "string"}, bytes : Seq(Nat)]
      /\ v.type # "string" => Len(v.bytes) = Size(v.type)
  BY PacketAssumption
<1>2. v.bytes \in Seq(Nat) /\ v = [type |-> v.type, bytes |-> v.bytes]
      /\ v.type \in {"u8", "u16", "float", "string"}
  BY <1>1
<1>3. U16(Len(v.bytes)) \in Seq(Nat) /\ Len(U16(Len(v.bytes))) = 2
  BY <1>2, U16Facts
<1>4. U16(Len(v.bytes)) \o v.bytes \in Seq(Nat)
      /\ Len(U16(Len(v.bytes)) \o v.bytes) = 2 + Len(v.bytes)
  <2> DEFINE l == U16(Len(v.bytes))
             b == v.bytes
  <2>1. l \in Seq(Nat) /\ Len(l) = 2 /\ b \in Seq(Nat)
    BY <1>2, <1>3
  <2> HIDE DEF l, b
  <2>2. l \o b \in Seq(Nat) /\ Len(l \o b) = Len(l) + Len(b)
    BY <2>1, ConcatProperties
  <2> QED BY <2>1, <2>2 DEF l, b
<1> QED BY <1>1, <1>2, <1>4 DEF Encode

(* The bytes of values, one after the other.                                *)
LEMMA BodyFacts ==
    /\ Body(<< >>) = << >>
    /\ \A s \in Seq(Values) : Body(s) \in Seq(Nat)
    /\ \A v \in Values : Body(<<v>>) = Encode(v)
    /\ \A s, t \in Seq(Values) : Body(s \o t) = Body(s) \o Body(t)
<1> DEFINE e == [v \in Values |-> Encode(v)]
<1>1. e \in [Values -> Seq(Nat)]
  BY EncodeFacts
<1>2. \A s \in Seq(Values) : Body(s) = Joined(e, s)
  <2> TAKE s \in Seq(Values)
  <2>1. \A i \in DOMAIN s : s[i] \in Values
    OBVIOUS
  <2>2. [i \in DOMAIN s |-> Encode(s[i])] = [i \in DOMAIN s |-> e[s[i]]]
    BY <2>1
  <2> QED BY <2>2 DEF Body, Joined
<1>3. \A v \in Values : e[v] = Encode(v)
  OBVIOUS
<1>4. << >> \in Seq(Values) /\ (\A v \in Values : <<v>> \in Seq(Values))
      /\ \A s, t \in Seq(Values) : s \o t \in Seq(Values)
  OBVIOUS
<1> HIDE DEF e
<1>5. /\ Joined(e, << >>) = << >>
      /\ \A s \in Seq(Values) : Joined(e, s) \in Seq(Nat)
      /\ \A x \in Values : Joined(e, <<x>>) = e[x]
      /\ \A s, t \in Seq(Values) : Joined(e, s \o t) = Joined(e, s) \o Joined(e, t)
  BY <1>1, JoinedFacts
<1> QED BY <1>2, <1>3, <1>4, <1>5, ZenonT(30)

(* A packet is its opcode, the length of its body, and its body.            *)
LEMMA PackedFacts ==
    ASSUME NEW s \in Seq(Values)
    PROVE  /\ Packed(s) \in Seq(Nat) /\ Len(Packed(s)) = 4 + Len(Body(s))
           /\ Packed(s)[1] = U16(Opcode)[1] /\ Packed(s)[2] = U16(Opcode)[2]
           /\ Packed(s)[3] = U16(Len(Body(s)))[1] /\ Packed(s)[4] = U16(Len(Body(s)))[2]
           /\ \A i \in 1..Len(Body(s)) : Packed(s)[4 + i] = Body(s)[i]
<1> DEFINE b == Body(s)
           op == U16(Opcode)
           len == U16(Len(Body(s)))
<1>1. b \in Seq(Nat) /\ Len(b) \in Nat
  BY BodyFacts
<1>2. op \in Seq(Nat) /\ Len(op) = 2
  BY U16Facts, ConstantFacts
<1>3. len \in Seq(Nat) /\ Len(len) = 2
  BY <1>1, U16Facts
<1>4. Packed(s) = (op \o len) \o b
  BY DEF Packed
<1> HIDE DEF b, op, len
<1> DEFINE h == op \o len
<1>5. h \in Seq(Nat) /\ Len(h) = 4
      /\ h[1] = op[1] /\ h[2] = op[2] /\ h[3] = len[1] /\ h[4] = len[2]
  <2>1. /\ op \o len \in Seq(Nat) /\ Len(op \o len) = Len(op) + Len(len)
        /\ \A i \in 1..(Len(op) + Len(len)) :
              (op \o len)[i] = IF i <= Len(op) THEN op[i] ELSE len[i - Len(op)]
    BY <1>2, <1>3, ConcatProperties
  <2> HIDE DEF h
  <2>2. /\ h \in Seq(Nat) /\ Len(h) = 4
        /\ \A i \in 1..4 : h[i] = IF i <= 2 THEN op[i] ELSE len[i - 2]
    BY <1>2, <1>3, <2>1 DEF h
  <2> QED BY <2>2
<1> HIDE DEF h
<1>6. /\ h \o b \in Seq(Nat) /\ Len(h \o b) = Len(h) + Len(b)
      /\ \A i \in 1..(Len(h) + Len(b)) :
            (h \o b)[i] = IF i <= Len(h) THEN h[i] ELSE b[i - Len(h)]
  BY <1>1, <1>5, ConcatProperties
<1>7. Packed(s) = h \o b
  BY <1>4 DEF h
<1>8. /\ Packed(s) \in Seq(Nat) /\ Len(Packed(s)) = 4 + Len(b)
      /\ \A i \in 1..(4 + Len(b)) : Packed(s)[i] = IF i <= 4 THEN h[i] ELSE b[i - 4]
  BY <1>5, <1>6, <1>7
<1>9. \A i \in 1..Len(b) : Packed(s)[4 + i] = b[i]
  <2> TAKE i \in 1..Len(b)
  <2>1. 4 + i \in 1..(4 + Len(b)) /\ ~(4 + i <= 4) /\ (4 + i) - 4 = i
    BY <1>1
  <2> QED BY <1>8, <2>1
<1>10. Packed(s)[1] = h[1] /\ Packed(s)[2] = h[2] /\ Packed(s)[3] = h[3] /\ Packed(s)[4] = h[4]
  BY <1>1, <1>8
<1> QED BY <1>5, <1>8, <1>9, <1>10 DEF b, op, len

(* Packets, one after the other.                                            *)
LEMMA StreamFacts ==
    /\ Stream(<< >>) = << >>
    /\ \A p \in Seq(Seq(Values)) : Stream(p) \in Seq(Nat)
    /\ \A s \in Seq(Values) : Stream(<<s>>) = Packed(s)
    /\ \A p, q \in Seq(Seq(Values)) : Stream(p \o q) = Stream(p) \o Stream(q)
<1> DEFINE D == Seq(Values)
           e == [s \in D |-> Packed(s)]
<1>1. e \in [D -> Seq(Nat)]
  BY PackedFacts
<1>2. \A p \in Seq(D) : Stream(p) = Joined(e, p)
  <2> TAKE p \in Seq(D)
  <2>1. \A i \in DOMAIN p : p[i] \in D
    OBVIOUS
  <2>2. [i \in DOMAIN p |-> Packed(p[i])] = [i \in DOMAIN p |-> e[p[i]]]
    BY <2>1
  <2> QED BY <2>2 DEF Stream, Joined
<1>3. \A s \in D : e[s] = Packed(s)
  OBVIOUS
<1> HIDE DEF e, D
<1>4. << >> \in Seq(D) /\ (\A s \in D : <<s>> \in Seq(D))
      /\ \A p, q \in Seq(D) : p \o q \in Seq(D)
  OBVIOUS
<1>5. /\ Joined(e, << >>) = << >>
      /\ \A p \in Seq(D) : Joined(e, p) \in Seq(Nat)
      /\ \A x \in D : Joined(e, <<x>>) = e[x]
      /\ \A p, q \in Seq(D) : Joined(e, p \o q) = Joined(e, p) \o Joined(e, q)
  BY <1>1, JoinedFacts
<1>6. /\ Stream(<< >>) = << >>
      /\ \A p \in Seq(D) : Stream(p) \in Seq(Nat)
      /\ \A s \in D : Stream(<<s>>) = Packed(s)
      /\ \A p, q \in Seq(D) : Stream(p \o q) = Stream(p) \o Stream(q)
  BY <1>2, <1>3, <1>4, <1>5, ZenonT(30)
<1> QED BY <1>6 DEF D

(* A packet sent goes to the end of the stream, the next comes from its     *)
(* front.                                                                   *)
LEMMA StreamAppend ==
    ASSUME NEW p \in Seq(Seq(Values)), NEW s \in Seq(Values)
    PROVE  Stream(Append(p, s)) = Stream(p) \o Packed(s)
<1> DEFINE D == Seq(Values)
<1>1. p \in Seq(D) /\ s \in D
  OBVIOUS
<1> HIDE DEF D
<1>2. Append(p, s) = p \o <<s>> /\ <<s>> \in Seq(D)
  BY <1>1, AppendIsConcat
<1> QED BY <1>1, <1>2, StreamFacts DEF D

LEMMA StreamFirst ==
    ASSUME NEW p \in Seq(Seq(Values)), p # << >>
    PROVE  /\ Head(p) \in Seq(Values) /\ Tail(p) \in Seq(Seq(Values))
           /\ Stream(p) = Packed(Head(p)) \o Stream(Tail(p))
<1> DEFINE D == Seq(Values)
<1>1. p \in Seq(D)
  OBVIOUS
<1> HIDE DEF D
<1>2. Head(p) \in D /\ Tail(p) \in Seq(D) /\ <<Head(p)>> \in Seq(D)
  BY <1>1
<1>3. p = <<Head(p)>> \o Tail(p)
  BY <1>1, <1>2
<1>4. Stream(<<Head(p)>> \o Tail(p)) = Stream(<<Head(p)>>) \o Stream(Tail(p))
  BY <1>2, StreamFacts DEF D
<1>5. Stream(<<Head(p)>>) = Packed(Head(p))
  BY <1>2, StreamFacts DEF D
<1> QED BY <1>2, <1>3, <1>4, <1>5 DEF D

-----------------------------------------------------------------------------
(* The buffer of a packet.                                                  *)

Buffers == [0..(Capacity - 1) -> Nat]

Packets == [buffer : Buffers, read : Nat, size : Nat, write : Nat]

(* The bytes are in the buffer from an index on.                            *)
Found(buffer, at, bytes) == \A i \in 1..Len(bytes) : buffer[at + i - 1] = bytes[i]

(* Bytes that are placed are found, and nothing else changes.               *)
LEMMA PlaceFacts ==
    ASSUME NEW buffer \in Buffers, NEW at \in Nat, NEW bytes \in Seq(Nat),
           at + Len(bytes) <= Capacity
    PROVE  /\ Place(buffer, at, bytes) \in Buffers
           /\ Found(Place(buffer, at, bytes), at, bytes)
           /\ \A j \in 0..(Capacity - 1) :
                 j < at \/ j >= at + Len(bytes) => Place(buffer, at, bytes)[j] = buffer[j]
<1> DEFINE b == Place(buffer, at, bytes)
           n == Len(bytes)
<1>1. n \in Nat /\ Capacity \in Nat /\ \A i \in 1..n : bytes[i] \in Nat
  BY ConstantFacts
<1>2. b = [j \in 0..(Capacity - 1) |-> IF j >= at /\ j < at + n THEN bytes[j - at + 1] ELSE buffer[j]]
  BY DEF Place, Buffers
<1> HIDE DEF b, n
<1>3. ASSUME NEW j \in 0..(Capacity - 1) PROVE b[j] \in Nat
  <2>1. CASE j >= at /\ j < at + n
    <3>1. j - at + 1 \in 1..n
      BY <1>1, <2>1
    <3> QED BY <1>1, <1>2, <2>1, <3>1
  <2>2. CASE ~(j >= at /\ j < at + n)
    BY <1>2, <2>2 DEF Buffers
  <2> QED BY <2>1, <2>2
<1>4. b \in Buffers
  BY <1>2, <1>3 DEF Buffers
<1>5. ASSUME NEW i \in 1..n PROVE b[at + i - 1] = bytes[i]
  <2>1. /\ at + i - 1 \in 0..(Capacity - 1) /\ at + i - 1 >= at /\ at + i - 1 < at + n
        /\ (at + i - 1) - at + 1 = i
    BY <1>1 DEF n
  <2> QED BY <1>2, <2>1
<1>6. \A j \in 0..(Capacity - 1) : j < at \/ j >= at + n => b[j] = buffer[j]
  BY <1>1, <1>2
<1> QED BY <1>4, <1>5, <1>6 DEF Found, b, n

(* What is elsewhere in the buffer stays there.                             *)
LEMMA PlaceKeeps ==
    ASSUME NEW buffer \in Buffers, NEW at \in Nat, NEW bytes \in Seq(Nat),
           at + Len(bytes) <= Capacity,
           NEW from \in Nat, NEW s \in Seq(Nat), from + Len(s) <= Capacity,
           from + Len(s) <= at \/ at + Len(bytes) <= from,
           Found(buffer, from, s)
    PROVE  Found(Place(buffer, at, bytes), from, s)
<1> SUFFICES ASSUME NEW i \in 1..Len(s)
             PROVE  Place(buffer, at, bytes)[from + i - 1] = s[i]
  BY DEF Found
<1>1. Len(s) \in Nat /\ Len(bytes) \in Nat /\ Capacity \in Nat
  BY ConstantFacts
<1>2. from + i - 1 \in 0..(Capacity - 1)
      /\ (from + i - 1 < at \/ from + i - 1 >= at + Len(bytes))
  BY <1>1
<1>3. Place(buffer, at, bytes)[from + i - 1] = buffer[from + i - 1]
  BY <1>2, PlaceFacts
<1>4. buffer[from + i - 1] = s[i]
  BY DEF Found
<1> QED BY <1>3, <1>4

(* operator<< within the buffer: the cursor is not reduced.                 *)
LEMMA PutBytesFacts ==
    ASSUME NEW p \in Packets, NEW bytes \in Seq(Nat), p.write + Len(bytes) <= Capacity
    PROVE  /\ PutBytes(p, bytes) \in Packets
           /\ PutBytes(p, bytes).buffer = Place(p.buffer, p.write, bytes)
           /\ PutBytes(p, bytes).write = p.write + Len(bytes)
<1>1. /\ p.buffer \in Buffers /\ p.write \in Nat /\ p.read \in Nat /\ p.size \in Nat
      /\ p = [buffer |-> p.buffer, read |-> p.read, size |-> p.size, write |-> p.write]
  BY DEF Packets
<1>2. Place(p.buffer, p.write, bytes) \in Buffers
  BY <1>1, PlaceFacts
<1>3. p.write + Len(bytes) \in Nat /\ p.write + Len(bytes) < Word
  <2>1. Word \in Nat
    BY DEF Word
  <2> QED BY <1>1, <2>1, ConstantFacts
<1>4. (p.write + Len(bytes)) % Word = p.write + Len(bytes)
  BY <1>3, FitsWord
<1>5. PutBytes(p, bytes) = [buffer |-> Place(p.buffer, p.write, bytes), read |-> p.read,
                            size |-> p.size, write |-> p.write + Len(bytes)]
  <2> DEFINE b == Place(p.buffer, p.write, bytes)
             w == (p.write + Len(bytes)) % Word
  <2>1. PutBytes(p, bytes) = [p EXCEPT !.buffer = b, !.write = w]
    BY DEF PutBytes
  <2> HIDE DEF b, w
  <2>2. [p EXCEPT !.buffer = b, !.write = w]
        = [buffer |-> b, read |-> p.read, size |-> p.size, write |-> w]
    <3> DEFINE q == [p EXCEPT !.buffer = b]
    <3>1. q \in Packets /\ q.buffer = b /\ q.read = p.read /\ q.size = p.size
      BY <1>2 DEF Packets, b
    <3> HIDE DEF q
    <3>2. [q EXCEPT !.write = w]
          = [buffer |-> b, read |-> p.read, size |-> p.size, write |-> w]
      BY <3>1 DEF Packets
    <3> QED BY <3>2 DEF q
  <2> QED BY <1>4, <2>1, <2>2 DEF b, w
<1> QED BY <1>1, <1>2, <1>3, <1>5 DEF Packets

(* The same for recvBuffer and addSize.                                     *)
LEMMA ReceiveFacts ==
    ASSUME NEW p \in Packets, NEW bytes \in Seq(Nat), p.size + Len(bytes) <= Capacity
    PROVE  /\ Receive(p, bytes) \in Packets
           /\ Receive(p, bytes) = [buffer |-> Place(p.buffer, p.size, bytes), read |-> p.read,
                                   size |-> p.size + Len(bytes), write |-> p.write]
<1>1. /\ p.buffer \in Buffers /\ p.write \in Nat /\ p.read \in Nat /\ p.size \in Nat
      /\ p = [buffer |-> p.buffer, read |-> p.read, size |-> p.size, write |-> p.write]
  BY DEF Packets
<1>2. Place(p.buffer, p.size, bytes) \in Buffers
  BY <1>1, PlaceFacts
<1>3. p.size + Len(bytes) \in Nat /\ p.size + Len(bytes) < Word
  <2>1. Word \in Nat
    BY DEF Word
  <2> QED BY <1>1, <2>1, ConstantFacts
<1>4. (p.size + Len(bytes)) % Word = p.size + Len(bytes)
  BY <1>3, FitsWord
<1>5. Receive(p, bytes) = [buffer |-> Place(p.buffer, p.size, bytes), read |-> p.read,
                           size |-> p.size + Len(bytes), write |-> p.write]
  <2> DEFINE b == Place(p.buffer, p.size, bytes)
             w == (p.size + Len(bytes)) % Word
  <2>1. Receive(p, bytes) = [p EXCEPT !.buffer = b, !.size = w]
    BY DEF Receive
  <2> HIDE DEF b, w
  <2>2. [p EXCEPT !.buffer = b, !.size = w]
        = [buffer |-> b, read |-> p.read, size |-> w, write |-> p.write]
    <3> DEFINE q == [p EXCEPT !.buffer = b]
    <3>1. q \in Packets /\ q.buffer = b /\ q.read = p.read /\ q.write = p.write
      BY <1>2 DEF Packets, b
    <3> HIDE DEF q
    <3>2. [q EXCEPT !.size = w]
          = [buffer |-> b, read |-> p.read, size |-> w, write |-> p.write]
      BY <3>1 DEF Packets
    <3> QED BY <3>2 DEF q
  <2> QED BY <1>4, <2>1, <2>2 DEF b, w
<1> QED BY <1>1, <1>2, <1>3, <1>5 DEF Packets

(* A new packet.                                                            *)
LEMMA EmptyFacts ==
    Empty \in Packets /\ Empty.read = 0 /\ Empty.size = 0 /\ Empty.write = 0
<1>1. [i \in 0..(Capacity - 1) |-> 0] \in Buffers
  BY DEF Buffers
<1> QED BY <1>1 DEF Empty, Packets

(* A packet that is written holds the opcode and the bytes of the values.   *)
HoldsValues(p, s) ==
    /\ p \in Packets
    /\ p.write = 4 + Len(Body(s)) /\ p.write <= Capacity
    /\ Found(p.buffer, 0, U16(Opcode)) /\ Found(p.buffer, 4, Body(s))

(* Packet::create leaves the opcode and room for the length.                *)
LEMMA CreateHolds == HoldsValues(Create(Opcode), << >>)
<1> DEFINE op == U16(Opcode)
           zero == U16(0)
           p == PutBytes(Empty, op)
           q == PutBytes(p, zero)
<1>1. op \in Seq(Nat) /\ Len(op) = 2 /\ zero \in Seq(Nat) /\ Len(zero) = 2
  BY U16Facts, ConstantFacts
<1> HIDE DEF op, zero
<1>2. Capacity \in Nat /\ 4 <= Capacity /\ Empty.buffer \in Buffers
  BY ConstantFacts, EmptyFacts DEF Packets
<1>3. p \in Packets /\ p.write = 2 /\ p.buffer = Place(Empty.buffer, 0, op)
  <2>1. Empty \in Packets /\ Empty.write = 0 /\ Empty.write + Len(op) <= Capacity
        /\ Empty.write + Len(op) = 2
    BY <1>1, <1>2, EmptyFacts
  <2>2. /\ p \in Packets /\ p.buffer = Place(Empty.buffer, Empty.write, op)
        /\ p.write = Empty.write + Len(op)
    BY <1>1, <2>1, PutBytesFacts
  <2> HIDE DEF p
  <2> QED BY <2>1, <2>2
<1>4. p.buffer \in Buffers /\ Found(p.buffer, 0, op)
  <2>1. 0 \in Nat /\ 0 + Len(op) <= Capacity
    BY <1>1, <1>2
  <2>2. /\ Place(Empty.buffer, 0, op) \in Buffers
        /\ Found(Place(Empty.buffer, 0, op), 0, op)
    BY <1>1, <1>2, <2>1, PlaceFacts
  <2> HIDE DEF p
  <2> QED BY <1>3, <2>2
<1> HIDE DEF p
<1>5. q \in Packets /\ q.write = 4 /\ q.buffer = Place(p.buffer, 2, zero)
  <2>1. p.write + Len(zero) <= Capacity /\ p.write + Len(zero) = 4
    BY <1>1, <1>2, <1>3
  <2>2. /\ q \in Packets /\ q.buffer = Place(p.buffer, p.write, zero)
        /\ q.write = p.write + Len(zero)
    BY <1>1, <1>3, <2>1, PutBytesFacts
  <2> HIDE DEF q
  <2> QED BY <1>3, <2>1, <2>2
<1> HIDE DEF q
<1>6. Found(q.buffer, 0, op)
  <2>1. /\ 0 \in Nat /\ 2 \in Nat /\ 2 + Len(zero) <= Capacity
        /\ 0 + Len(op) <= Capacity /\ 0 + Len(op) <= 2
    BY <1>1, <1>2
  <2>2. Found(Place(p.buffer, 2, zero), 0, op)
    BY <1>1, <1>4, <2>1, PlaceKeeps
  <2> QED BY <1>5, <2>2
<1>7. Body(<< >>) = << >> /\ Len(<< >>) = 0 /\ Found(q.buffer, 4, << >>)
  BY BodyFacts DEF Found
<1>8. Create(Opcode) = q
  BY DEF Create, p, q, op, zero
<1> QED BY <1>2, <1>5, <1>6, <1>7, <1>8 DEF HoldsValues, op

(* Bytes that follow those of s make the packet hold t.                     *)
LEMMA PutHolds ==
    ASSUME NEW s \in Seq(Values), NEW t \in Seq(Values), NEW bytes \in Seq(Nat),
           Body(t) = Body(s) \o bytes, NEW p, HoldsValues(p, s),
           p.write + Len(bytes) <= Capacity
    PROVE  HoldsValues(PutBytes(p, bytes), t)
<1> DEFINE q == PutBytes(p, bytes)
           op == U16(Opcode)
<1>1. op \in Seq(Nat) /\ Len(op) = 2 /\ Capacity \in Nat /\ 4 <= Capacity
  BY U16Facts, ConstantFacts
<1>2. /\ p \in Packets /\ p.buffer \in Buffers /\ p.write = 4 + Len(Body(s))
      /\ Found(p.buffer, 0, op) /\ Found(p.buffer, 4, Body(s))
  BY DEF HoldsValues, Packets
<1>3. Body(s) \in Seq(Nat) /\ Len(Body(s)) \in Nat /\ Body(t) \in Seq(Nat) /\ Len(bytes) \in Nat
  BY BodyFacts
<1>4. /\ q \in Packets /\ q.buffer = Place(p.buffer, p.write, bytes)
      /\ q.write = p.write + Len(bytes)
  BY <1>2, PutBytesFacts
<1> HIDE DEF op, q
<1>5. /\ Len(Body(t)) = Len(Body(s)) + Len(bytes)
      /\ \A i \in 1..(Len(Body(s)) + Len(bytes)) :
            Body(t)[i] = IF i <= Len(Body(s)) THEN Body(s)[i] ELSE bytes[i - Len(Body(s))]
  BY <1>3, ConcatProperties
<1>6. p.write \in Nat /\ q.write = 4 + Len(Body(t)) /\ q.write <= Capacity
  BY <1>2, <1>3, <1>4, <1>5
<1>7. Found(q.buffer, 0, op)
  <2>1. 0 \in Nat /\ 0 + Len(op) <= Capacity /\ 0 + Len(op) <= p.write
    BY <1>1, <1>2, <1>3
  <2> QED BY <1>1, <1>2, <1>4, <1>6, <2>1, PlaceKeeps
<1>8. Found(q.buffer, 4, Body(s))
  <2>1. 4 \in Nat /\ 4 + Len(Body(s)) <= Capacity /\ 4 + Len(Body(s)) <= p.write
    BY <1>1, <1>2, <1>3, <1>6
  <2> QED BY <1>2, <1>3, <1>4, <1>6, <2>1, PlaceKeeps
<1>9. Found(q.buffer, p.write, bytes)
  BY <1>2, <1>4, <1>6, PlaceFacts
<1>10. ASSUME NEW i \in 1..Len(Body(t)) PROVE q.buffer[4 + i - 1] = Body(t)[i]
  <2>1. CASE i <= Len(Body(s))
    <3>1. i \in 1..Len(Body(s)) /\ i \in 1..(Len(Body(s)) + Len(bytes))
      BY <1>3, <1>5, <2>1
    <3> QED BY <1>5, <1>8, <2>1, <3>1 DEF Found
  <2>2. CASE ~(i <= Len(Body(s)))
    <3> DEFINE j == i - Len(Body(s))
    <3>1. j \in 1..Len(bytes) /\ i \in 1..(Len(Body(s)) + Len(bytes))
          /\ p.write + j - 1 = 4 + i - 1
      BY <1>2, <1>3, <1>5, <2>2
    <3>2. Body(t)[i] = bytes[j]
      BY <1>5, <2>2, <3>1
    <3>3. q.buffer[p.write + j - 1] = bytes[j]
      BY <1>9, <3>1 DEF Found
    <3> QED BY <3>1, <3>2, <3>3
  <2> QED BY <2>1, <2>2
<1>11. HoldsValues(q, t)
  BY <1>4, <1>6, <1>7, <1>10 DEF HoldsValues, Found, op
<1> QED BY <1>11 DEF q

(* sendBuffer hands out the packet of the values.                           *)
LEMMA SendHolds ==
    ASSUME NEW s \in Seq(Values), NEW p, HoldsValues(p, s)
    PROVE  SendBytes(p) = Packed(s)
<1> DEFINE n == Len(Body(s))
           len == U16(n)
           op == U16(Opcode)
           b == Place(p.buffer, 2, len)
           q == FillLength(p)
<1>1. Body(s) \in Seq(Nat) /\ n \in Nat
  BY BodyFacts
<1>2. op \in Seq(Nat) /\ Len(op) = 2 /\ len \in Seq(Nat) /\ Len(len) = 2
      /\ Capacity \in Nat /\ 4 <= Capacity
  BY <1>1, U16Facts, ConstantFacts
<1>3. /\ p \in Packets /\ p.buffer \in Buffers /\ p.write = 4 + n /\ p.write <= Capacity
      /\ Found(p.buffer, 0, op) /\ Found(p.buffer, 4, Body(s))
  BY DEF HoldsValues, Packets
<1>4. (p.write - 4) % Word = n
  <2>1. Word \in Nat
    BY DEF Word
  <2>2. p.write - 4 = n /\ n < Word
    BY <1>1, <1>3, <2>1, ConstantFacts
  <2> QED BY <1>1, <2>2, FitsWord
<1>5. q.buffer = b
  BY <1>3, <1>4 DEF FillLength, Packets
<1> HIDE DEF len, op, n, b
<1> HIDE DEF q
<1>6. b \in Buffers /\ Found(b, 2, len)
  <2>1. 2 \in Nat /\ 2 + Len(len) <= Capacity
    BY <1>2
  <2> QED BY <1>2, <1>3, <2>1, PlaceFacts DEF b
<1>7. Found(b, 0, op)
  <2>1. /\ 0 \in Nat /\ 2 \in Nat /\ 2 + Len(len) <= Capacity
        /\ 0 + Len(op) <= Capacity /\ 0 + Len(op) <= 2
    BY <1>2
  <2> QED BY <1>2, <1>3, <2>1, PlaceKeeps DEF b
<1>8. Found(b, 4, Body(s))
  <2>1. /\ 4 \in Nat /\ 2 \in Nat /\ 2 + Len(len) <= Capacity
        /\ 4 + Len(Body(s)) <= Capacity /\ 2 + Len(len) <= 4
    BY <1>2, <1>3 DEF n
  <2> QED BY <1>1, <1>2, <1>3, <2>1, PlaceKeeps DEF b
<1>9. SendBytes(p) = [i \in 1..(4 + n) |-> b[i - 1]]
  <2>1. SendBytes(p) = [i \in 1..(p.write - 0) |-> q.buffer[0 + i - 1]]
    BY DEF SendBytes, Bytes, q
  <2>2. p.write - 0 = 4 + n /\ \A i \in 1..(4 + n) : 0 + i - 1 = i - 1
    BY <1>1, <1>3
  <2> QED BY <1>5, <2>1, <2>2
<1>10. /\ Packed(s) \in Seq(Nat) /\ Len(Packed(s)) = 4 + n
       /\ Packed(s)[1] = op[1] /\ Packed(s)[2] = op[2]
       /\ Packed(s)[3] = len[1] /\ Packed(s)[4] = len[2]
       /\ \A i \in 1..n : Packed(s)[4 + i] = Body(s)[i]
  BY PackedFacts DEF op, len, n
<1>11. b[0] = op[1] /\ b[1] = op[2] /\ b[2] = len[1] /\ b[3] = len[2]
  <2>1. b[0 + 1 - 1] = op[1] /\ b[0 + 2 - 1] = op[2] /\ b[2 + 1 - 1] = len[1] /\ b[2 + 2 - 1] = len[2]
    BY <1>2, <1>6, <1>7 DEF Found
  <2> QED BY <2>1
<1>12. ASSUME NEW i \in 1..(4 + n) PROVE b[i - 1] = Packed(s)[i]
  <2>1. CASE i \in {1, 2, 3, 4}
    BY <1>10, <1>11, <2>1
  <2>2. CASE i \notin {1, 2, 3, 4}
    <3>1. i - 4 \in 1..n /\ 4 + (i - 4) = i /\ 4 + (i - 4) - 1 = i - 1
      BY <1>1, <2>2
    <3>2. b[4 + (i - 4) - 1] = Body(s)[i - 4]
      BY <1>8, <3>1 DEF Found, n
    <3>3. Packed(s)[4 + (i - 4)] = Body(s)[i - 4]
      BY <1>10, <3>1
    <3> QED BY <3>1, <3>2, <3>3
  <2> QED BY <2>1, <2>2
<1>13. Packed(s) = [i \in 1..(4 + n) |-> Packed(s)[i]]
  BY <1>10
<1> QED BY <1>9, <1>12, <1>13

-----------------------------------------------------------------------------
(* Taking packets off the wire.                                             *)

(* A read of as many bytes as were sent first takes exactly those.          *)
LEMMA SplitConcat ==
    ASSUME NEW a \in Seq(Nat), NEW b \in Seq(Nat)
    PROVE  /\ a \o b \in Seq(Nat) /\ Len(a \o b) = Len(a) + Len(b)
           /\ SubSeq(a \o b, 1, Len(a)) = a
           /\ SubSeq(a \o b, Len(a) + 1, Len(a \o b)) = b
<1> DEFINE w == a \o b
           m == Len(a)
           n == Len(b)
           u == SubSeq(w, 1, m)
           v == SubSeq(w, m + 1, m + n)
<1>1. m \in Nat /\ n \in Nat
  OBVIOUS
<1>2. /\ w \in Seq(Nat) /\ Len(w) = m + n
      /\ \A i \in 1..(m + n) : w[i] = IF i <= m THEN a[i] ELSE b[i - m]
  BY ConcatProperties
<1> HIDE DEF w
<1>3. \A i \in 1..(m + n) : w[i] \in Nat
  BY <1>1, <1>2
<1>4. u = a
  <2>1. 1 \in Int /\ m \in Int /\ \A i \in 1..m : w[i] \in Nat
    BY <1>1, <1>3
  <2>2. /\ u \in Seq(Nat) /\ Len(u) = IF 1 <= m THEN m - 1 + 1 ELSE 0
        /\ \A i \in 1..(m - 1 + 1) : u[i] = w[1 + i - 1]
    BY <2>1, SubSeqProperties
  <2> HIDE DEF u
  <2>3. Len(u) = m /\ m - 1 + 1 = m /\ \A i \in 1..m : 1 + i - 1 = i
    BY <1>1, <2>2
  <2>4. \A i \in 1..m : w[i] = a[i]
    BY <1>1, <1>2
  <2>5. \A i \in 1..Len(u) : u[i] = a[i]
    BY <2>2, <2>3, <2>4
  <2> QED BY <2>2, <2>3, <2>5, SeqEqual
<1>5. v = b
  <2>1. m + 1 \in Int /\ m + n \in Int /\ \A i \in (m + 1)..(m + n) : w[i] \in Nat
    BY <1>1, <1>3
  <2>2. /\ v \in Seq(Nat) /\ Len(v) = IF m + 1 <= m + n THEN (m + n) - (m + 1) + 1 ELSE 0
        /\ \A i \in 1..((m + n) - (m + 1) + 1) : v[i] = w[(m + 1) + i - 1]
    BY <2>1, SubSeqProperties
  <2> HIDE DEF v
  <2>3. Len(v) = n /\ (m + n) - (m + 1) + 1 = n /\ \A i \in 1..n : (m + 1) + i - 1 = m + i
    BY <1>1, <2>2
  <2>4. \A i \in 1..n : w[m + i] = b[i]
    <3> TAKE i \in 1..n
    <3>1. m + i \in 1..(m + n) /\ ~(m + i <= m) /\ (m + i) - m = i
      BY <1>1
    <3> QED BY <1>2, <3>1
  <2>5. \A i \in 1..Len(v) : v[i] = b[i]
    BY <2>2, <2>3, <2>4
  <2> QED BY <2>2, <2>3, <2>5, SeqEqual
<1> QED BY <1>2, <1>4, <1>5 DEF w

Header(s) == U16(Opcode) \o U16(Len(Body(s)))

(* The header is four bytes and ends in the length of the body.             *)
LEMMA HeaderFacts ==
    ASSUME NEW s \in Seq(Values)
    PROVE  /\ Header(s) \in Seq(Nat) /\ Len(Header(s)) = 4
           /\ Header(s)[3] = U16(Len(Body(s)))[1] /\ Header(s)[4] = U16(Len(Body(s)))[2]
           /\ Packed(s) = Header(s) \o Body(s)
<1> DEFINE op == U16(Opcode)
           len == U16(Len(Body(s)))
<1>1. op \in Seq(Nat) /\ Len(op) = 2
  BY U16Facts, ConstantFacts
<1>2. len \in Seq(Nat) /\ Len(len) = 2
  <2>1. Len(Body(s)) \in Nat
    BY BodyFacts
  <2> QED BY <2>1, U16Facts
<1>3. Packed(s) = Header(s) \o Body(s)
  BY DEF Packed, Header
<1>4. Header(s) = op \o len
  BY DEF Header
<1> HIDE DEF op, len
<1>5. /\ op \o len \in Seq(Nat) /\ Len(op \o len) = Len(op) + Len(len)
      /\ \A i \in 1..(Len(op) + Len(len)) :
            (op \o len)[i] = IF i <= Len(op) THEN op[i] ELSE len[i - Len(op)]
  BY <1>1, <1>2, ConcatProperties
<1>6. /\ Header(s) \in Seq(Nat) /\ Len(Header(s)) = 4
      /\ \A i \in 1..4 : Header(s)[i] = IF i <= 2 THEN op[i] ELSE len[i - 2]
  BY <1>1, <1>2, <1>4, <1>5
<1>7. Header(s)[3] = len[1] /\ Header(s)[4] = len[2]
  BY <1>6
<1> QED BY <1>3, <1>6, <1>7 DEF len

(* The first four bytes of the stream are the header of the next packet.    *)
LEMMA HeaderSplit ==
    ASSUME NEW s \in Seq(Values), NEW rest \in Seq(Nat)
    PROVE  /\ SubSeq(Packed(s) \o rest, 1, 4) = Header(s)
           /\ SubSeq(Packed(s) \o rest, 5, Len(Packed(s) \o rest)) = Body(s) \o rest
<1> DEFINE h == Header(s)
           b == Body(s)
           c == b \o rest
<1>1. h \in Seq(Nat) /\ Len(h) = 4 /\ b \in Seq(Nat)
  BY HeaderFacts, BodyFacts
<1>2. Packed(s) = h \o b
  BY HeaderFacts
<1> HIDE DEF h, b
<1>3. c \in Seq(Nat)
  BY <1>1, SplitConcat
<1>4. (h \o b) \o rest = h \o c
  BY <1>1, ConcatThree
<1> HIDE DEF c
<1>5. /\ SubSeq(h \o c, 1, Len(h)) = h
      /\ SubSeq(h \o c, Len(h) + 1, Len(h \o c)) = c
  BY <1>1, <1>3, SplitConcat
<1>6. Len(h) + 1 = 5
  BY <1>1
<1> QED BY <1>1, <1>2, <1>4, <1>5, <1>6 DEF h, b, c

(* Packet::reset keeps the bytes and clears the cursors.                    *)
LEMMA ResetFacts ==
    ASSUME NEW p \in Packets
    PROVE  /\ Reset(p) \in Packets /\ Reset(p).buffer = p.buffer
           /\ Reset(p).read = 0 /\ Reset(p).size = 0 /\ Reset(p).write = 0
<1> DEFINE q == [p EXCEPT !.read = 0]
           r == [q EXCEPT !.size = 0]
           t == [r EXCEPT !.write = 0]
<1>1. q \in Packets /\ q.buffer = p.buffer /\ q.read = 0
  BY DEF Packets
<1> HIDE DEF q
<1>2. r \in Packets /\ r.buffer = p.buffer /\ r.read = 0 /\ r.size = 0
  BY <1>1 DEF Packets
<1> HIDE DEF r
<1>3. t \in Packets /\ t.buffer = p.buffer /\ t.read = 0 /\ t.size = 0 /\ t.write = 0
  BY <1>2 DEF Packets
<1>4. Reset(p) = t
  BY DEF Reset, q, r
<1> QED BY <1>3, <1>4

(* A header overwrites what an earlier packet left, from the start.         *)
LEMMA HeaderReceived ==
    ASSUME NEW p \in Packets, NEW s \in Seq(Values)
    PROVE  LET q == Receive(Reset(p), Header(s))
           IN  /\ q \in Packets /\ q.read = 0 /\ q.size = 4 /\ q.write = 0
               /\ Found(q.buffer, 2, U16(Len(Body(s))))
<1> DEFINE h == Header(s)
           len == U16(Len(Body(s)))
           r == Reset(p)
           q == Receive(r, h)
<1>1. h \in Seq(Nat) /\ Len(h) = 4 /\ h[3] = len[1] /\ h[4] = len[2]
  BY HeaderFacts
<1>2. r \in Packets /\ r.buffer \in Buffers /\ r.read = 0 /\ r.size = 0 /\ r.write = 0
  BY ResetFacts DEF Packets
<1>3. Len(len) = 2
  <2>1. Len(Body(s)) \in Nat
    BY BodyFacts
  <2> QED BY <2>1, U16Facts
<1> HIDE DEF h, r, len
<1>4. 0 \in Nat /\ r.size + Len(h) <= Capacity /\ 0 + Len(h) <= Capacity /\ r.size + Len(h) = 4
  BY <1>1, <1>2, ConstantFacts
<1>5. q \in Packets /\ q = [buffer |-> Place(r.buffer, r.size, h), read |-> r.read,
                            size |-> r.size + Len(h), write |-> r.write]
  BY <1>1, <1>2, <1>4, ReceiveFacts
<1> HIDE DEF q
<1>6. q.buffer = Place(r.buffer, 0, h) /\ q.read = 0 /\ q.size = 4 /\ q.write = 0
  BY <1>2, <1>4, <1>5
<1>7. Found(q.buffer, 0, h)
  BY <1>1, <1>2, <1>4, <1>6, PlaceFacts
<1>8. q.buffer[0 + 3 - 1] = h[3] /\ q.buffer[0 + 4 - 1] = h[4]
  BY <1>1, <1>7 DEF Found
<1>9. q.buffer[2 + 1 - 1] = len[1] /\ q.buffer[2 + 2 - 1] = len[2]
  BY <1>1, <1>8
<1>10. Found(q.buffer, 2, len)
  BY <1>3, <1>9 DEF Found
<1> QED BY <1>5, <1>6, <1>10 DEF q, r, h, len

(* A length placed in a buffer is read as it was.                           *)
LEMMA LengthFound ==
    ASSUME NEW p \in Packets, NEW n \in Nat, NEW from \in Nat, Found(p.buffer, from, U16(n))
    PROVE  FromU16(Peek(p, from, 2)) = n
<1>1. Len(U16(n)) = 2 /\ U16(n)[1] + 256 * U16(n)[2] = n
  BY U16Facts
<1>2. p.buffer[from + 1 - 1] = U16(n)[1] /\ p.buffer[from + 2 - 1] = U16(n)[2]
  BY <1>1 DEF Found
<1>3. from + 2 - from = 2
  OBVIOUS
<1>4. Peek(p, from, 2) = [i \in 1..2 |-> p.buffer[from + i - 1]]
  BY <1>3 DEF Peek, Bytes
<1>5. Peek(p, from, 2)[1] = U16(n)[1] /\ Peek(p, from, 2)[2] = U16(n)[2]
  BY <1>2, <1>4
<1> QED BY <1>1, <1>5 DEF FromU16

(* The body goes after the header.                                          *)
LEMMA BodyReceived ==
    ASSUME NEW p \in Packets, NEW b \in Seq(Nat), p.size = 4, 4 + Len(b) <= Capacity
    PROVE  LET q == [Receive(p, b) EXCEPT !.read = 4]
           IN  /\ q \in Packets /\ q.read = 4 /\ q.size = 4 + Len(b) /\ q.write = p.write
               /\ Found(q.buffer, 4, b)
<1> DEFINE r == Receive(p, b)
           q == [r EXCEPT !.read = 4]
<1>1. p.buffer \in Buffers /\ 4 \in Nat
  BY DEF Packets
<1>2. r \in Packets /\ r = [buffer |-> Place(p.buffer, p.size, b), read |-> p.read,
                            size |-> p.size + Len(b), write |-> p.write]
  BY ReceiveFacts
<1> HIDE DEF r
<1>3. r.buffer = Place(p.buffer, 4, b) /\ r.size = 4 + Len(b) /\ r.write = p.write
  BY <1>2
<1>4. Found(r.buffer, 4, b)
  BY <1>1, <1>3, PlaceFacts
<1>5. q \in Packets /\ q.read = 4 /\ q.buffer = r.buffer /\ q.size = r.size /\ q.write = r.write
  BY <1>2 DEF Packets
<1> HIDE DEF q
<1> QED BY <1>3, <1>4, <1>5 DEF q, r

-----------------------------------------------------------------------------
(* Reading and relaying a packet.                                           *)

(* Bytes found in the buffer are what is taken from there.                  *)
LEMMA BytesFound ==
    ASSUME NEW p, NEW from \in Nat, NEW to \in Nat, NEW b \in Seq(Nat),
           to = from + Len(b), Found(p.buffer, from, b)
    PROVE  Bytes(p, from, to) = b
<1>1. to - from = Len(b) /\ b = [i \in 1..Len(b) |-> b[i]]
  OBVIOUS
<1>2. Bytes(p, from, to) = [i \in 1..Len(b) |-> p.buffer[from + i - 1]]
  BY <1>1 DEF Bytes
<1>3. \A i \in 1..Len(b) : p.buffer[from + i - 1] = b[i]
  BY DEF Found
<1> QED BY <1>1, <1>2, <1>3

(* A packet that was received: a read is bounded by what it has received.   *)
Readable(p) == p \in Packets /\ p.write = 0 /\ p.read <= p.size /\ p.size <= Capacity

(* A read throws exactly when it would pass what was received.              *)
LEMMA ReadBytesFacts ==
    ASSUME NEW p, Readable(p), NEW type, NEW n \in Nat
    PROVE  /\ p.read + n > p.size => ReadBytes(p, type, n) = Thrown(p)
           /\ p.read + n <= p.size =>
                 ReadBytes(p, type, n) = [packet |-> [p EXCEPT !.read = p.read + n],
                                          value |-> [type |-> type, bytes |-> Peek(p, p.read, n)],
                                          threw |-> FALSE]
<1>1. /\ p \in Packets /\ p.write = 0 /\ p.read \in Nat /\ p.size \in Nat
      /\ p.read <= p.size /\ p.size <= Capacity
  BY DEF Readable, Packets
<1>2. BufferLen(p) = p.size
  BY <1>1 DEF BufferLen
<1>3. ASSUME p.read + n > p.size PROVE ReadBytes(p, type, n) = Thrown(p)
  <2>1. ~InBounds(p, p.read, n)
    BY <1>1, <1>2, <1>3 DEF InBounds
  <2> QED BY <2>1 DEF ReadBytes
<1>4. ASSUME p.read + n <= p.size
      PROVE  ReadBytes(p, type, n) = [packet |-> [p EXCEPT !.read = p.read + n],
                                      value |-> [type |-> type, bytes |-> Peek(p, p.read, n)],
                                      threw |-> FALSE]
  <2>1. InBounds(p, p.read, n)
    BY <1>2, <1>4 DEF InBounds
  <2>2. p.read + n \in Nat /\ p.read + n < Word
    <3>1. Word \in Nat
      BY DEF Word
    <3> QED BY <1>1, <1>4, <3>1, ConstantFacts
  <2>3. (p.read + n) % Word = p.read + n
    BY <2>2, FitsWord
  <2>4. [p EXCEPT !.read = (@ + n) % Word] = [p EXCEPT !.read = p.read + n]
    BY <1>1, <2>3
  <2> QED BY <2>1, <2>4 DEF ReadBytes
<1> QED BY <1>3, <1>4

(* Only the cursor moves, and not past what was received.                   *)
Advanced(p, q) ==
    /\ q \in Packets /\ q.buffer = p.buffer /\ q.size = p.size /\ q.write = p.write
    /\ p.read <= q.read /\ q.read <= p.size

LEMMA AdvanceFacts ==
    ASSUME NEW p, Readable(p), NEW n \in Nat, p.read + n <= p.size
    PROVE  /\ Advanced(p, [p EXCEPT !.read = p.read + n])
           /\ [p EXCEPT !.read = p.read + n].read = p.read + n
           /\ Readable([p EXCEPT !.read = p.read + n])
<1> DEFINE q == [p EXCEPT !.read = p.read + n]
<1>1. /\ p \in Packets /\ p.write = 0 /\ p.read \in Nat /\ p.size \in Nat
      /\ p.read <= p.size /\ p.size <= Capacity
  BY DEF Readable, Packets
<1>2. p.read + n \in Nat
  BY <1>1
<1>3. q \in Packets /\ q.buffer = p.buffer /\ q.size = p.size /\ q.write = p.write
      /\ q.read = p.read + n
  BY <1>1, <1>2 DEF Packets
<1> HIDE DEF q
<1>4. Advanced(p, q) /\ q.read = p.read + n /\ Readable(q)
  BY <1>1, <1>3 DEF Advanced, Readable
<1> QED BY <1>4 DEF q

(* Whatever is asked for, only the cursor moves.                            *)
LEMMA ReadBytesAdvances ==
    ASSUME NEW p, Readable(p), NEW type, NEW n \in Nat
    PROVE  Advanced(p, ReadBytes(p, type, n).packet)
<1>1. /\ p \in Packets /\ p.read \in Nat /\ p.size \in Nat /\ p.read <= p.size
  BY DEF Readable, Packets
<1>2. Advanced(p, p)
  BY <1>1 DEF Advanced
<1>3. CASE p.read + n > p.size
  BY <1>2, <1>3, ReadBytesFacts DEF Thrown
<1>4. CASE p.read + n <= p.size
  <2>1. ReadBytes(p, type, n).packet = [p EXCEPT !.read = p.read + n]
    BY <1>4, ReadBytesFacts
  <2> QED BY <1>4, <2>1, AdvanceFacts
<1> QED BY <1>1, <1>3, <1>4

(* A string, too, whatever its first two bytes say of its length.           *)
LEMMA ReadAdvances ==
    ASSUME NEW p, Readable(p), NEW type \in {"u8", "u16", "float", "string"}
    PROVE  Advanced(p, Read(p, type).packet)
<1>1. CASE type # "string"
  <2>1. Size(type) \in Nat
    BY <1>1 DEF Size
  <2>2. Read(p, type) = ReadBytes(p, type, Size(type))
    BY <1>1 DEF Read
  <2> QED BY <2>1, <2>2, ReadBytesAdvances
<1>2. CASE type = "string"
  <2> DEFINE length == ReadBytes(p, "u16", 2)
             n == FromU16(length.value.bytes)
  <2>1. Read(p, type) = IF length.threw THEN length ELSE ReadBytes(length.packet, "string", n)
    BY <1>2 DEF Read
  <2>2. /\ p \in Packets /\ p.buffer \in Buffers /\ p.read \in Nat /\ p.size \in Nat
        /\ p.read <= p.size /\ p.size <= Capacity /\ Capacity \in Nat
    BY ConstantFacts DEF Readable, Packets
  <2>3. CASE p.read + 2 > p.size
    <3>1. length = Thrown(p)
      BY <2>3, ReadBytesFacts
    <3>2. Advanced(p, length.packet)
      BY ReadBytesAdvances
    <3> QED BY <2>1, <3>1, <3>2 DEF Thrown
  <2>4. CASE p.read + 2 <= p.size
    <3> DEFINE q == [p EXCEPT !.read = p.read + 2]
    <3>1. length = [packet |-> q, value |-> [type |-> "u16", bytes |-> Peek(p, p.read, 2)],
                    threw |-> FALSE]
      BY <2>4, ReadBytesFacts
    <3>2. Advanced(p, q) /\ Readable(q) /\ q.read = p.read + 2
      BY <2>4, AdvanceFacts
    <3>3. n \in Nat
      <4>1. length.value.bytes = Peek(p, p.read, 2)
        BY <3>1
      <4>2. \A from \in Nat : Peek(p, from, 2) = [i \in 1..2 |-> p.buffer[from + i - 1]]
        <5> TAKE from \in Nat
        <5>1. from + 2 - from = 2
          OBVIOUS
        <5> QED BY <5>1 DEF Peek, Bytes
      <4>3. Peek(p, p.read, 2) = [i \in 1..2 |-> p.buffer[p.read + i - 1]]
        BY <2>2, <4>2
      <4>4. p.read + 1 - 1 \in 0..(Capacity - 1) /\ p.read + 2 - 1 \in 0..(Capacity - 1)
        BY <2>2, <2>4
      <4>5. p.buffer[p.read + 1 - 1] \in Nat /\ p.buffer[p.read + 2 - 1] \in Nat
        BY <2>2, <4>4 DEF Buffers
      <4> HIDE DEF length
      <4>6. n = p.buffer[p.read + 1 - 1] + 256 * p.buffer[p.read + 2 - 1]
        BY <4>1, <4>3 DEF FromU16
      <4> QED BY <4>5, <4>6
    <3>4. Read(p, type) = ReadBytes(q, "string", n)
      <4> HIDE DEF q, length, n
      <4>1. ~length.threw /\ length.packet = q
        BY <3>1
      <4> QED BY <2>1, <4>1
    <3> HIDE DEF q, length, n
    <3>5. Advanced(q, ReadBytes(q, "string", n).packet)
      BY <3>2, <3>3, ReadBytesAdvances
    <3>6. q.read \in Nat /\ ReadBytes(q, "string", n).packet.read \in Nat
      BY <3>2, <3>5 DEF Advanced, Packets
    <3> QED BY <2>2, <3>2, <3>4, <3>5, <3>6 DEF Advanced
  <2> QED BY <2>2, <2>3, <2>4
<1> QED BY <1>1, <1>2

(* A value at the cursor is read as it was written.                         *)
LEMMA ReadFound ==
    ASSUME NEW p, Readable(p), NEW v \in Values, Found(p.buffer, p.read, Encode(v)),
           p.read + Len(Encode(v)) <= p.size
    PROVE  /\ ~Read(p, v.type).threw /\ Read(p, v.type).value = v
           /\ Read(p, v.type).packet.read = p.read + Len(Encode(v))
<1> DEFINE type == v.type
           e == Encode(v)
           b == v.bytes
<1>1. /\ p \in Packets /\ p.buffer \in Buffers /\ p.read \in Nat /\ p.size \in Nat
      /\ p.read <= p.size /\ p.size <= Capacity
  BY DEF Readable, Packets
<1>2. /\ b \in Seq(Nat) /\ e \in Seq(Nat) /\ Len(b) \in Nat
      /\ v = [type |-> type, bytes |-> b] /\ type \in {"u8", "u16", "float", "string"}
  <2>1. b \in Seq(Nat) /\ e \in Seq(Nat)
    BY EncodeFacts
  <2>2. v = [type |-> type, bytes |-> b] /\ type \in {"u8", "u16", "float", "string"}
    BY EncodeFacts
  <2> HIDE DEF b, e, type
  <2> QED BY <2>1, <2>2
<1>3. CASE type # "string"
  <2>1. e = b /\ Len(b) = Size(type)
    BY <1>3, EncodeFacts
  <2>2. Read(p, type) = ReadBytes(p, type, Len(b))
    BY <1>3, <2>1 DEF Read
  <2>3. p.read + Len(b) \in Nat /\ p.read + Len(b) <= p.size
    BY <1>1, <1>2, <2>1
  <2>4. Peek(p, p.read, Len(b)) = b
    BY <1>1, <1>2, <2>1, <2>3, BytesFound DEF Peek
  <2>5. Read(p, type) = [packet |-> [p EXCEPT !.read = p.read + Len(b)],
                         value |-> [type |-> type, bytes |-> b], threw |-> FALSE]
    BY <1>2, <2>2, <2>3, <2>4, ReadBytesFacts
  <2>6. [p EXCEPT !.read = p.read + Len(b)].read = p.read + Len(b)
    BY <1>2, <2>3, AdvanceFacts
  <2> HIDE DEF type, e, b
  <2>7. ~Read(p, type).threw /\ Read(p, type).value = v
        /\ Read(p, type).packet.read = p.read + Len(e)
    <3> DEFINE r == [p EXCEPT !.read = p.read + Len(b)]
               u == [type |-> type, bytes |-> b]
               z == Read(p, type)
    <3>1. z = [packet |-> r, value |-> u, threw |-> FALSE] /\ r.read = p.read + Len(e) /\ u = v
      BY <1>2, <2>1, <2>5, <2>6
    <3> HIDE DEF r, u, z
    <3>2. z.packet = r /\ z.value = u /\ z.threw = FALSE
      BY <3>1
    <3> QED BY <3>1, <3>2 DEF z
  <2> QED BY <2>7 DEF type, e, b
<1>4. CASE type = "string"
  <2> DEFINE l == U16(Len(b))
             length == ReadBytes(p, "u16", 2)
             n == FromU16(length.value.bytes)
             q == [p EXCEPT !.read = p.read + 2]
  <2>1. e = l \o b /\ Len(e) = 2 + Len(b)
    BY <1>4, EncodeFacts
  <2>2. l \in Seq(Nat) /\ Len(l) = 2
    BY <1>2, U16Facts
  <2>3. Read(p, type) = IF length.threw THEN length ELSE ReadBytes(length.packet, "string", n)
    BY <1>4 DEF Read
  <2>4. p.read + 2 <= p.size /\ p.read + 2 + Len(b) <= p.size /\ p.read + 2 \in Nat
    BY <1>1, <1>2, <2>1
  <2>5. length = [packet |-> q, value |-> [type |-> "u16", bytes |-> Peek(p, p.read, 2)],
                  threw |-> FALSE]
    BY <2>4, ReadBytesFacts
  <2>6. Readable(q) /\ q.read = p.read + 2 /\ q.buffer = p.buffer /\ q.size = p.size
    BY <2>4, AdvanceFacts DEF Advanced
  <2> HIDE DEF l, length, n, q, e, b, type
  <2>7. \A i \in 1..(2 + Len(b)) : e[i] = IF i <= 2 THEN l[i] ELSE b[i - 2]
    <3>1. \A i \in 1..(Len(l) + Len(b)) : (l \o b)[i] = IF i <= Len(l) THEN l[i] ELSE b[i - Len(l)]
      BY <1>2, <2>2, ConcatProperties
    <3> QED BY <2>1, <2>2, <3>1
  <2>8. \A i \in 1..(2 + Len(b)) : p.buffer[p.read + i - 1] = e[i]
    BY <2>1 DEF Found, e
  <2>9. Found(p.buffer, p.read, l)
    <3>1. \A i \in 1..2 : i \in 1..(2 + Len(b)) /\ i <= 2
      BY <1>2
    <3> QED BY <2>2, <2>7, <2>8, <3>1 DEF Found
  <2>10. Found(q.buffer, q.read, b)
    <3> SUFFICES ASSUME NEW i \in 1..Len(b) PROVE q.buffer[q.read + i - 1] = b[i]
      BY DEF Found
    <3>1. /\ 2 + i \in 1..(2 + Len(b)) /\ ~(2 + i <= 2) /\ (2 + i) - 2 = i
          /\ p.read + (2 + i) - 1 = p.read + 2 + i - 1
      <4>1. \A m, r \in Nat : \A j \in 1..m :
               /\ 2 + j \in 1..(2 + m) /\ ~(2 + j <= 2) /\ (2 + j) - 2 = j
               /\ r + (2 + j) - 1 = r + 2 + j - 1
        OBVIOUS
      <4>2. p.read \in Nat /\ Len(b) \in Nat
        BY <1>1, <1>2
      <4> QED BY <4>1, <4>2
    <3>2. p.buffer[p.read + (2 + i) - 1] = b[i]
      BY <2>7, <2>8, <3>1
    <3> QED BY <2>6, <3>1, <3>2
  <2>11. n = Len(b)
    <3>1. length.value.bytes = Peek(p, p.read, 2)
      BY <2>5
    <3>2. FromU16(Peek(p, p.read, 2)) = Len(b)
      BY <1>1, <1>2, <2>9, LengthFound DEF l
    <3> QED BY <3>1, <3>2 DEF n
  <2>12. Read(p, type) = ReadBytes(q, "string", Len(b))
    <3>1. ~length.threw /\ length.packet = q
      BY <2>5
    <3> QED BY <2>3, <2>11, <3>1
  <2>13. q.read \in Nat /\ q.read + Len(b) \in Nat /\ q.read + Len(b) <= q.size
    BY <1>1, <1>2, <2>4, <2>6
  <2>14. Peek(q, q.read, Len(b)) = b
    BY <1>2, <2>10, <2>13, BytesFound DEF Peek
  <2>15. Read(p, type) = [packet |-> [q EXCEPT !.read = q.read + Len(b)],
                          value |-> [type |-> "string", bytes |-> b], threw |-> FALSE]
    BY <1>2, <2>6, <2>12, <2>13, <2>14, ReadBytesFacts
  <2>16. [q EXCEPT !.read = q.read + Len(b)].read = q.read + Len(b)
    BY <1>2, <2>6, <2>13, AdvanceFacts
  <2>17. q.read + Len(b) = p.read + Len(e)
    BY <1>1, <1>2, <2>1, <2>6
  <2>18. ~Read(p, type).threw /\ Read(p, type).value = v
         /\ Read(p, type).packet.read = p.read + Len(e)
    <3> DEFINE r == [q EXCEPT !.read = q.read + Len(b)]
               u == [type |-> "string", bytes |-> b]
               z == Read(p, type)
    <3>1. z = [packet |-> r, value |-> u, threw |-> FALSE] /\ r.read = p.read + Len(e) /\ u = v
      BY <1>2, <1>4, <2>15, <2>16, <2>17
    <3> HIDE DEF r, u, z
    <3>2. z.packet = r /\ z.value = u /\ z.threw = FALSE
      BY <3>1
    <3> QED BY <3>1, <3>2 DEF z
  <2> QED BY <2>18 DEF type, e
<1> QED BY <1>3, <1>4

(* A packet that was received is relayed whole, whatever was read of it.    *)
LEMMA PayloadFacts ==
    ASSUME NEW p \in Packets, NEW b \in Seq(Nat), p.write = 0, p.read <= p.size,
           p.size = 4 + Len(b), Found(p.buffer, 4, b)
    PROVE  Payload(p) = b
<1>1. p.read \in Nat /\ p.size \in Nat /\ Len(b) \in Nat /\ 4 \in Nat
  BY DEF Packets
<1>2. MaxOf(4, MaxOf(p.read, MaxOf(p.size, p.write))) = p.size
  BY <1>1 DEF MaxOf
<1>3. Bytes(p, 4, p.size) = b
  BY <1>1, BytesFound
<1> QED BY <1>2, <1>3 DEF Payload

(* A copy holds the same body.                                              *)
LEMMA CopyFacts ==
    ASSUME NEW p \in Packets, NEW b \in Seq(Nat), p.size = 4 + Len(b), p.size <= Capacity,
           Found(p.buffer, 4, b)
    PROVE  LET q == CopyOf(p, p.size)
           IN  /\ q \in Packets /\ q.write = 0 /\ q.read = 0 /\ q.size = p.size
               /\ Found(q.buffer, 4, b)
<1> DEFINE n == p.size
           c == Bytes(p, 0, n)
           q == Receive(Empty, c)
<1>1. p.buffer \in Buffers /\ n \in Nat /\ Len(b) \in Nat /\ Capacity \in Nat
  BY ConstantFacts DEF Packets
<1>2. Empty \in Packets /\ Empty.buffer \in Buffers
      /\ Empty.read = 0 /\ Empty.size = 0 /\ Empty.write = 0
  BY EmptyFacts DEF Packets
<1>3. c = [i \in 1..n |-> p.buffer[i - 1]]
  <2>1. n - 0 = n /\ \A i \in 1..n : 0 + i - 1 = i - 1
    BY <1>1
  <2> QED BY <2>1 DEF Bytes
<1>4. c \in Seq(Nat) /\ Len(c) = n /\ \A i \in 1..n : c[i] = p.buffer[i - 1]
  <2>1. \A i \in 1..n : i - 1 \in 0..(Capacity - 1)
    BY <1>1
  <2>2. \A i \in 1..n : p.buffer[i - 1] \in Nat
    BY <1>1, <2>1 DEF Buffers
  <2> HIDE DEF n, c
  <2> QED BY <1>1, <1>3, <2>2
<1> HIDE DEF n, c
<1>5. 0 \in Nat /\ Empty.size + Len(c) <= Capacity /\ Empty.size + Len(c) = n
      /\ 0 + Len(c) <= Capacity
  BY <1>1, <1>2, <1>4 DEF n
<1>6. q \in Packets /\ q = [buffer |-> Place(Empty.buffer, Empty.size, c), read |-> Empty.read,
                            size |-> Empty.size + Len(c), write |-> Empty.write]
  BY <1>2, <1>4, <1>5, ReceiveFacts
<1> HIDE DEF q
<1>7. q.buffer = Place(Empty.buffer, 0, c) /\ q.read = 0 /\ q.size = n /\ q.write = 0
  BY <1>2, <1>5, <1>6
<1>8. Found(q.buffer, 0, c)
  BY <1>2, <1>4, <1>5, <1>7, PlaceFacts
<1>9. ASSUME NEW i \in 1..Len(b) PROVE q.buffer[4 + i - 1] = b[i]
  <2>1. 4 + i \in 1..n /\ 0 + (4 + i) - 1 = 4 + i - 1
    BY <1>1 DEF n
  <2>2. q.buffer[0 + (4 + i) - 1] = c[4 + i]
    BY <1>4, <1>8, <2>1 DEF Found
  <2>3. c[4 + i] = p.buffer[4 + i - 1]
    BY <1>4, <2>1, SMTT(30)
  <2>4. p.buffer[4 + i - 1] = b[i]
    BY DEF Found
  <2> QED BY <2>1, <2>2, <2>3, <2>4
<1>10. Found(q.buffer, 4, b)
  BY <1>9 DEF Found
<1>11. CopyOf(p, p.size) = q
  BY DEF CopyOf, q, c, n
<1> QED BY <1>6, <1>7, <1>10, <1>11 DEF n

(* The value after those that were read is the one at the cursor.           *)
LEMMA NextFound ==
    ASSUME NEW s \in Seq(Values), NEW g \in Seq(Values), NEW rest \in Seq(Values),
           s = g \o rest, Len(g) < Len(s),
           NEW p, Readable(p), Found(p.buffer, 4, Body(s)),
           p.read = 4 + Len(Body(g)), p.size = 4 + Len(Body(s))
    PROVE  LET v == s[Len(g) + 1]
           IN  /\ v \in Values /\ Append(g, v) \in Seq(Values)
               /\ \E r \in Seq(Values) : s = Append(g, v) \o r
               /\ Len(Body(Append(g, v))) = Len(Body(g)) + Len(Encode(v))
               /\ Found(p.buffer, p.read, Encode(v))
               /\ p.read + Len(Encode(v)) <= p.size
<1> DEFINE v == s[Len(g) + 1]
           r == Tail(rest)
           a == Body(g)
           e == Encode(v)
           c == Body(r)
<1>1. Len(g) \in Nat /\ Len(s) = Len(g) + Len(rest) /\ Len(rest) \in Nat
  OBVIOUS
<1>2. rest # << >>
  BY <1>1
<1>3. v \in Values /\ v = Head(rest) /\ r \in Seq(Values)
  <2>1. Len(g) + 1 \in 1..(Len(g) + Len(rest)) /\ ~(Len(g) + 1 <= Len(g))
        /\ (Len(g) + 1) - Len(g) = 1
    BY <1>1, <1>2
  <2>2. s[Len(g) + 1] = rest[1]
    <3>1. \A i \in 1..(Len(g) + Len(rest)) :
             (g \o rest)[i] = IF i <= Len(g) THEN g[i] ELSE rest[i - Len(g)]
      BY ConcatProperties
    <3> QED BY <2>1, <3>1
  <2>3. Head(rest) \in Values /\ Head(rest) = rest[1] /\ Tail(rest) \in Seq(Values)
    BY <1>2
  <2> QED BY <2>2, <2>3
<1>4. rest = <<v>> \o r /\ <<v>> \in Seq(Values)
  BY <1>2, <1>3
<1> HIDE DEF v, r
<1>5. Append(g, v) = g \o <<v>> /\ Append(g, v) \in Seq(Values)
  BY <1>3, AppendIsConcat, AppendProperties
<1>6. s = Append(g, v) \o r
  <2>1. (g \o <<v>>) \o r = g \o (<<v>> \o r)
    BY <1>3, <1>4, ConcatThree, SMTT(30)
  <2> QED BY <1>4, <1>5, <2>1
<1>7. /\ a \in Seq(Nat) /\ c \in Seq(Nat) /\ e \in Seq(Nat) /\ Body(<<v>>) = e
  BY <1>3, BodyFacts, EncodeFacts
<1>8. Body(Append(g, v)) = a \o e /\ Body(s) = (a \o e) \o c
  <2>1. Body(g \o <<v>>) = Body(g) \o Body(<<v>>)
    BY <1>4, BodyFacts
  <2>2. Body(Append(g, v) \o r) = Body(Append(g, v)) \o Body(r)
    BY <1>3, <1>5, BodyFacts
  <2> QED BY <1>5, <1>6, <1>7, <2>1, <2>2
<1> HIDE DEF a, c, e
<1>9. /\ a \o e \in Seq(Nat) /\ Len(a \o e) = Len(a) + Len(e)
      /\ \A i \in 1..(Len(a) + Len(e)) : (a \o e)[i] = IF i <= Len(a) THEN a[i] ELSE e[i - Len(a)]
  BY <1>7, ConcatProperties
<1> DEFINE d == a \o e
<1> HIDE DEF d
<1>10. /\ d \in Seq(Nat) /\ Len(d) = Len(a) + Len(e) /\ Body(s) = d \o c
       /\ \A i \in 1..(Len(a) + Len(e)) : d[i] = IF i <= Len(a) THEN a[i] ELSE e[i - Len(a)]
  BY <1>8, <1>9 DEF d
<1>11. /\ Len(d \o c) = Len(d) + Len(c)
       /\ \A i \in 1..(Len(d) + Len(c)) : (d \o c)[i] = IF i <= Len(d) THEN d[i] ELSE c[i - Len(d)]
  <2>1. d \in Seq(Nat) /\ c \in Seq(Nat)
    BY <1>7, <1>10
  <2> QED BY <2>1, ConcatProperties
<1>12. Len(a) \in Nat /\ Len(e) \in Nat /\ Len(c) \in Nat /\ p.read = 4 + Len(a)
       /\ Len(Body(s)) = Len(a) + Len(e) + Len(c)
  BY <1>7, <1>10, <1>11 DEF a
<1>13. p.read + Len(e) <= p.size
  BY <1>12
<1>14. ASSUME NEW i \in 1..Len(e) PROVE p.buffer[p.read + i - 1] = e[i]
  <2> DEFINE j == Len(a) + i
  <2>1. /\ j \in 1..(Len(a) + Len(e)) /\ j \in 1..(Len(d) + Len(c)) /\ j \in 1..Len(Body(s))
        /\ j <= Len(d) /\ ~(j <= Len(a)) /\ j - Len(a) = i /\ p.read + i - 1 = 4 + j - 1
    <3>1. \A k, m, n \in Nat : \A h \in 1..m :
             /\ k + h \in 1..(k + m) /\ k + h \in 1..(k + m + n) /\ k + h <= k + m
             /\ ~(k + h <= k) /\ (k + h) - k = h /\ 4 + k + h - 1 = 4 + (k + h) - 1
      OBVIOUS
    <3>2. Len(d) = Len(a) + Len(e)
      BY <1>10
    <3> DEFINE k == Len(a)
               m == Len(e)
               n == Len(c)
    <3>3. k \in Nat /\ m \in Nat /\ n \in Nat /\ i \in 1..m
      BY <1>12
    <3>4. Len(d) = k + m /\ Len(Body(s)) = k + m + n /\ p.read = 4 + k
      BY <1>12, <3>2
    <3> HIDE DEF k, m, n
    <3>5. /\ k + i \in 1..(k + m) /\ k + i \in 1..(k + m + n) /\ k + i <= k + m
          /\ ~(k + i <= k) /\ (k + i) - k = i /\ 4 + k + i - 1 = 4 + (k + i) - 1
      BY <3>1, <3>3
    <3> QED BY <3>4, <3>5 DEF k, m, n
  <2> HIDE DEF j
  <2>2. Body(s)[j] = d[j] /\ d[j] = e[i]
    BY <1>10, <1>11, <2>1
  <2>3. p.buffer[4 + j - 1] = Body(s)[j]
    BY <2>1 DEF Found
  <2> QED BY <2>1, <2>2, <2>3
<1>15. Found(p.buffer, p.read, e)
  BY <1>14 DEF Found
<1>16. Len(Body(Append(g, v))) = Len(Body(g)) + Len(e)
  BY <1>8, <1>9 DEF a
<1>17. \E t \in Seq(Values) : s = Append(g, v) \o t
  BY <1>3, <1>6
<1> QED BY <1>3, <1>5, <1>13, <1>15, <1>16, <1>17 DEF v, e

-----------------------------------------------------------------------------
(* The inductive invariant: what the packet being written holds, and what   *)
(* the wire and the receiver's packet hold at each stage.                   *)

Fitting == {s \in Seq(Values) : 4 + Len(Body(s)) <= Capacity}

Sending == written \in Seq(Values) /\ HoldsValues(out, written)

Receiving ==
    /\ sent \in Seq(Fitting) /\ stage \in {"header", "body", "reading"}
    /\ in \in Packets /\ in.write = 0

AtHeader == wire = Stream(sent)

AtBody ==
    /\ sent # << >> /\ wire = Body(Head(sent)) \o Stream(Tail(sent))
    /\ in.size = 4 /\ received = 4 /\ got = << >> /\ ~misread
    /\ Found(in.buffer, 2, U16(Len(Body(Head(sent)))))

(* As long as nothing was misread, the cursor is after the values read.     *)
InPlace ==
    /\ got \in Seq(Values) /\ in.read = 4 + Len(Body(got))
    /\ \E rest \in Seq(Values) : Head(sent) = got \o rest

AtReading ==
    /\ sent # << >> /\ wire = Stream(Tail(sent))
    /\ in.size = 4 + Len(Body(Head(sent))) /\ received = in.size
    /\ 4 <= in.read /\ in.read <= in.size
    /\ Found(in.buffer, 4, Body(Head(sent)))
    /\ ~misread => InPlace

Conveyed ==
    /\ Sending /\ Receiving
    /\ stage = "header" => AtHeader
    /\ stage = "body" => AtBody
    /\ stage = "reading" => AtReading

(* The packets on the wire fit the buffer of the receiver.                  *)
LEMMA FittingFacts ==
    ASSUME NEW p \in Seq(Fitting)
    PROVE  /\ p \in Seq(Seq(Values))
           /\ \A s \in Fitting : Append(p, s) \in Seq(Fitting)
           /\ p # << >> => /\ Head(p) \in Seq(Values) /\ Body(Head(p)) \in Seq(Nat)
                           /\ Len(Body(Head(p))) \in Nat
                           /\ 4 + Len(Body(Head(p))) <= Capacity
                           /\ Tail(p) \in Seq(Fitting) /\ Tail(p) \in Seq(Seq(Values))
                           /\ Stream(Tail(p)) \in Seq(Nat)
<1>1. \A s \in Fitting : s \in Seq(Values) /\ 4 + Len(Body(s)) <= Capacity
  BY DEF Fitting
<1> DEFINE D == Seq(Values)
<1>2. \A q \in Seq(Fitting) : q \in Seq(D)
  <2> HIDE DEF D
  <2>1. \A s \in Fitting : s \in D
    BY <1>1 DEF D
  <2> QED BY <2>1
<1>3. \A s \in Fitting : Append(p, s) \in Seq(Fitting)
  BY AppendProperties
<1>4. ASSUME p # << >> PROVE Head(p) \in Fitting /\ Tail(p) \in Seq(Fitting)
  BY <1>4, HeadTailProperties
<1>5. ASSUME p # << >>
      PROVE  /\ Head(p) \in Seq(Values) /\ Body(Head(p)) \in Seq(Nat)
             /\ Len(Body(Head(p))) \in Nat /\ 4 + Len(Body(Head(p))) <= Capacity
  <2>1. Head(p) \in Seq(Values) /\ 4 + Len(Body(Head(p))) <= Capacity
    BY <1>1, <1>4, <1>5
  <2>2. Body(Head(p)) \in Seq(Nat)
    BY <2>1, BodyFacts
  <2>3. Len(Body(Head(p))) \in Nat
    BY <2>2
  <2> QED BY <2>1, <2>2, <2>3
<1>6. ASSUME p # << >> PROVE Tail(p) \in Seq(D) /\ Stream(Tail(p)) \in Seq(Nat)
  <2>1. Tail(p) \in Seq(D)
    BY <1>2, <1>4, <1>6
  <2> QED BY <2>1, StreamFacts
<1> QED BY <1>2, <1>3, <1>4, <1>5, <1>6

(* So does the one being written.                                           *)
LEMMA HoldsFits ==
    ASSUME NEW s \in Seq(Values), NEW p, HoldsValues(p, s)
    PROVE  s \in Fitting
  BY DEF HoldsValues, Fitting

(* The invariant holds at first, and every action keeps it.                 *)
LEMMA ConveyedInit == Init => Conveyed
<1> SUFFICES ASSUME Init PROVE Conveyed
  OBVIOUS
<1>1. Sending
  <2>1. << >> \in Seq(Values)
    OBVIOUS
  <2> QED BY <2>1, CreateHolds DEF Init, Sending
<1>2. Receiving
  <2>1. << >> \in Seq(Fitting)
    OBVIOUS
  <2> QED BY <2>1, EmptyFacts DEF Init, Receiving
<1>3. AtHeader
  BY StreamFacts DEF Init, AtHeader
<1>4. stage = "header"
  BY DEF Init
<1> QED BY <1>1, <1>2, <1>3, <1>4 DEF Conveyed

LEMMA WriteStep ==
    ASSUME Conveyed, NEW v \in Values, Write(v)
    PROVE  Conveyed'
<1>1. CASE UNCHANGED <<sender, wire, sent, receiver>>
  BY <1>1 DEF sender, receiver, Conveyed, Sending, Receiving, AtHeader, AtBody, AtReading, InPlace
<1>2. CASE /\ out.write + Len(Encode(v)) <= Capacity
           /\ out' = Put(out, v) /\ written' = Append(written, v)
           /\ UNCHANGED <<wire, sent, receiver>>
  <2> DEFINE t == Append(written, v)
             e == Encode(v)
  <2>1. written \in Seq(Values) /\ HoldsValues(out, written)
    BY DEF Conveyed, Sending
  <2>2. e \in Seq(Nat) /\ Body(<<v>>) = e /\ <<v>> \in Seq(Values)
    <3>1. e \in Seq(Nat)
      BY EncodeFacts
    <3>2. Body(<<v>>) = e
      BY BodyFacts
    <3>3. <<v>> \in Seq(Values)
      OBVIOUS
    <3> QED BY <3>1, <3>2, <3>3
  <2>3. t \in Seq(Values) /\ t = written \o <<v>>
    BY <2>1, AppendIsConcat, AppendProperties
  <2> HIDE DEF t, e
  <2>4. Body(t) = Body(written) \o e
    BY <2>1, <2>2, <2>3, BodyFacts
  <2>5. out.write + Len(e) <= Capacity
    BY <1>2 DEF e
  <2>6. HoldsValues(PutBytes(out, e), t)
    BY <2>1, <2>2, <2>3, <2>4, <2>5, PutHolds
  <2>7. Sending'
    BY <1>2, <2>3, <2>6 DEF Sending, Put, t, e
  <2> QED BY <1>2, <2>7
          DEF receiver, Conveyed, Receiving, AtHeader, AtBody, AtReading, InPlace
<1>3. out.write \in Nat /\ Len(Encode(v)) \in Nat
  <2>1. Encode(v) \in Seq(Nat)
    BY EncodeFacts
  <2> QED BY <2>1 DEF Conveyed, Sending, HoldsValues, Packets
<1>4. out.write + Len(Encode(v)) > Capacity \/ out.write + Len(Encode(v)) <= Capacity
  BY <1>3, ConstantFacts
<1> QED BY <1>1, <1>2, <1>4 DEF Write

LEMMA RelayStep ==
    ASSUME Conveyed, Relay
    PROVE  Conveyed'
<1> DEFINE h == Head(sent)
           b == Body(h)
<1>1. AtReading /\ Receiving /\ sent # << >> /\ sent \in Seq(Fitting)
  BY DEF Relay, Conveyed, AtReading, Receiving
<1>2. h \in Seq(Values) /\ b \in Seq(Nat) /\ Len(b) \in Nat /\ 4 + Len(b) <= Capacity
  BY <1>1, FittingFacts
<1>3. /\ in \in Packets /\ in.write = 0 /\ in.read <= in.size /\ in.size = 4 + Len(b)
      /\ in.size <= Capacity /\ Found(in.buffer, 4, b)
  BY <1>1, <1>2 DEF AtReading, Receiving
<1> HIDE DEF b, h
<1>4. Payload(in) = b
  BY <1>2, <1>3, PayloadFacts
<1>5. Payload(CopyOf(in, in.size)) = b
  <2> DEFINE q == CopyOf(in, in.size)
  <2>1. q \in Packets /\ q.write = 0 /\ q.read = 0 /\ q.size = in.size /\ Found(q.buffer, 4, b)
    BY <1>2, <1>3, CopyFacts
  <2> HIDE DEF q
  <2>2. q.read <= q.size /\ q.size = 4 + Len(b)
    BY <1>2, <1>3, <2>1
  <2>3. Payload(q) = b
    BY <1>2, <2>1, <2>2, PayloadFacts
  <2> QED BY <2>3 DEF q
<1>6. out' = PutBytes(Create(Opcode), b) /\ written' = h
  BY <1>4, <1>5 DEF Relay, h
<1>7. HoldsValues(PutBytes(Create(Opcode), b), h)
  <2> DEFINE c == Create(Opcode)
             s == << >>
  <2>1. HoldsValues(c, s) /\ s \in Seq(Values) /\ Body(s) = << >>
    BY CreateHolds, BodyFacts
  <2>2. << >> \o b = b
    BY <1>2
  <2>3. c.write = 4 + Len(Body(s))
    BY <2>1 DEF HoldsValues
  <2>4. Body(h) = Body(s) \o b
    BY <2>1, <2>2 DEF b
  <2>5. c.write + Len(b) <= Capacity
    BY <1>2, <2>1, <2>3
  <2> HIDE DEF c, s
  <2>6. HoldsValues(PutBytes(c, b), h)
    BY <1>2, <2>1, <2>4, <2>5, PutHolds
  <2> QED BY <2>6 DEF c
<1>8. Sending'
  BY <1>2, <1>6, <1>7 DEF Sending
<1> QED BY <1>8 DEF Relay, receiver, Conveyed, Receiving, AtHeader, AtBody, AtReading, InPlace

LEMMA SendStep ==
    ASSUME Conveyed, Send
    PROVE  Conveyed'
<1> DEFINE w == written
           p == Packed(w)
<1>1. w \in Seq(Values) /\ HoldsValues(out, w) /\ w \in Fitting
  BY HoldsFits DEF Conveyed, Sending
<1>2. SendBytes(out) = p /\ p \in Seq(Nat)
  BY <1>1, SendHolds, PackedFacts
<1>3. sent \in Seq(Fitting) /\ sent \in Seq(Seq(Values)) /\ Append(sent, w) \in Seq(Fitting)
  BY <1>1, FittingFacts DEF Conveyed, Receiving
<1>4. wire' = wire \o p /\ sent' = Append(sent, w)
  BY <1>2 DEF Send
<1>5. Sending'
  <2>1. << >> \in Seq(Values)
    OBVIOUS
  <2> QED BY <2>1, CreateHolds DEF Send, Sending
<1>6. UNCHANGED <<in, received, stage, got, misread>>
  BY DEF Send, receiver
<1>7. Receiving'
  BY <1>3, <1>4, <1>6 DEF Conveyed, Receiving
<1> HIDE DEF w, p
<1>8. ASSUME stage = "header" PROVE AtHeader'
  <2>1. wire = Stream(sent)
    BY <1>8 DEF Conveyed, AtHeader
  <2>2. Stream(Append(sent, w)) = Stream(sent) \o p
    BY <1>1, <1>3, StreamAppend DEF p
  <2> QED BY <1>4, <2>1, <2>2 DEF AtHeader
<1>9. ASSUME sent # << >>
      PROVE  /\ sent' # << >> /\ Head(sent') = Head(sent)
             /\ Stream(Tail(sent')) = Stream(Tail(sent)) \o p
  <2> DEFINE D == Seq(Values)
  <2>1. sent \in Seq(D) /\ w \in D
    BY <1>1, <1>3
  <2> HIDE DEF D
  <2>2. Append(sent, w) # << >> /\ Head(Append(sent, w)) = Head(sent)
        /\ Tail(Append(sent, w)) = Append(Tail(sent), w)
    <3>1. Append(sent, w) \in Seq(D) /\ Append(sent, w) # << >>
      BY <2>1, AppendProperties
    <3>2. Head(Append(sent, w)) = Head(sent)
      BY <1>9, <2>1
    <3>3. Tail(Append(sent, w)) = Append(Tail(sent), w)
      <4> DEFINE x == Tail(Append(sent, w))
                 y == Append(Tail(sent), w)
      <4>1. /\ Len(sent) \in Nat /\ Len(sent) > 0 /\ Tail(sent) \in Seq(D)
            /\ Len(Tail(sent)) = Len(sent) - 1
            /\ \A i \in 1..(Len(sent) - 1) : Tail(sent)[i] = sent[i + 1]
        BY <1>9, <2>1
      <4>2. /\ x \in Seq(D) /\ Len(x) = Len(sent)
            /\ \A i \in 1..Len(sent) : x[i] = Append(sent, w)[i + 1]
        BY <1>9, <2>1
      <4>3. /\ y \in Seq(D) /\ Len(y) = Len(sent) /\ y[Len(sent)] = w
            /\ \A i \in 1..(Len(sent) - 1) : y[i] = Tail(sent)[i]
        BY <2>1, <4>1
      <4>4. /\ Append(sent, w)[Len(sent) + 1] = w
            /\ \A i \in 1..Len(sent) : Append(sent, w)[i] = sent[i]
        BY <2>1
      <4> HIDE DEF x, y
      <4>5. ASSUME NEW i \in 1..Len(sent) PROVE x[i] = y[i]
        <5>1. CASE i = Len(sent)
          BY <4>2, <4>3, <4>4, <5>1
        <5>2. CASE i # Len(sent)
          <6>1. i \in 1..(Len(sent) - 1) /\ i + 1 \in 1..Len(sent)
            <7>1. \A n \in Nat : \A j \in 1..n : j # n => j \in 1..(n - 1) /\ j + 1 \in 1..n
              OBVIOUS
            <7>2. Len(sent) \in Nat
              BY <4>1
            <7> QED BY <5>2, <7>1, <7>2
          <6> QED BY <4>1, <4>2, <4>3, <4>4, <6>1
        <5> QED BY <5>1, <5>2
      <4>6. x = y
        BY <4>2, <4>3, <4>5, SeqEqual
      <4> QED BY <4>6 DEF x, y
    <3> QED BY <3>1, <3>2, <3>3
  <2>3. Stream(Append(Tail(sent), w)) = Stream(Tail(sent)) \o p
    <3>1. Tail(sent) \in Seq(Seq(Values))
      BY <1>3, <1>9, FittingFacts
    <3> QED BY <1>1, <3>1, StreamAppend DEF p
  <2> QED BY <1>4, <2>2, <2>3
<1>10. ASSUME stage = "body" PROVE AtBody'
  <2>1. AtBody /\ sent # << >>
    BY <1>10 DEF Conveyed, AtBody
  <2>2. Body(Head(sent)) \in Seq(Nat) /\ Stream(Tail(sent)) \in Seq(Nat)
    BY <1>3, <2>1, FittingFacts
  <2>3. (Body(Head(sent)) \o Stream(Tail(sent))) \o p = Body(Head(sent)) \o (Stream(Tail(sent)) \o p)
    BY <1>2, <2>2, ConcatThree, SMTT(30)
  <2>4. wire' = Body(Head(sent')) \o Stream(Tail(sent'))
    BY <1>4, <1>9, <2>1, <2>3 DEF AtBody
  <2> QED BY <1>6, <1>9, <2>1, <2>4 DEF AtBody
<1>11. ASSUME stage = "reading" PROVE AtReading'
  <2>1. AtReading /\ sent # << >>
    BY <1>11 DEF Conveyed, AtReading
  <2>2. wire' = Stream(Tail(sent'))
    BY <1>4, <1>9, <2>1 DEF AtReading
  <2> QED BY <1>6, <1>9, <2>1, <2>2 DEF AtReading, InPlace
<1> QED BY <1>5, <1>6, <1>7, <1>8, <1>10, <1>11 DEF Conveyed

LEMMA ReceiveHeaderStep ==
    ASSUME Conveyed, ReceiveHeader
    PROVE  Conveyed'
<1> DEFINE h == Head(sent)
           rest == Stream(Tail(sent))
<1>1. wire = Stream(sent) /\ sent \in Seq(Fitting) /\ in \in Packets /\ Len(wire) >= 4
  BY DEF ReceiveHeader, Conveyed, AtHeader, Receiving
<1>2. sent # << >>
  <2>1. Stream(<< >>) = << >> /\ ~(Len(<< >>) >= 4)
    BY StreamFacts
  <2> QED BY <1>1, <2>1
<1>3. h \in Seq(Values) /\ rest \in Seq(Nat) /\ sent \in Seq(Seq(Values))
  BY <1>1, <1>2, FittingFacts
<1>4. wire = Packed(h) \o rest
  BY <1>1, <1>2, <1>3, StreamFirst
<1> HIDE DEF h, rest
<1>5. SubSeq(wire, 1, 4) = Header(h) /\ SubSeq(wire, 5, Len(wire)) = Body(h) \o rest
  BY <1>3, <1>4, HeaderSplit
<1>6. in' = Receive(Reset(in), Header(h)) /\ wire' = Body(h) \o rest
  BY <1>5 DEF ReceiveHeader
<1>7. in' \in Packets /\ in'.size = 4 /\ in'.write = 0 /\ Found(in'.buffer, 2, U16(Len(Body(h))))
  BY <1>1, <1>3, <1>6, HeaderReceived
<1>8. received' = 4 /\ stage' = "body" /\ got' = << >> /\ ~misread' /\ sent' = sent
      /\ out' = out /\ written' = written
  BY DEF ReceiveHeader, sender
<1>9. Sending'
  BY <1>8 DEF Conveyed, Sending
<1>10. Receiving'
  BY <1>1, <1>7, <1>8 DEF Receiving
<1>11. AtBody'
  BY <1>2, <1>6, <1>7, <1>8 DEF AtBody, h, rest
<1> QED BY <1>8, <1>9, <1>10, <1>11 DEF Conveyed

LEMMA ReceiveBodyStep ==
    ASSUME Conveyed, ReceiveBody
    PROVE  Conveyed'
<1> DEFINE h == Head(sent)
           b == Body(h)
           n == Len(b)
           rest == Stream(Tail(sent))
<1>1. AtBody /\ sent # << >> /\ sent \in Seq(Fitting) /\ in \in Packets /\ in.write = 0
  BY DEF ReceiveBody, Conveyed, AtBody, Receiving
<1>2. /\ h \in Seq(Values) /\ b \in Seq(Nat) /\ n \in Nat /\ 4 + n <= Capacity
      /\ rest \in Seq(Nat)
  BY <1>1, FittingFacts
<1>3. wire = b \o rest /\ in.size = 4 /\ received = 4 /\ got = << >> /\ ~misread
      /\ Found(in.buffer, 2, U16(n))
  BY <1>1 DEF AtBody
<1> HIDE DEF h, b, n, rest
<1>4. FromU16(Peek(in, 2, 2)) = n
  <2>1. 2 \in Nat
    OBVIOUS
  <2> QED BY <1>1, <1>2, <1>3, <2>1, LengthFound
<1>5. SubSeq(wire, 1, n) = b /\ SubSeq(wire, n + 1, Len(wire)) = rest
  BY <1>2, <1>3, SplitConcat DEF n
<1>6. in' = [Receive(in, b) EXCEPT !.read = 4] /\ wire' = rest /\ received' = 4 + n
  BY <1>3, <1>4, <1>5 DEF ReceiveBody
<1>7. in' \in Packets /\ in'.read = 4 /\ in'.size = 4 + n /\ in'.write = 0 /\ Found(in'.buffer, 4, b)
  <2>1. 4 + Len(b) <= Capacity
    BY <1>2 DEF n
  <2> QED BY <1>1, <1>2, <1>3, <1>6, <2>1, BodyReceived DEF n
<1>8. /\ stage' = "reading" /\ UNCHANGED <<out, written, sent, got, misread>>
  BY DEF ReceiveBody, sender
<1>9. Sending'
  BY <1>8 DEF Conveyed, Sending
<1>10. Receiving'
  BY <1>1, <1>7, <1>8 DEF Receiving
<1>11. InPlace'
  <2>1. << >> \in Seq(Values) /\ Body(<< >>) = << >> /\ Len(<< >>) = 0
    BY BodyFacts
  <2>2. h = << >> \o h
    BY <1>2
  <2>3. got' = << >> /\ Head(sent') = h
    BY <1>3, <1>8 DEF h
  <2>4. in'.read = 4 + Len(Body(got'))
    BY <1>7, <2>1, <2>3
  <2>5. \E r \in Seq(Values) : Head(sent') = got' \o r
    BY <1>2, <2>2, <2>3
  <2> QED BY <2>1, <2>3, <2>4, <2>5 DEF InPlace
<1>12. 4 <= in'.read /\ in'.read <= in'.size
  BY <1>2, <1>7
<1>13. AtReading'
  BY <1>1, <1>6, <1>7, <1>8, <1>11, <1>12 DEF AtReading, h, b, n, rest
<1> QED BY <1>8, <1>9, <1>10, <1>13 DEF Conveyed

LEMMA ReadValueStep ==
    ASSUME Conveyed, NEW type \in {v.type : v \in Values}, ReadValue(type)
    PROVE  Conveyed'
<1> DEFINE h == Head(sent)
           b == Body(h)
           result == Read(in, type)
           expected == Len(got) < Len(h) /\ h[Len(got) + 1].type = type
<1>1. AtReading /\ sent # << >> /\ sent \in Seq(Fitting) /\ in \in Packets /\ in.write = 0
      /\ stage = "reading"
  BY DEF ReadValue, Conveyed, AtReading, Receiving
<1>2. h \in Seq(Values) /\ b \in Seq(Nat) /\ Len(b) \in Nat /\ 4 + Len(b) <= Capacity
  BY <1>1, FittingFacts
<1>3. /\ in.size = 4 + Len(b) /\ received = in.size /\ 4 <= in.read /\ in.read <= in.size
      /\ Found(in.buffer, 4, b) /\ in.read \in Nat /\ in.size \in Nat
  BY <1>1 DEF AtReading, Packets
<1>4. Readable(in)
  BY <1>1, <1>2, <1>3 DEF Readable
<1>5. type \in {"u8", "u16", "float", "string"}
  BY EncodeFacts
<1>6. /\ in' = result.packet
      /\ got' = IF result.threw THEN got ELSE Append(got, result.value)
      /\ misread' = (misread \/ result.threw \/ ~expected)
      /\ UNCHANGED <<out, written, wire, sent, received, stage>>
  BY DEF ReadValue, sender
<1>7. Advanced(in, in')
  BY <1>4, <1>5, <1>6, ReadAdvances
<1>8. /\ in' \in Packets /\ in'.buffer = in.buffer /\ in'.size = in.size /\ in'.write = 0
      /\ in.read <= in'.read /\ in'.read <= in'.size /\ in'.read \in Nat
  BY <1>1, <1>7 DEF Advanced, Packets
<1>9. ASSUME ~misread' PROVE InPlace'
  <2>1. ~misread /\ ~result.threw /\ expected
    <3> HIDE DEF result, expected
    <3> QED BY <1>6, <1>9
  <2>2. InPlace
    BY <1>1, <2>1 DEF AtReading
  <2>3. PICK rest \in Seq(Values) : h = got \o rest
    BY <2>2 DEF InPlace
  <2>4. got \in Seq(Values) /\ in.read = 4 + Len(Body(got))
    BY <2>2 DEF InPlace
  <2> DEFINE v == h[Len(got) + 1]
  <2>5. /\ v \in Values /\ Append(got, v) \in Seq(Values)
        /\ \E r \in Seq(Values) : h = Append(got, v) \o r
        /\ Len(Body(Append(got, v))) = Len(Body(got)) + Len(Encode(v))
        /\ Found(in.buffer, in.read, Encode(v))
        /\ in.read + Len(Encode(v)) <= in.size
    <3> HIDE DEF h
    <3>1. Len(got) < Len(h)
      BY <2>1
    <3> QED BY <1>2, <1>3, <1>4, <2>3, <2>4, <3>1, NextFound
  <2>6. v.type = type
    BY <2>1
  <2> HIDE DEF v, h, result, expected
  <2>7. /\ ~Read(in, v.type).threw /\ Read(in, v.type).value = v
        /\ Read(in, v.type).packet.read = in.read + Len(Encode(v))
    BY <1>4, <2>5, ReadFound
  <2>8. result.value = v /\ result.packet.read = in.read + Len(Encode(v))
    BY <2>6, <2>7 DEF result
  <2>9. got' = Append(got, v) /\ in'.read = in.read + Len(Encode(v))
    BY <1>6, <2>1, <2>8
  <2>10. in'.read = 4 + Len(Body(got'))
    <3>1. Body(got) \in Seq(Nat) /\ Encode(v) \in Seq(Nat)
      BY <2>4, <2>5, BodyFacts, EncodeFacts
    <3>2. Len(Body(got)) \in Nat /\ Len(Encode(v)) \in Nat
      BY <3>1
    <3> QED BY <2>4, <2>5, <2>9, <3>2
  <2>11. Head(sent') = h
    BY <1>6 DEF h
  <2> QED BY <2>5, <2>9, <2>10, <2>11 DEF InPlace
<1>10. Sending'
  BY <1>6 DEF Conveyed, Sending
<1>11. Receiving'
  BY <1>1, <1>6, <1>8 DEF Receiving
<1>12. 4 <= in'.read
  BY <1>3, <1>8
<1>13. AtReading'
  <2>1. sent' # << >> /\ wire' = Stream(Tail(sent')) /\ received' = in'.size
        /\ in'.size = 4 + Len(Body(Head(sent'))) /\ Found(in'.buffer, 4, Body(Head(sent')))
    BY <1>1, <1>6, <1>8 DEF AtReading
  <2> QED BY <1>8, <1>9, <1>12, <2>1 DEF AtReading
<1> QED BY <1>1, <1>6, <1>10, <1>11, <1>13 DEF Conveyed

LEMMA NextPacketStep ==
    ASSUME Conveyed, NextPacket
    PROVE  Conveyed'
<1>1. AtReading /\ sent # << >> /\ sent \in Seq(Fitting) /\ in \in Packets /\ in.write = 0
  BY DEF NextPacket, Conveyed, AtReading, Receiving
<1>2. Tail(sent) \in Seq(Fitting)
  BY <1>1, FittingFacts
<1>3. stage' = "header" /\ sent' = Tail(sent) /\ UNCHANGED <<out, written, wire, in>>
  BY DEF NextPacket, sender
<1>4. Sending'
  BY <1>3 DEF Conveyed, Sending
<1>5. Receiving'
  BY <1>1, <1>2, <1>3 DEF Receiving
<1>6. AtHeader'
  BY <1>1, <1>3 DEF AtReading, AtHeader
<1> QED BY <1>3, <1>4, <1>5, <1>6 DEF Conveyed

(* What was written into a packet, what is on the wire and what the receiver *)
(* has of the packet agree in every reachable state.                         *)
THEOREM ConveyedInvariant == Spec => []Conveyed
<1>1. Init => Conveyed
  BY ConveyedInit
<1>2. Conveyed /\ [Next]_vars => Conveyed'
  <2> SUFFICES ASSUME Conveyed, [Next]_vars PROVE Conveyed'
    OBVIOUS
  <2>1. CASE \E v \in Values : Write(v)
    BY <2>1, WriteStep
  <2>2. CASE Relay
    BY <2>2, RelayStep
  <2>3. CASE Send
    BY <2>3, SendStep
  <2>4. CASE ReceiveHeader
    BY <2>4, ReceiveHeaderStep
  <2>5. CASE ReceiveBody
    BY <2>5, ReceiveBodyStep
  <2>6. CASE NextPacket
    BY <2>6, NextPacketStep
  <2>7. CASE \E type \in {v.type : v \in Values} : ReadValue(type)
    BY <2>7, ReadValueStep
  <2>8. CASE UNCHANGED vars
    BY <2>8 DEF vars, Conveyed, Sending, Receiving, AtHeader, AtBody, AtReading, InPlace
  <2> QED BY <2>1, <2>2, <2>3, <2>4, <2>5, <2>6, <2>7, <2>8 DEF Next
<1> QED BY <1>1, <1>2, PTL DEF Spec

(* Between two packets the bytes on the wire are whole packets, whatever     *)
(* the receiver has read of the last one: scheduleRead never loses step.     *)
THEOREM StreamStaysInStep == Spec => []StreamInStep
<1>1. Conveyed => StreamInStep
  BY DEF Conveyed, AtHeader, StreamInStep
<1> QED BY <1>1, ConveyedInvariant, PTL

(* A read that does not throw returns bytes of this packet, never those a    *)
(* longer packet has left in the receiver's buffer.                          *)
THEOREM NeverStale == Spec => []NoStaleBytes
<1>1. Conveyed => NoStaleBytes
  BY DEF Conveyed, AtReading, NoStaleBytes
<1> QED BY <1>1, ConveyedInvariant, PTL

(* The values read, with the types that were written, are those written.     *)
THEOREM ReadBack == Spec => []ReadsWhatWasWritten
<1>1. Conveyed => ReadsWhatWasWritten
  <2> SUFFICES ASSUME Conveyed, stage = "reading", ~misread PROVE IsPrefix(got, Head(sent))
    BY DEF ReadsWhatWasWritten
  <2>1. got \in Seq(Values) /\ \E rest \in Seq(Values) : Head(sent) = got \o rest
    BY DEF Conveyed, AtReading, InPlace
  <2>2. PICK rest \in Seq(Values) : Head(sent) = got \o rest
    BY <2>1
  <2> DEFINE h == Head(sent)
             n == Len(got)
             s == SubSeq(got, 1, n)
             t == SubSeq(h, 1, n)
  <2>3. /\ h \in Seq(Values) /\ Len(h) = n + Len(rest) /\ n \in Nat /\ Len(rest) \in Nat
        /\ \A i \in 1..n : h[i] = got[i]
    <3>1. /\ got \o rest \in Seq(Values) /\ Len(got \o rest) = n + Len(rest)
          /\ \A i \in 1..(n + Len(rest)) :
                (got \o rest)[i] = IF i <= n THEN got[i] ELSE rest[i - n]
      BY <2>1, ConcatProperties
    <3>2. n \in Nat /\ Len(rest) \in Nat
      BY <2>1
    <3>3. \A i \in 1..n : i \in 1..(n + Len(rest)) /\ i <= n
      BY <3>2
    <3> QED BY <2>2, <3>1, <3>2, <3>3
  <2> HIDE DEF h, n
  <2>4. \A i \in 1..n : got[i] \in Values /\ h[i] \in Values
    BY <2>1, <2>3 DEF n
  <2>5. 1 \in Int /\ n \in Int
    BY <2>3
  <2>6. /\ s \in Seq(Values) /\ Len(s) = IF 1 <= n THEN n - 1 + 1 ELSE 0
        /\ \A i \in 1..(n - 1 + 1) : s[i] = got[1 + i - 1]
    BY <2>4, <2>5, SubSeqProperties
  <2>7. /\ t \in Seq(Values) /\ Len(t) = IF 1 <= n THEN n - 1 + 1 ELSE 0
        /\ \A i \in 1..(n - 1 + 1) : t[i] = h[1 + i - 1]
    BY <2>4, <2>5, SubSeqProperties
  <2> HIDE DEF s, t
  <2>8. n - 1 + 1 = n /\ \A i \in 1..n : 1 + i - 1 = i
    BY <2>3
  <2>9. Len(s) = n /\ Len(t) = n /\ \A i \in 1..n : s[i] = t[i]
    BY <2>3, <2>6, <2>7, <2>8
  <2>10. s = t
    BY <2>6, <2>7, <2>9, SeqEqual
  <2>11. n <= Len(h)
    BY <2>3
  <2> QED BY <2>10, <2>11 DEF IsPrefix, s, t, n, h
<1> QED BY <1>1, ConveyedInvariant, PTL

(* ReadOutOfBounds is thrown only after the receiver has asked for something *)
(* that was not written.                                                     *)
THEOREM ThrowsOnMisread == Spec => []ThrowsOnlyOnMisread
<1>1. Conveyed => ThrowsOnlyOnMisread
  <2> SUFFICES ASSUME Conveyed, stage = "reading", ~misread, Len(got) < Len(Head(sent))
               PROVE  ~Read(in, Head(sent)[Len(got) + 1].type).threw
    BY DEF ThrowsOnlyOnMisread
  <2> DEFINE h == Head(sent)
             v == h[Len(got) + 1]
  <2>1. AtReading /\ InPlace /\ sent # << >> /\ sent \in Seq(Fitting) /\ in \in Packets
        /\ in.write = 0
    BY DEF Conveyed, AtReading, Receiving
  <2>2. h \in Seq(Values) /\ Len(Body(h)) \in Nat /\ 4 + Len(Body(h)) <= Capacity
    BY <2>1, FittingFacts
  <2>3. /\ in.size = 4 + Len(Body(h)) /\ in.read <= in.size /\ Found(in.buffer, 4, Body(h))
    BY <2>1 DEF AtReading
  <2>4. Readable(in)
    BY <2>1, <2>2, <2>3 DEF Readable
  <2>5. PICK rest \in Seq(Values) : h = got \o rest
    BY <2>1 DEF InPlace
  <2>6. got \in Seq(Values) /\ in.read = 4 + Len(Body(got)) /\ Len(got) < Len(h)
    BY <2>1 DEF InPlace
  <2> HIDE DEF h
  <2>7. /\ v \in Values /\ Found(in.buffer, in.read, Encode(v))
        /\ in.read + Len(Encode(v)) <= in.size
    BY <2>2, <2>3, <2>4, <2>5, <2>6, NextFound
  <2> HIDE DEF v
  <2>8. ~Read(in, v.type).threw
    BY <2>4, <2>7, ReadFound
  <2> QED BY <2>8 DEF v, h
<1> QED BY <1>1, ConveyedInvariant, PTL
=============================================================================
