---------------------------- MODULE ReplyReading ----------------------------
(***************************************************************************)
(* Theorem: what the caller of query() is given is what the server has     *)
(* sent, for every message, name and buffer.  The parts of a packet are    *)
(* laid out by FlattenSeq(), which is defined by recursion, so what it     *)
(* does is proved first: the parts follow each other, each where the ones  *)
(* before it end.  Then the invariant says where in this layout the parser *)
(* and the iterator are, and what the caller has got from it so far.       *)
(***************************************************************************)
EXTENDS DnsReply, DnsBounds, WellFoundedInduction

\* Induction, from the least number that is not in a set.
LEMMA Induction ==
    ASSUME NEW S, 0 \in S, \A n \in Nat : n \in S => n + 1 \in S
    PROVE  \A n \in Nat : n \in S
<1> DEFINE T == Nat \ S
<1> SUFFICES ASSUME T # {} PROVE FALSE
  OBVIOUS
<1>1. \E n \in T : \A m \in T : ~(<<m, n>> \in OpToRel(<, Nat))
  BY NatLessThanWellFounded, WFMin
<1>2. PICK n \in T : \A m \in T : ~(m < n)
  BY <1>1 DEF OpToRel
<1>3. n # 0 /\ n - 1 \in Nat /\ n - 1 < n
  BY <1>2
<1>4. n - 1 \in S
  BY <1>2, <1>3
<1> QED BY <1>3, <1>4

-----------------------------------------------------------------------------
\* The concatenations of the first parts: what FlattenSeq() is defined by.
IsFlattening(fl, parts) ==
    fl = [i \in 1..Len(parts) |-> IF i = 1 THEN parts[i] ELSE fl[i - 1] \o parts[i]]

\* They exist, by induction over the number of parts.
LEMMA FlatteningExists ==
    ASSUME NEW T, NEW parts \in Seq(Seq(T))
    PROVE  \E fl : IsFlattening(fl, parts)
<1> DEFINE Upto(k, fl) == fl = [i \in 1..k |-> IF i = 1 THEN parts[i] ELSE fl[i - 1] \o parts[i]]
           S == {k \in Nat : \E fl : Upto(k, fl)}
<1>1. 0 \in S
  <2>1. Upto(0, [i \in 1..0 |-> 0])
    OBVIOUS
  <2> QED BY <2>1
<1>2. ASSUME NEW k \in Nat, k \in S PROVE k + 1 \in S
  <2>1. PICK fl : Upto(k, fl)
    BY <1>2
  <2> DEFINE next == [i \in 1..(k + 1) |->
                        IF i <= k THEN fl[i] ELSE IF i = 1 THEN parts[i] ELSE fl[k] \o parts[i]]
  <2>2. \A i \in 1..(k + 1) : next[i] = IF i = 1 THEN parts[i] ELSE next[i - 1] \o parts[i]
    <3> SUFFICES ASSUME NEW i \in 1..(k + 1)
                 PROVE  next[i] = IF i = 1 THEN parts[i] ELSE next[i - 1] \o parts[i]
      OBVIOUS
    <3>1. CASE i <= k
      <4>1. i \in 1..k /\ (i # 1 => i - 1 \in 1..k)
        BY <3>1
      <4>2. fl[i] = IF i = 1 THEN parts[i] ELSE fl[i - 1] \o parts[i]
        BY <2>1, <4>1
      <4> QED BY <3>1, <4>1, <4>2
    <3>2. CASE i = k + 1
      BY <3>2
    <3> QED BY <3>1, <3>2
  <2>3. Upto(k + 1, next)
    <3>1. next = [i \in 1..(k + 1) |-> next[i]]
      OBVIOUS
    <3> QED BY <2>2, <3>1
  <2> HIDE DEF next, Upto
  <2>4. \E g : Upto(k + 1, g)
    BY <2>3
  <2> QED BY <2>4
<1> HIDE DEF S
<1>3. \A k \in Nat : k \in S
  BY <1>1, <1>2, Induction
<1>4. Len(parts) \in S
  BY <1>3
<1> QED BY <1>4 DEF IsFlattening, S

\* So FlattenSeq() is the last of them.
LEMMA FlattenSeqDef ==
    ASSUME NEW T, NEW parts \in Seq(Seq(T))
    PROVE  /\ parts = <<>> => FlattenSeq(parts) = <<>>
           /\ parts # <<>> => \E fl : IsFlattening(fl, parts) /\ FlattenSeq(parts) = fl[Len(parts)]
<1>1. parts = <<>> => FlattenSeq(parts) = <<>>
  BY DEF FlattenSeq
<1>2. ASSUME parts # <<>>
      PROVE \E fl : IsFlattening(fl, parts) /\ FlattenSeq(parts) = fl[Len(parts)]
  <2>1. Len(parts) # 0
    BY <1>2
  <2>2. PICK g : IsFlattening(g, parts)
    BY FlatteningExists
  <2> QED BY <2>1, <2>2 DEF FlattenSeq, IsFlattening
<1> QED BY <1>1, <1>2

\* Two ways to concatenate agree as far as their parts do.
LEMMA FlatteningsAgree ==
    ASSUME NEW T, NEW s \in Seq(Seq(T)), NEW t \in Seq(Seq(T)), NEW f, NEW g,
           IsFlattening(f, s), IsFlattening(g, t),
           NEW n \in Nat, n <= Len(s), n <= Len(t), \A i \in 1..n : s[i] = t[i]
    PROVE  \A i \in 1..n : f[i] = g[i] /\ f[i] \in Seq(T)
<1> DEFINE S == {k \in Nat : k \in 1..n => f[k] = g[k] /\ f[k] \in Seq(T)}
<1>1. 0 \in S
  OBVIOUS
<1>2. ASSUME NEW k \in Nat, k \in S PROVE k + 1 \in S
  <2> SUFFICES ASSUME k + 1 \in 1..n PROVE f[k + 1] = g[k + 1] /\ f[k + 1] \in Seq(T)
    OBVIOUS
  <2> DEFINE i == k + 1
  <2>1. i \in 1..Len(s) /\ i \in 1..Len(t) /\ s[i] = t[i] /\ s[i] \in Seq(T) /\ i - 1 = k
    <3>1. i \in 1..n /\ i - 1 = k
      OBVIOUS
    <3> HIDE DEF i, S
    <3>2. i \in 1..Len(s) /\ i \in 1..Len(t)
      BY <3>1
    <3>3. s[i] \in Seq(T)
      BY <3>2
    <3> QED BY <3>1, <3>2, <3>3
  <2>2. f[i] = IF i = 1 THEN s[i] ELSE f[i - 1] \o s[i]
    BY <2>1 DEF IsFlattening
  <2>3. g[i] = IF i = 1 THEN t[i] ELSE g[i - 1] \o t[i]
    BY <2>1 DEF IsFlattening
  <2>4. CASE i = 1
    BY <2>1, <2>2, <2>3, <2>4
  <2>5. CASE i # 1
    <3>1. f[k] = g[k] /\ f[k] \in Seq(T)
      BY <1>2, <2>5
    <3>2. f[i] = f[k] \o s[i] /\ g[i] = g[k] \o t[i]
      BY <2>1, <2>2, <2>3, <2>5
    <3>3. f[k] \o s[i] \in Seq(T)
      BY <2>1, <3>1
    <3> QED BY <2>1, <3>1, <3>2, <3>3
  <2> QED BY <2>4, <2>5
<1> HIDE DEF S
<1>3. \A k \in Nat : k \in S
  BY <1>1, <1>2, Induction
<1> QED BY <1>3 DEF S

LEMMA FlattenEmpty == FlattenSeq(<<>>) = <<>>
BY DEF FlattenSeq

\* One part more.
LEMMA FlattenAppend ==
    ASSUME NEW T, NEW parts \in Seq(Seq(T)), NEW part \in Seq(T)
    PROVE  /\ FlattenSeq(parts) \in Seq(T)
           /\ FlattenSeq(Append(parts, part)) = FlattenSeq(parts) \o part
<1> DEFINE longer == Append(parts, part)
           n == Len(parts)
<1>1. /\ longer \in Seq(Seq(T)) /\ Len(longer) = n + 1 /\ n \in Nat
      /\ longer[n + 1] = part /\ \A i \in 1..n : longer[i] = parts[i]
  OBVIOUS
<1>2. longer # <<>>
  <2>1. Len(<<>>) = 0 /\ n + 1 # 0
    BY <1>1
  <2> QED BY <1>1, <2>1
<1> HIDE DEF longer
<1>3. PICK g : IsFlattening(g, longer) /\ FlattenSeq(longer) = g[n + 1]
  BY <1>1, <1>2, FlattenSeqDef
<1>4. g[n + 1] = IF n + 1 = 1 THEN part ELSE g[n] \o part
  <2>1. n + 1 \in 1..Len(longer) /\ (n + 1) - 1 = n
    BY <1>1
  <2>2. g[n + 1] = IF n + 1 = 1 THEN longer[n + 1] ELSE g[(n + 1) - 1] \o longer[n + 1]
    BY <1>3, <2>1 DEF IsFlattening
  <2> QED BY <1>1, <2>1, <2>2
<1>5. FlattenSeq(<<>>) = <<>>
  BY FlattenEmpty
<1>6. CASE parts = <<>>
  <2>1. n = 0 /\ FlattenSeq(parts) = <<>>
    BY <1>5, <1>6
  <2>2. g[n + 1] = part
    BY <1>4, <2>1
  <2> QED BY <1>3, <1>5, <2>1, <2>2 DEF longer
<1>7. CASE parts # <<>>
  <2>1. PICK f : IsFlattening(f, parts) /\ FlattenSeq(parts) = f[n]
    BY <1>7, FlattenSeqDef
  <2>2. n \in 1..n /\ n + 1 # 1
    BY <1>7
  <2>3. n <= Len(parts) /\ n <= Len(longer) /\ \A i \in 1..n : parts[i] = longer[i]
    BY <1>1
  <2>4. \A i \in 1..n : f[i] = g[i] /\ f[i] \in Seq(T)
    BY <1>1, <1>3, <2>1, <2>3, FlatteningsAgree
  <2>5. f[n] = g[n] /\ f[n] \in Seq(T)
    BY <2>2, <2>4
  <2> QED BY <1>3, <1>4, <1>5, <2>1, <2>2, <2>5 DEF longer
<1> QED BY <1>6, <1>7

LEMMA FunctionIsSequence ==
    ASSUME NEW T, NEW n \in Nat, NEW s \in [1..n -> T]
    PROVE  s \in Seq(T) /\ Len(s) = n
OBVIOUS

LEMMA NotEmpty ==
    ASSUME NEW T, NEW s \in Seq(T), s # <<>>
    PROVE  Len(s) \in Nat /\ Len(s) > 0
OBVIOUS

LEMMA Concatenated ==
    ASSUME NEW T, NEW s \in Seq(T), NEW t \in Seq(T)
    PROVE  /\ s \o t \in Seq(T) /\ Len(s \o t) = Len(s) + Len(t)
           /\ \A j \in 1..Len(s) : (s \o t)[j] = s[j]
           /\ \A j \in 1..Len(t) : (s \o t)[Len(s) + j] = t[j]
OBVIOUS

\* How far the first parts of a concatenation reach.
Before(parts, k) == Len(FlattenSeq(SubSeq(parts, 1, k)))

\* The parts follow each other without a gap, and each is found where it begins.
LEMMA FlattenLayout ==
    ASSUME NEW T, NEW parts \in Seq(Seq(T))
    PROVE  /\ FlattenSeq(parts) \in Seq(T)
           /\ Before(parts, 0) = 0
           /\ Before(parts, Len(parts)) = Len(FlattenSeq(parts))
           /\ \A k \in 0..Len(parts) :
                /\ Before(parts, k) \in Nat /\ Before(parts, k) <= Len(FlattenSeq(parts))
                /\ \A j \in 1..Before(parts, k) :
                     FlattenSeq(parts)[j] = FlattenSeq(SubSeq(parts, 1, k))[j]
           /\ \A k \in 1..Len(parts) :
                /\ FlattenSeq(SubSeq(parts, 1, k)) = FlattenSeq(SubSeq(parts, 1, k - 1)) \o parts[k]
                /\ Before(parts, k) = Before(parts, k - 1) + Len(parts[k])
                /\ \A j \in 1..Len(parts[k]) :
                     FlattenSeq(parts)[Before(parts, k - 1) + j] = parts[k][j]
<1> DEFINE upto(k) == FlattenSeq(SubSeq(parts, 1, k))
           n == Len(parts)
<1>1. n \in Nat /\ SubSeq(parts, 1, 0) = <<>> /\ SubSeq(parts, 1, n) = parts
  OBVIOUS
<1>2. \A k \in 0..n : SubSeq(parts, 1, k) \in Seq(Seq(T))
  OBVIOUS
<1>3. ASSUME NEW k \in 0..n PROVE upto(k) \in Seq(T)
  <2>1. SubSeq(parts, 1, k) \in Seq(Seq(T)) /\ <<>> \in Seq(T)
    BY <1>2
  <2> QED BY <2>1, FlattenAppend
<1>4. ASSUME NEW k \in 1..n PROVE upto(k) = upto(k - 1) \o parts[k]
  <2>1. k - 1 \in 0..n /\ parts[k] \in Seq(T)
    OBVIOUS
  <2>2. SubSeq(parts, 1, k) = Append(SubSeq(parts, 1, k - 1), parts[k])
    OBVIOUS
  <2> QED BY <1>2, <2>1, <2>2, FlattenAppend
<1>5. upto(0) = <<>> /\ upto(n) = FlattenSeq(parts)
  BY <1>1, FlattenEmpty
<1> HIDE DEF upto
<1>6. \A k \in 0..n : Len(upto(k)) \in Nat
  BY <1>3
<1>7. ASSUME NEW k \in 1..n
      PROVE  /\ Len(upto(k)) = Len(upto(k - 1)) + Len(parts[k])
             /\ \A j \in 1..Len(upto(k - 1)) : upto(k)[j] = upto(k - 1)[j]
             /\ \A j \in 1..Len(parts[k]) : upto(k)[Len(upto(k - 1)) + j] = parts[k][j]
  <2>1. upto(k - 1) \in Seq(T) /\ parts[k] \in Seq(T)
    BY <1>3
  <2>2. upto(k) = upto(k - 1) \o parts[k]
    BY <1>4
  <2> QED BY <2>1, <2>2, Concatenated
\* Going down from the end, every prefix is one of the whole.
<1> DEFINE Within(k) == /\ Len(upto(k)) <= Len(upto(n))
                        /\ \A j \in 1..Len(upto(k)) : upto(n)[j] = upto(k)[j]
           S == {d \in Nat : d <= n => Within(n - d)}
<1>8. 0 \in S
  BY <1>1, <1>6
<1>9. ASSUME NEW d \in Nat, d \in S PROVE d + 1 \in S
  <2> SUFFICES ASSUME d + 1 <= n PROVE Within(n - (d + 1))
    OBVIOUS
  <2> DEFINE k == n - d
  <2>1. k \in 1..n /\ k - 1 = n - (d + 1) /\ k - 1 \in 0..n /\ k \in 0..n
    BY <1>1
  <2>2. Within(k)
    BY <1>1, <1>9
  <2>3. Within(k - 1)
    <3>1. Len(upto(k)) = Len(upto(k - 1)) + Len(parts[k]) /\ Len(parts[k]) \in Nat
      BY <1>7, <2>1
    <3>2. Len(upto(k - 1)) <= Len(upto(k))
      BY <1>6, <2>1, <3>1
    <3>3. \A j \in 1..Len(upto(k - 1)) : j \in 1..Len(upto(k))
      BY <1>6, <2>1, <3>2
    <3>4. \A j \in 1..Len(upto(k - 1)) : upto(k)[j] = upto(k - 1)[j]
      BY <1>7, <2>1
    <3>5. \A j \in 1..Len(upto(k - 1)) : j \in 1..Len(upto(k)) /\ upto(k)[j] = upto(k - 1)[j]
      BY <3>3, <3>4
    <3> QED BY <1>1, <1>6, <2>1, <2>2, <3>2, <3>5
  <2> QED BY <2>1, <2>3
<1> HIDE DEF S, Within
<1>10. \A d \in Nat : d \in S
  BY <1>8, <1>9, Induction
<1>11. \A k \in 0..n : Within(k)
  <2> SUFFICES ASSUME NEW k \in 0..n PROVE Within(k)
    OBVIOUS
  <2>1. n - k \in Nat /\ n - k <= n /\ n - (n - k) = k
    BY <1>1
  <2> QED BY <1>10, <2>1 DEF S
<1>12. ASSUME NEW k \in 1..n, NEW j \in 1..Len(parts[k])
       PROVE  upto(n)[Len(upto(k - 1)) + j] = parts[k][j]
  <2>1. k \in 0..n /\ k - 1 \in 0..n /\ Len(parts[k]) \in Nat
    OBVIOUS
  <2>2. Len(upto(k - 1)) + j \in 1..Len(upto(k))
    <3>1. Len(upto(k)) = Len(upto(k - 1)) + Len(parts[k])
      BY <1>7
    <3> QED BY <1>6, <2>1, <3>1
  <2>3. upto(n)[Len(upto(k - 1)) + j] = upto(k)[Len(upto(k - 1)) + j]
    BY <1>11, <2>1, <2>2 DEF Within
  <2> QED BY <1>7, <2>3
<1>13. \A k : Before(parts, k) = Len(upto(k))
  BY DEF Before, upto
<1>14. /\ FlattenSeq(parts) \in Seq(T) /\ Before(parts, 0) = 0
       /\ Before(parts, n) = Len(FlattenSeq(parts))
  BY <1>1, <1>3, <1>5, <1>13
<1>15. \A k \in 0..n :
         /\ Before(parts, k) \in Nat /\ Before(parts, k) <= Len(FlattenSeq(parts))
         /\ \A j \in 1..Before(parts, k) : FlattenSeq(parts)[j] = upto(k)[j]
  BY <1>5, <1>6, <1>11, <1>13 DEF Within
<1>16. \A k \in 1..n :
         /\ upto(k) = upto(k - 1) \o parts[k]
         /\ Before(parts, k) = Before(parts, k - 1) + Len(parts[k])
         /\ \A j \in 1..Len(parts[k]) : FlattenSeq(parts)[Before(parts, k - 1) + j] = parts[k][j]
  <2> SUFFICES ASSUME NEW k \in 1..n
               PROVE  /\ upto(k) = upto(k - 1) \o parts[k]
                      /\ Before(parts, k) = Before(parts, k - 1) + Len(parts[k])
                      /\ \A j \in 1..Len(parts[k]) :
                           FlattenSeq(parts)[Before(parts, k - 1) + j] = parts[k][j]
    OBVIOUS
  <2>1. \A j \in 1..Len(parts[k]) : FlattenSeq(parts)[Before(parts, k - 1) + j] = parts[k][j]
    BY <1>5, <1>12, <1>13
  <2>2. Before(parts, k) = Before(parts, k - 1) + Len(parts[k])
    BY <1>7, <1>13
  <2> QED BY <1>4, <2>1, <2>2
<1> QED BY <1>14, <1>15, <1>16 DEF upto

-----------------------------------------------------------------------------
\* to_be_bytes() and u16::from_be_bytes()
LEMMA BigEndian ==
    ASSUME NEW n \in Word
    PROVE  BE16(n) \in Seq(Byte) /\ Len(BE16(n)) = 2 /\ 256 * BE16(n)[1] + BE16(n)[2] = n
<1>1. n \in Nat /\ n \div 256 \in 0..255 /\ n % 256 \in 0..255 /\ 256 * (n \div 256) + (n % 256) = n
  BY DEF Word
<1> QED BY <1>1 DEF BE16, Byte

\* Where four sequences in a row are found.
Row(all, s, t, u, v) ==
    /\ all \in Seq(Byte) /\ Len(all) = Len(s) + Len(t) + Len(u) + Len(v)
    /\ \A j \in 1..Len(s) : all[j] = s[j]
    /\ \A j \in 1..Len(t) : all[Len(s) + j] = t[j]
    /\ \A j \in 1..Len(u) : all[Len(s) + Len(t) + j] = u[j]
    /\ \A j \in 1..Len(v) : all[Len(s) + Len(t) + Len(u) + j] = v[j]

LEMMA ConcatenatedThrice ==
    ASSUME NEW s \in Seq(Byte), NEW t \in Seq(Byte), NEW u \in Seq(Byte), NEW v \in Seq(Byte)
    PROVE  Row(s \o t \o u \o v, s, t, u, v)
<1> DEFINE a == s \o t
           b == a \o u
           all == b \o v
<1>1. /\ a \in Seq(Byte) /\ Len(a) = Len(s) + Len(t)
      /\ \A j \in 1..Len(s) : a[j] = s[j]
      /\ \A j \in 1..Len(t) : a[Len(s) + j] = t[j]
  BY Concatenated
<1>2. /\ b \in Seq(Byte) /\ Len(b) = Len(a) + Len(u)
      /\ \A j \in 1..Len(a) : b[j] = a[j]
      /\ \A j \in 1..Len(u) : b[Len(a) + j] = u[j]
  BY <1>1, Concatenated
<1>3. /\ all \in Seq(Byte) /\ Len(all) = Len(b) + Len(v)
      /\ \A j \in 1..Len(b) : all[j] = b[j]
      /\ \A j \in 1..Len(v) : all[Len(b) + j] = v[j]
  BY <1>2, Concatenated
<1>4. Len(s) \in Nat /\ Len(t) \in Nat /\ Len(u) \in Nat /\ Len(v) \in Nat
  OBVIOUS
<1> HIDE DEF a, b, all
<1>5. \A j \in 1..Len(s) : j \in 1..Len(a) /\ j \in 1..Len(b)
  BY <1>1, <1>2, <1>4
<1>6. \A j \in 1..Len(t) : Len(s) + j \in 1..Len(a) /\ Len(s) + j \in 1..Len(b)
  BY <1>1, <1>2, <1>4
<1>7. \A j \in 1..Len(u) : Len(a) + j \in 1..Len(b)
  BY <1>1, <1>2, <1>4
<1>8. \A j \in 1..Len(s) : all[j] = s[j]
  BY <1>1, <1>2, <1>3, <1>5
<1>9. \A j \in 1..Len(t) : all[Len(s) + j] = t[j]
  BY <1>1, <1>2, <1>3, <1>6
<1>10. \A j \in 1..Len(u) : all[Len(s) + Len(t) + j] = u[j]
  BY <1>1, <1>2, <1>3, <1>7
<1>11. \A j \in 1..Len(v) : all[Len(s) + Len(t) + Len(u) + j] = v[j]
  BY <1>1, <1>2, <1>3
<1>12. Len(all) = Len(s) + Len(t) + Len(u) + Len(v)
  BY <1>1, <1>2, <1>3
<1> QED BY <1>3, <1>8, <1>9, <1>10, <1>11, <1>12 DEF Row, a, b, all

\* The bytes of a record, n of them for its name.
Fields(r, e, n) ==
    /\ e \in Seq(Byte) /\ Len(e) = n + 10 + Len(r.data)
    /\ \A j \in 1..n : e[j] = r.name[j]
    /\ 256 * e[n + 1] + e[n + 2] = r.rr_type
    /\ 256 * e[n + 3] + e[n + 4] = r.class
    /\ \A j \in 1..4 : e[n + 4 + j] = r.ttl[j]
    /\ 256 * e[n + 9] + e[n + 10] = Len(r.data)
    /\ \A j \in 1..Len(r.data) : e[n + 10 + j] = r.data[j]

\* A record has its fields where next() looks for them.
LEMMA RecordLayout ==
    ASSUME NEW r \in ResourceRecord
    PROVE  Fields(r, EncodedRecord(r), Len(r.name))
<1> DEFINE e     == EncodedRecord(r)
           n     == Len(r.name)
           name  == r.name
           ttl   == r.ttl
           data  == r.data
           type  == BE16(r.rr_type)
           class == BE16(r.class)
           length == BE16(Len(data))
           head  == name \o type \o class \o ttl
<1>1. /\ name \in Seq(Byte) /\ ttl \in Seq(Byte) /\ Len(ttl) = 4 /\ data \in Seq(Byte)
      /\ r.rr_type \in Word /\ r.class \in Word /\ Len(data) \in Word
      /\ n = Len(name) /\ n \in Nat /\ Len(data) \in Nat
  BY DEF ResourceRecord
<1>2. /\ type \in Seq(Byte) /\ Len(type) = 2 /\ 256 * type[1] + type[2] = r.rr_type
      /\ class \in Seq(Byte) /\ Len(class) = 2 /\ 256 * class[1] + class[2] = r.class
      /\ length \in Seq(Byte) /\ Len(length) = 2 /\ 256 * length[1] + length[2] = Len(data)
  BY <1>1, BigEndian
<1>3. head = name \o type \o class \o ttl
  OBVIOUS
<1>4. e = head \o length \o data \o <<>>
  <2>1. head \o length \o data = e
    BY DEF EncodedRecord
  <2>2. head \o length \o data \in Seq(Byte)
    BY <1>1, <1>2
  <2> QED BY <2>1, <2>2
<1> HIDE DEF e, n, name, ttl, data, type, class, length, head
<1>5. /\ head \in Seq(Byte) /\ Len(head) = Len(name) + Len(type) + Len(class) + Len(ttl)
      /\ \A j \in 1..Len(name) : head[j] = name[j]
      /\ \A j \in 1..Len(type) : head[Len(name) + j] = type[j]
      /\ \A j \in 1..Len(class) : head[Len(name) + Len(type) + j] = class[j]
      /\ \A j \in 1..Len(ttl) : head[Len(name) + Len(type) + Len(class) + j] = ttl[j]
  <2>1. name \in Seq(Byte) /\ type \in Seq(Byte) /\ class \in Seq(Byte) /\ ttl \in Seq(Byte)
    BY <1>1, <1>2
  <2>2. Row(head, name, type, class, ttl)
    BY <1>3, <2>1, ConcatenatedThrice
  <2> QED BY <2>2 DEF Row
<1>6. /\ e \in Seq(Byte) /\ Len(e) = Len(head) + Len(length) + Len(data) + Len(<<>>)
      /\ \A j \in 1..Len(head) : e[j] = head[j]
      /\ \A j \in 1..Len(length) : e[Len(head) + j] = length[j]
      /\ \A j \in 1..Len(data) : e[Len(head) + Len(length) + j] = data[j]
  <2>1. head \in Seq(Byte) /\ length \in Seq(Byte) /\ data \in Seq(Byte) /\ <<>> \in Seq(Byte)
    BY <1>1, <1>2, <1>5
  <2>2. Row(e, head, length, data, <<>>)
    BY <1>4, <2>1, ConcatenatedThrice
  <2> QED BY <2>2 DEF Row
<1>7. Len(e) = n + 10 + Len(data) /\ Len(head) = n + 8
  <2>1. Len(<<>>) = 0
    OBVIOUS
  <2> QED BY <1>1, <1>2, <1>5, <1>6, <2>1
<1>8. \A j \in 1..n : e[j] = name[j]
  <2>1. \A j \in 1..n : j \in 1..Len(head) /\ j \in 1..Len(name)
    BY <1>1, <1>7
  <2> QED BY <1>5, <1>6, <2>1
<1>9. e[n + 1] = type[1] /\ e[n + 2] = type[2]
  <2>1. /\ n + 1 \in 1..Len(head) /\ n + 2 \in 1..Len(head)
        /\ 1 \in 1..Len(type) /\ 2 \in 1..Len(type)
        /\ n + 1 = Len(name) + 1 /\ n + 2 = Len(name) + 2
    BY <1>1, <1>2, <1>7
  <2>2. head[Len(name) + 1] = type[1] /\ head[Len(name) + 2] = type[2]
    BY <1>5, <2>1
  <2> QED BY <1>6, <2>1, <2>2
<1>10. e[n + 3] = class[1] /\ e[n + 4] = class[2]
  <2>1. /\ n + 3 \in 1..Len(head) /\ n + 4 \in 1..Len(head)
        /\ 1 \in 1..Len(class) /\ 2 \in 1..Len(class)
        /\ n + 3 = Len(name) + Len(type) + 1 /\ n + 4 = Len(name) + Len(type) + 2
    BY <1>1, <1>2, <1>7
  <2>2. head[Len(name) + Len(type) + 1] = class[1] /\ head[Len(name) + Len(type) + 2] = class[2]
    BY <1>5, <2>1
  <2> QED BY <1>6, <2>1, <2>2
<1>11. \A j \in 1..4 : e[n + 4 + j] = ttl[j]
  <2>1. \A j \in 1..4 : /\ n + 4 + j \in 1..Len(head)
                         /\ n + 4 + j = Len(name) + Len(type) + Len(class) + j
    BY <1>1, <1>2, <1>7
  <2>2. \A j \in 1..4 : head[Len(name) + Len(type) + Len(class) + j] = ttl[j]
    BY <1>1, <1>5
  <2> QED BY <1>6, <2>1, <2>2
<1>12. e[n + 9] = length[1] /\ e[n + 10] = length[2]
  <2>1. /\ n + 9 = Len(head) + 1 /\ n + 10 = Len(head) + 2
        /\ 1 \in 1..Len(length) /\ 2 \in 1..Len(length)
    BY <1>1, <1>2, <1>7
  <2> QED BY <1>6, <2>1
<1>13. \A j \in 1..Len(data) : e[n + 10 + j] = data[j]
  <2>1. \A j \in 1..Len(data) : n + 10 + j = Len(head) + Len(length) + j
    BY <1>1, <1>2, <1>7
  <2> QED BY <1>6, <2>1
<1> QED BY <1>2, <1>6, <1>7, <1>8, <1>9, <1>10, <1>11, <1>12, <1>13
        DEF Fields, e, n, name, ttl, data

\* Where the answer of a server has what.
Laid(d, m, asked, answers) ==
    /\ asked \in Seq(Byte) /\ answers \in Seq(Byte) /\ d \in Seq(Byte)
    /\ Len(d) >= 12 + Len(asked) + Len(answers)
    /\ d[3] = 129 /\ d[4] = 128 + m.rcode
    /\ 256 * d[5] + d[6] = m.copies /\ 256 * d[7] + d[8] = Len(m.answers)
    /\ \A j \in 1..Len(asked) : d[12 + j] = asked[j]
    /\ \A j \in 1..Len(answers) : d[12 + Len(asked) + j] = answers[j]

LEMMA ReplyLayout ==
    ASSUME NEW m \in Messages, NEW q \in Seq(Byte)
    PROVE  /\ EncodedQuestions(q, m) \in Seq(Seq(Byte)) /\ Len(EncodedQuestions(q, m)) = m.copies
           /\ EncodedSection(m.answers) \in Seq(Seq(Byte))
           /\ Len(EncodedSection(m.answers)) = Len(m.answers)
           /\ Laid(Encode(q, m), m, FlattenSeq(EncodedQuestions(q, m)),
                   FlattenSeq(EncodedSection(m.answers)))
<1>1. /\ m.rcode \in 0..15 /\ m.copies \in Word /\ m.copies \in Nat
      /\ m.answers \in Seq(ResourceRecord) /\ Len(m.answers) \in Word
      /\ m.extra \in Seq(ResourceRecord) /\ Len(m.extra) \in Word
  BY MessagesAssumption, Words DEF Section
<1>2. EncodedQuestions(q, m) \in Seq(Seq(Byte)) /\ Len(EncodedQuestions(q, m)) = m.copies
  <2>1. SubSeq(q, 13, Len(q)) \in Seq(Byte)
    OBVIOUS
  <2>2. EncodedQuestions(q, m) \in [1..m.copies -> Seq(Byte)]
    BY <2>1 DEF EncodedQuestions
  <2> QED BY <1>1, <2>2, FunctionIsSequence
<1>3. ASSUME NEW section \in Seq(ResourceRecord)
      PROVE  /\ EncodedSection(section) \in Seq(Seq(Byte))
             /\ Len(EncodedSection(section)) = Len(section)
  <2>1. \A i \in 1..Len(section) : section[i] \in ResourceRecord /\ Len(section) \in Nat
    BY <1>3
  <2>2. \A i \in 1..Len(section) : EncodedRecord(section[i]) \in Seq(Byte)
    BY <2>1, RecordLayout DEF Fields
  <2>3. DOMAIN section = 1..Len(section) /\ Len(section) \in Nat
    BY <1>3
  <2>4. EncodedSection(section) \in [1..Len(section) -> Seq(Byte)]
    BY <2>2, <2>3 DEF EncodedSection
  <2> QED BY <2>3, <2>4, FunctionIsSequence
<1> DEFINE d == Encode(q, m)
           asked == FlattenSeq(EncodedQuestions(q, m))
           answers == FlattenSeq(EncodedSection(m.answers))
           four == <<0, 0, 129, 128 + m.rcode>>
           b1 == BE16(m.copies)
           b2 == BE16(Len(m.answers))
           b3 == BE16(0)
           b4 == BE16(Len(m.extra))
           head == four \o b1 \o b2 \o b3
           extra == FlattenSeq(EncodedSection(m.extra))
           most == head \o b4 \o asked \o answers
<1>4. asked \in Seq(Byte) /\ answers \in Seq(Byte) /\ extra \in Seq(Byte)
  BY <1>1, <1>2, <1>3, FlattenLayout
<1>5. /\ b1 \in Seq(Byte) /\ Len(b1) = 2 /\ 256 * b1[1] + b1[2] = m.copies
      /\ b2 \in Seq(Byte) /\ Len(b2) = 2 /\ 256 * b2[1] + b2[2] = Len(m.answers)
      /\ b3 \in Seq(Byte) /\ Len(b3) = 2 /\ b4 \in Seq(Byte) /\ Len(b4) = 2
  BY <1>1, Words, BigEndian
<1>6. four \in Seq(Byte) /\ Len(four) = 4 /\ four[3] = 129 /\ four[4] = 128 + m.rcode
  <2>1. \A c \in 0..15 : 128 + c \in Byte
    BY DEF Byte
  <2>2. 0 \in Byte /\ 129 \in Byte
    BY DEF Byte
  <2>3. 128 + m.rcode \in Byte /\ 0 \in Byte /\ 129 \in Byte
    BY <1>1, <2>1, <2>2
  <2> DEFINE c == 128 + m.rcode
  <2> HIDE DEF c
  <2>4. c \in Byte => <<0, 0, 129, c>> \in Seq(Byte)
    BY <2>3
  <2>5. four = <<0, 0, 129, c>>
    BY DEF c
  <2> QED BY <2>3, <2>4, <2>5 DEF c
<1>7. d = most \o extra
  BY DEF Encode
<1>8. head = four \o b1 \o b2 \o b3 /\ most = head \o b4 \o asked \o answers
  OBVIOUS
<1> HIDE DEF d, asked, answers, four, b1, b2, b3, b4, head, extra, most
<1>9. /\ head \in Seq(Byte) /\ Len(head) = Len(four) + Len(b1) + Len(b2) + Len(b3)
      /\ \A j \in 1..Len(four) : head[j] = four[j]
      /\ \A j \in 1..Len(b1) : head[Len(four) + j] = b1[j]
      /\ \A j \in 1..Len(b2) : head[Len(four) + Len(b1) + j] = b2[j]
  <2>1. four \in Seq(Byte) /\ b1 \in Seq(Byte) /\ b2 \in Seq(Byte) /\ b3 \in Seq(Byte)
    BY <1>5, <1>6
  <2>2. Row(head, four, b1, b2, b3)
    BY <1>8, <2>1, ConcatenatedThrice
  <2> QED BY <2>2 DEF Row
<1>10. Len(head) = 10 /\ \A j \in 1..8 : j \in 1..Len(head)
  BY <1>5, <1>6, <1>9
<1>11. head[3] = 129 /\ head[4] = 128 + m.rcode
  BY <1>6, <1>9
<1>12. 256 * head[5] + head[6] = m.copies
  <2>1. /\ 1 \in 1..Len(b1) /\ 2 \in 1..Len(b1) /\ Len(four) + 1 = 5 /\ Len(four) + 2 = 6
    BY <1>5, <1>6
  <2>2. head[5] = b1[1] /\ head[6] = b1[2]
    BY <1>9, <2>1
  <2> QED BY <1>5, <2>2
<1>13. 256 * head[7] + head[8] = Len(m.answers)
  <2>1. /\ 1 \in 1..Len(b2) /\ 2 \in 1..Len(b2)
        /\ Len(four) + Len(b1) + 1 = 7 /\ Len(four) + Len(b1) + 2 = 8
    BY <1>5, <1>6
  <2>2. head[7] = b2[1] /\ head[8] = b2[2]
    BY <1>9, <2>1
  <2> QED BY <1>5, <2>2
<1>14. /\ most \in Seq(Byte) /\ Len(most) = Len(head) + Len(b4) + Len(asked) + Len(answers)
       /\ \A j \in 1..Len(head) : most[j] = head[j]
       /\ \A j \in 1..Len(asked) : most[Len(head) + Len(b4) + j] = asked[j]
       /\ \A j \in 1..Len(answers) : most[Len(head) + Len(b4) + Len(asked) + j] = answers[j]
  <2>1. head \in Seq(Byte) /\ b4 \in Seq(Byte) /\ asked \in Seq(Byte) /\ answers \in Seq(Byte)
    BY <1>4, <1>5, <1>9
  <2>2. Row(most, head, b4, asked, answers)
    BY <1>8, <2>1, ConcatenatedThrice
  <2> QED BY <2>2 DEF Row
<1>15. /\ d \in Seq(Byte) /\ Len(d) = Len(most) + Len(extra)
       /\ \A j \in 1..Len(most) : d[j] = most[j]
  <2>1. most \in Seq(Byte) /\ extra \in Seq(Byte)
    BY <1>4, <1>14
  <2> QED BY <1>7, <2>1, Concatenated
<1>16. Len(asked) \in Nat /\ Len(answers) \in Nat /\ Len(extra) \in Nat
       /\ Len(head) + Len(b4) = 12 /\ Len(most) = 12 + Len(asked) + Len(answers)
  BY <1>4, <1>5, <1>10, <1>14
<1>17. \A j \in 1..8 : d[j] = head[j]
  <2>1. \A j \in 1..8 : j \in 1..Len(most)
    BY <1>16
  <2> QED BY <1>10, <1>14, <1>15, <2>1
<1>18. \A j \in 1..Len(asked) : d[12 + j] = asked[j]
  <2>1. \A j \in 1..Len(asked) : 12 + j \in 1..Len(most) /\ 12 + j = Len(head) + Len(b4) + j
    BY <1>16
  <2> QED BY <1>14, <1>15, <2>1
<1>19. \A j \in 1..Len(answers) : d[12 + Len(asked) + j] = answers[j]
  <2>1. \A j \in 1..Len(answers) : /\ 12 + Len(asked) + j \in 1..Len(most)
                                   /\ 12 + Len(asked) + j = Len(head) + Len(b4) + Len(asked) + j
    BY <1>16
  <2>2. \A j \in 1..Len(answers) : most[12 + Len(asked) + j] = answers[j]
    BY <1>14, <2>1
  <2> QED BY <1>15, <2>1, <2>2
<1>20. Len(d) >= 12 + Len(asked) + Len(answers)
  BY <1>15, <1>16
<1>21. /\ d[3] = 129 /\ d[4] = 128 + m.rcode
       /\ 256 * d[5] + d[6] = m.copies /\ 256 * d[7] + d[8] = Len(m.answers)
  BY <1>11, <1>12, <1>13, <1>17
<1>22. Laid(d, m, asked, answers)
  BY <1>4, <1>15, <1>18, <1>19, <1>20, <1>21 DEF Laid
<1> QED BY <1>1, <1>2, <1>3, <1>22 DEF d, asked, answers

\* The question of a query: a name that ends, and four bytes.
LEMMA QuestionLayout ==
    ASSUME NEW name \in Seq(Seq(Byte)), \A i \in DOMAIN name : Len(name[i]) < 128,
           NEW q, q = QueryPacket(name, QueryType), NEW e, e = EncodedName(name)
    PROVE  /\ e \in Seq(Byte) /\ Heads(e) # {}
           /\ q \in Seq(Byte) /\ Len(q) = 12 + Len(e) + 4
           /\ \A j \in 1..Len(e) : q[12 + j] = e[j]
<1> DEFINE parts == EncodedLabels(name)
           n == Len(parts)
           all == FlattenSeq(parts)
           total == Len(all)
<1>1. /\ n = Len(name) /\ n \in Nat /\ parts \in Seq(Seq(Byte))
      /\ \A k \in 1..n : parts[k] = IF name[k] = <<>> THEN <<>> ELSE <<Len(name[k])>> \o name[k]
  <2>1. \A k \in 1..Len(name) :
          (IF name[k] = <<>> THEN <<>> ELSE <<Len(name[k])>> \o name[k]) \in Seq(Byte)
    <3> SUFFICES ASSUME NEW k \in 1..Len(name) PROVE <<Len(name[k])>> \o name[k] \in Seq(Byte)
      OBVIOUS
    <3>1. name[k] \in Seq(Byte) /\ Len(name[k]) \in Nat /\ Len(name[k]) < 128
      OBVIOUS
    <3>2. \A l \in Nat : l < 128 => l \in Byte
      BY DEF Byte
    <3>3. Len(name[k]) \in Byte
      BY <3>1, <3>2
    <3>4. <<Len(name[k])>> \in Seq(Byte)
      BY <3>3
    <3> QED BY <3>1, <3>4
  <2>2. DOMAIN name = 1..Len(name) /\ Len(name) \in Nat
    OBVIOUS
  <2>3. parts \in [1..Len(name) -> Seq(Byte)]
    BY <2>1, <2>2 DEF EncodedLabels
  <2>4. parts \in Seq(Seq(Byte)) /\ n = Len(name)
    BY <2>2, <2>3, FunctionIsSequence
  <2> QED BY <2>2, <2>4 DEF EncodedLabels
<1>2. ASSUME NEW k \in 1..n, parts[k] # <<>>
      PROVE  /\ parts[k][1] \in 1..127 /\ Len(parts[k]) = 1 + parts[k][1] /\ 1 \in 1..Len(parts[k])
  <2>1. k \in 1..Len(name) /\ name[k] \in Seq(Byte) /\ Len(name[k]) < 128
    BY <1>1
  <2> DEFINE label == name[k]
             part == parts[k]
  <2>2. part # <<>> /\ part = IF label = <<>> THEN <<>> ELSE <<Len(label)>> \o label
    BY <1>1, <1>2
  <2>3. label \in Seq(Byte) /\ Len(label) < 128
    BY <2>1
  <2> HIDE DEF label, part
  <2>4. label # <<>> /\ part = <<Len(label)>> \o label
    BY <2>2
  <2>5. Len(label) \in 1..127
    <3>1. Len(label) \in Nat /\ Len(label) > 0
      BY <2>3, <2>4, NotEmpty
    <3>2. \A l \in Nat : l > 0 /\ l < 128 => l \in 1..127
      OBVIOUS
    <3> QED BY <2>3, <3>1, <3>2
  <2>6. part[1] = Len(label) /\ Len(part) = 1 + Len(label)
    BY <2>3, <2>4
  <2> QED BY <2>5, <2>6 DEF part
<1> HIDE DEF parts
<1>3. /\ all \in Seq(Byte) /\ total \in Nat /\ Before(parts, 0) = 0 /\ Before(parts, n) = total
      /\ \A k \in 0..n : Before(parts, k) \in Nat /\ Before(parts, k) <= total
      /\ \A k \in 1..n :
           /\ Before(parts, k) = Before(parts, k - 1) + Len(parts[k])
           /\ \A j \in 1..Len(parts[k]) : all[Before(parts, k - 1) + j] = parts[k][j]
  <2>1. parts \in Seq(Seq(Byte))
    BY <1>1
  <2>2. all \in Seq(Byte) /\ Before(parts, 0) = 0 /\ Before(parts, n) = total
    BY <2>1, FlattenLayout
  <2>3. \A k \in 0..n : Before(parts, k) \in Nat /\ Before(parts, k) <= total
    BY <2>1, FlattenLayout
  <2>4. \A k \in 1..n :
          /\ Before(parts, k) = Before(parts, k - 1) + Len(parts[k])
          /\ \A j \in 1..Len(parts[k]) : all[Before(parts, k - 1) + j] = parts[k][j]
    BY <2>1, FlattenLayout
  <2> QED BY <2>2, <2>3, <2>4
<1>4. /\ e = all \o <<0>> /\ e \in Seq(Byte) /\ Len(e) = total + 1 /\ e[total + 1] = 0
      /\ \A j \in 1..total : e[j] = all[j]
  <2>1. e = all \o <<0>>
    BY DEF EncodedName, parts
  <2>2. <<0>> \in Seq(Byte)
    BY DEF Byte
  <2> QED BY <1>3, <2>1, <2>2
<1> HIDE DEF all, total
\* The labels that are not empty, and the zero.
<1> DEFINE H == {h \in 0..(Len(e) - 1) :
                   h = total \/ \E k \in 1..n : parts[k] # <<>> /\ h = Before(parts, k - 1)}
           S == {d \in Nat : d <= n => Before(parts, n - d) \in H}
<1>5. \A k \in 0..n : Before(parts, k) \in 0..(Len(e) - 1)
  BY <1>3, <1>4
<1>6. 0 \in S
  BY <1>1, <1>3, <1>4, <1>5
<1>7. ASSUME NEW d \in Nat, d \in S PROVE d + 1 \in S
  <2> SUFFICES ASSUME d + 1 <= n PROVE Before(parts, n - (d + 1)) \in H
    OBVIOUS
  <2> DEFINE k == n - d
  <2>1. k \in 1..n /\ k - 1 \in 0..n /\ k - 1 = n - (d + 1)
    BY <1>1
  <2>2. CASE parts[k] = <<>>
    <3>1. Before(parts, k) = Before(parts, k - 1)
      <4>1. Len(<<>>) = 0 /\ k - 1 \in 0..n
        BY <2>1
      <4>2. Before(parts, k - 1) \in Nat /\ Before(parts, k) = Before(parts, k - 1) + Len(parts[k])
        BY <1>3, <2>1
      <4> QED BY <2>2, <4>1, <4>2
    <3>2. Before(parts, k) \in H
      BY <1>1, <1>7
    <3> HIDE DEF H
    <3> QED BY <2>1, <3>1, <3>2
  <2>3. CASE parts[k] # <<>>
    <3>1. Before(parts, k - 1) \in 0..(Len(e) - 1)
      BY <1>5, <2>1
    <3> QED BY <2>1, <2>3, <3>1
  <2> QED BY <2>2, <2>3
<1> HIDE DEF S
<1>8. \A d \in Nat : d \in S
  BY <1>6, <1>7, Induction
<1>9. \A k \in 0..n : Before(parts, k) \in H
  <2> SUFFICES ASSUME NEW k \in 0..n PROVE Before(parts, k) \in H
    OBVIOUS
  <2>1. n - k \in Nat /\ n - k <= n /\ n - (n - k) = k
    BY <1>1
  <2> HIDE DEF H
  <2> QED BY <1>8, <2>1 DEF S
<1>10. H \in Heads(e)
  <2>1. H \in SUBSET (0..(Len(e) - 1)) /\ 0 \in H
    <3>1. H \in SUBSET (0..(Len(e) - 1)) /\ 0 \in 0..n
      BY <1>1
    <3> HIDE DEF H
    <3> QED BY <1>3, <1>9, <3>1
  <2>2. ASSUME NEW h \in H
        PROVE  \/ e[h + 1] \in 1..127 /\ h + 1 + e[h + 1] \in H
               \/ e[h + 1] = 0 /\ Len(e) = h + 1
    <3>1. CASE h = total
      BY <1>4, <3>1
    <3>2. ASSUME NEW k \in 1..n, parts[k] # <<>>, h = Before(parts, k - 1)
          PROVE  e[h + 1] \in 1..127 /\ h + 1 + e[h + 1] \in H
      <4> DEFINE byte == parts[k][1]
      <4>1. k - 1 \in 0..n /\ k \in 0..n
        BY <1>1
      <4>2. /\ parts[k][1] \in 1..127 /\ Len(parts[k]) = 1 + parts[k][1] /\ 1 \in 1..Len(parts[k])
        BY <1>2, <3>2
      <4>3. all[h + 1] = parts[k][1] /\ Before(parts, k) = h + Len(parts[k])
        BY <1>3, <3>2, <4>2
      <4>4. h \in Nat /\ Before(parts, k) \in Nat /\ Before(parts, k) <= total
        BY <1>3, <3>2, <4>1
      <4>5. byte \in 1..127 /\ Before(parts, k) = h + (1 + byte)
        BY <4>2, <4>3
      <4> HIDE DEF byte
      <4>6. h + 1 \in 1..total /\ h + 1 + byte = Before(parts, k)
        BY <1>3, <4>4, <4>5
      <4>7. e[h + 1] = byte
        BY <1>4, <4>3, <4>6 DEF byte
      <4>8. Before(parts, k) \in H
        BY <1>9, <4>1
      <4> HIDE DEF H
      <4> QED BY <4>5, <4>6, <4>7, <4>8
    <3> QED BY <3>1, <3>2
  <2> HIDE DEF H
  <2> QED BY <2>1, <2>2 DEF Heads
<1> DEFINE head == <<0, 0, 1, 32, 0, 1, 0, 0, 0, 0, 0, 0>>
           type == BE16(QueryType)
           class == BE16(C_IN)
<1>11. head \in Seq(Byte) /\ Len(head) = 12
  BY DEF Byte
<1>12. type \in Seq(Byte) /\ Len(type) = 2 /\ class \in Seq(Byte) /\ Len(class) = 2
  <2>1. QueryType \in Word /\ C_IN \in Word
    BY QueryTypeAssumption DEF Word, C_IN
  <2> QED BY <2>1, BigEndian
<1>13. q = head \o e \o type \o class
  BY DEF QueryPacket
<1> HIDE DEF head, type, class
<1>14. /\ q \in Seq(Byte) /\ Len(q) = Len(head) + Len(e) + Len(type) + Len(class)
       /\ \A j \in 1..Len(e) : q[Len(head) + j] = e[j]
  <2>1. head \in Seq(Byte) /\ e \in Seq(Byte) /\ type \in Seq(Byte) /\ class \in Seq(Byte)
    BY <1>4, <1>11, <1>12
  <2>2. Row(q, head, e, type, class)
    BY <1>13, <2>1, ConcatenatedThrice
  <2> QED BY <2>2 DEF Row
<1>15. Len(q) = 12 + Len(e) + 4 /\ \A j \in 1..Len(e) : q[12 + j] = e[j]
  BY <1>3, <1>4, <1>11, <1>12, <1>14
<1> QED BY <1>4, <1>10, <1>14, <1>15

-----------------------------------------------------------------------------
\* The question of the query has a name and four bytes.
AskedName == SubSeq(query, 13, Len(query) - 4)

\* Where the question and the answer after the first k begin.
QuestionAt(m, k) == 12 + Before(EncodedQuestions(query, m), k)
AnswerAt(m, k)   == QuestionAt(m, m.copies) + Before(EncodedSection(m.answers), k)

\* How many questions and answers are behind the parser.
Asked(m) == m.copies - questions
Read(m)  == Len(m.answers) - answer_count

\* What the first k answers yield.
Yield(m, k) == FlattenSeq(SubSeq(Yielded(m.answers), 1, k))

\* The parser is where a part of the name begins that itself begins at base.
Reads(name, base) == \E H \in Heads(name) : pos - base \in H

\* Nothing is missing yet, and the parser is where the server has put what it reads.
InQuestions(m) ==
    LET here == QuestionAt(m, Asked(m))
    IN  /\ out = <<>> /\ answer_count = Len(m.answers) /\ questions <= m.copies
        /\ pc = "questions" => pos = here
        /\ pc = "qname" => Reads(AskedName, here)
        /\ pc = "question" => pos = here + Len(AskedName)

InAnswers(m) ==
    LET here == AnswerAt(m, Read(m))
        name == m.answers[Read(m) + 1].name
    IN  /\ out = Yield(m, Read(m))
        /\ answer_count <= Len(m.answers)
        /\ pc \in {"caller", "answers", "rname", "named"} => start = here
        /\ pc = "rname" => Reads(name, here)
        /\ pc \in {"named", "record"} => pos = here + Len(name)
        /\ pc = "closed" => answer_count = 0

OnCourse(m) ==
    /\ pc \in {"header"} \cup Searching \cup Reading
    /\ Errors = {}
    /\ pc = "header" => out = <<>>
    /\ pc # "header" => m.rcode = 0 /\ m.answers # <<>>
    /\ pc \in Searching => InQuestions(m)
    /\ pc \in Reading => InAnswers(m)

\* The packet was cut, and the caller knows.
CutShort(m) ==
    Len(datagram) > size /\ \E i \in Errors : IsPrefix(SubSeq(out, 1, i - 1), Promised(m))

Settled(m) == (pc = "rejected" /\ out = Promised(m)) \/ CutShort(m)

QueryBuilt ==
    \E name \in Names : /\ query = QueryPacket(name, QueryType)
                        /\ \A i \in DOMAIN name : Len(name[i]) < 128

Received ==
    /\ End <= Len(datagram) /\ (End < Len(datagram) => Len(datagram) > size)
    /\ \A p \in 0..(End - 1) : At(p) = datagram[p + 1]

\* The inductive invariant.
ReplyInv ==
    /\ pc \in {"build", "unbuilt", "sent", "header"} => out = <<>>
    /\ pc \notin {"build", "unbuilt"} => QueryBuilt
    /\ pc \notin {"build", "unbuilt", "sent"} =>
         /\ Received
         /\ \A m \in Messages : datagram = Encode(query, m) => OnCourse(m) \/ Settled(m)

\* A reply to the query is made of bytes, and its header says what follows.
LEMMA Delivered ==
    ASSUME QueryBuilt, NEW m \in Messages, datagram = Encode(query, m)
    PROVE  /\ query \in Seq(Byte) /\ datagram \in Seq(Byte) /\ Len(datagram) \in Nat
           /\ datagram[3] = 129 /\ datagram[4] = 128 + m.rcode
           /\ 256 * datagram[5] + datagram[6] = m.copies
           /\ 256 * datagram[7] + datagram[8] = Len(m.answers)
<1>1. query \in Seq(Byte)
  BY NamesAssumption, QuestionLayout DEF QueryBuilt
<1>2. Laid(datagram, m, FlattenSeq(EncodedQuestions(query, m)),
           FlattenSeq(EncodedSection(m.answers)))
  BY <1>1, ReplyLayout
<1> QED BY <1>1, <1>2 DEF Laid

\* The questions of a reply, one after the other, each a copy of the one that was asked.
LEMMA QuestionPart ==
    ASSUME QueryBuilt, NEW m \in Messages, datagram = Encode(query, m)
    PROVE  /\ AskedName \in Seq(Byte) /\ Heads(AskedName) # {} /\ Len(AskedName) \in Nat
           /\ m.copies \in Nat /\ QuestionAt(m, 0) = 12
           /\ \A k \in 0..m.copies :
                QuestionAt(m, k) \in Nat /\ QuestionAt(m, k) <= QuestionAt(m, m.copies)
           /\ \A k \in 1..m.copies :
                /\ QuestionAt(m, k) = QuestionAt(m, k - 1) + Len(AskedName) + 4
                /\ \A j \in 1..Len(AskedName) :
                     datagram[QuestionAt(m, k - 1) + j] = AskedName[j]
<1> DEFINE parts == EncodedQuestions(query, m)
           all   == FlattenSeq(parts)
<1>1. PICK name \in Names : query = QueryPacket(name, QueryType)
                            /\ \A i \in DOMAIN name : Len(name[i]) < 128
  BY DEF QueryBuilt
<1> DEFINE e == EncodedName(name)
<1>2. /\ e \in Seq(Byte) /\ Heads(e) # {} /\ query \in Seq(Byte) /\ Len(query) = 12 + Len(e) + 4
      /\ \A j \in 1..Len(e) : query[12 + j] = e[j]
  BY <1>1, NamesAssumption, QuestionLayout
<1> HIDE DEF e
<1>3. AskedName = e
  <2>1. /\ AskedName \in Seq(Byte) /\ Len(AskedName) = Len(e)
        /\ \A j \in 1..Len(e) : AskedName[j] = query[12 + j]
    BY <1>2 DEF AskedName
  <2> QED BY <1>2, <2>1
<1>4. Len(e) \in Nat
  BY <1>2
<1>5. /\ m.copies \in Nat /\ parts \in Seq(Seq(Byte)) /\ Len(parts) = m.copies
      /\ all \in Seq(Byte) /\ \A j \in 1..Len(all) : datagram[12 + j] = all[j]
  <2>1. m.copies \in Nat
    BY MessagesAssumption, Words
  <2>2. parts \in Seq(Seq(Byte)) /\ Len(parts) = m.copies
    BY <1>2, ReplyLayout
  <2>3. Laid(datagram, m, all, FlattenSeq(EncodedSection(m.answers)))
    BY <1>2, ReplyLayout
  <2> QED BY <2>1, <2>2, <2>3 DEF Laid
<1>6. \A k \in 1..m.copies : /\ Len(parts[k]) = Len(e) + 4
                             /\ \A j \in 1..Len(e) : parts[k][j] = e[j]
  <2>1. \A k \in 1..m.copies : parts[k] = SubSeq(query, 13, Len(query))
    BY DEF EncodedQuestions
  <2>2. /\ Len(SubSeq(query, 13, Len(query))) = Len(e) + 4
        /\ \A j \in 1..Len(e) : SubSeq(query, 13, Len(query))[j] = query[12 + j]
    BY <1>2, <1>4
  <2> QED BY <1>2, <2>1, <2>2
<1> HIDE DEF parts
<1>7. /\ Before(parts, 0) = 0 /\ Before(parts, m.copies) = Len(all)
      /\ \A k \in 0..m.copies : Before(parts, k) \in Nat /\ Before(parts, k) <= Len(all)
      /\ \A k \in 1..m.copies :
           /\ Before(parts, k) = Before(parts, k - 1) + Len(parts[k])
           /\ \A j \in 1..Len(parts[k]) : all[Before(parts, k - 1) + j] = parts[k][j]
  <2>1. parts \in Seq(Seq(Byte)) /\ Len(parts) = m.copies
    BY <1>5
  <2>2. Before(parts, 0) = 0 /\ Before(parts, Len(parts)) = Len(all)
    BY <2>1, FlattenLayout
  <2>3. \A k \in 0..Len(parts) : Before(parts, k) \in Nat /\ Before(parts, k) <= Len(all)
    BY <2>1, FlattenLayout
  <2>4. \A k \in 1..Len(parts) :
          /\ Before(parts, k) = Before(parts, k - 1) + Len(parts[k])
          /\ \A j \in 1..Len(parts[k]) : all[Before(parts, k - 1) + j] = parts[k][j]
    BY <2>1, FlattenLayout
  <2> QED BY <2>1, <2>2, <2>3, <2>4
<1> HIDE DEF all
<1>8. \A k : QuestionAt(m, k) = 12 + Before(parts, k)
  BY DEF QuestionAt, parts
<1>9. \A k \in 0..m.copies :
        QuestionAt(m, k) \in Nat /\ QuestionAt(m, k) <= QuestionAt(m, m.copies)
  BY <1>5, <1>7, <1>8
<1>10. ASSUME NEW k \in 1..m.copies
       PROVE  /\ QuestionAt(m, k) = QuestionAt(m, k - 1) + Len(e) + 4
              /\ \A j \in 1..Len(e) : datagram[QuestionAt(m, k - 1) + j] = e[j]
  <2> DEFINE here == Before(parts, k - 1)
  <2>1. k - 1 \in 0..m.copies /\ k \in 0..m.copies
    BY <1>5
  <2>2. /\ here \in Nat /\ Before(parts, k) = here + (Len(e) + 4) /\ Before(parts, k) <= Len(all)
        /\ Len(all) \in Nat
    BY <1>5, <1>6, <1>7, <2>1
  <2>3. \A j \in 1..Len(e) : j \in 1..Len(parts[k])
    BY <1>4, <1>6
  <2>4. \A j \in 1..Len(e) : all[here + j] = e[j]
    BY <1>6, <1>7, <2>3
  <2> HIDE DEF here
  <2>5. \A j \in 1..Len(e) : here + j \in 1..Len(all)
    BY <1>4, <2>2
  <2>6. \A j \in 1..Len(e) : datagram[12 + (here + j)] = e[j]
    BY <1>5, <2>4, <2>5
  <2>7. QuestionAt(m, k - 1) = 12 + here
    BY <1>8 DEF here
  <2>8. \A j \in 1..Len(e) : 12 + (here + j) = (12 + here) + j
    BY <2>2
  <2>9. QuestionAt(m, k) = QuestionAt(m, k - 1) + Len(e) + 4
    BY <1>4, <1>8, <2>2, <2>7
  <2> QED BY <2>6, <2>7, <2>8, <2>9
<1> QED BY <1>2, <1>3, <1>4, <1>5, <1>7, <1>8, <1>9, <1>10

\* Its answers, after the questions.
LEMMA AnswerPart ==
    ASSUME QueryBuilt, NEW m \in Messages, datagram = Encode(query, m)
    PROVE  /\ Len(m.answers) \in Nat /\ AnswerAt(m, 0) = QuestionAt(m, m.copies)
           /\ \A k \in 0..Len(m.answers) :
                AnswerAt(m, k) \in Nat /\ AnswerAt(m, k) <= Len(datagram)
           /\ \A k \in 1..Len(m.answers) :
                LET e == EncodedRecord(m.answers[k])
                IN  /\ m.answers[k] \in ResourceRecord
                    /\ AnswerAt(m, k) = AnswerAt(m, k - 1) + Len(e)
                    /\ \A j \in 1..Len(e) : datagram[AnswerAt(m, k - 1) + j] = e[j]
<1> DEFINE parts == EncodedSection(m.answers)
           all   == FlattenSeq(parts)
           base  == QuestionAt(m, m.copies)
<1>1. query \in Seq(Byte)
  BY Delivered
<1>2. m.copies \in Nat /\ base \in Nat /\ base = 12 + Len(FlattenSeq(EncodedQuestions(query, m)))
  <2>1. m.copies \in Nat /\ base \in Nat
    BY QuestionPart
  <2>2. /\ EncodedQuestions(query, m) \in Seq(Seq(Byte))
        /\ Len(EncodedQuestions(query, m)) = m.copies
    BY <1>1, ReplyLayout
  <2>3. Before(EncodedQuestions(query, m), m.copies) = Len(FlattenSeq(EncodedQuestions(query, m)))
    BY <2>2, FlattenLayout
  <2> QED BY <2>1, <2>3 DEF QuestionAt
<1>3. m.answers \in Seq(ResourceRecord)
  BY MessagesAssumption DEF Section
<1>4. Len(m.answers) \in Nat /\ \A k \in 1..Len(m.answers) : m.answers[k] \in ResourceRecord
  BY <1>3
<1> HIDE DEF base
<1>5. /\ parts \in Seq(Seq(Byte)) /\ Len(parts) = Len(m.answers)
      /\ all \in Seq(Byte) /\ datagram \in Seq(Byte) /\ Len(datagram) >= base + Len(all)
      /\ \A j \in 1..Len(all) : datagram[base + j] = all[j]
  <2>1. parts \in Seq(Seq(Byte)) /\ Len(parts) = Len(m.answers)
    BY <1>1, ReplyLayout
  <2>2. Laid(datagram, m, FlattenSeq(EncodedQuestions(query, m)), all)
    BY <1>1, ReplyLayout
  <2> QED BY <1>2, <2>1, <2>2 DEF Laid
<1>6. \A k \in 1..Len(m.answers) : parts[k] = EncodedRecord(m.answers[k])
  BY <1>3 DEF EncodedSection
<1> HIDE DEF parts
<1>7. /\ Before(parts, 0) = 0
      /\ \A k \in 0..Len(parts) : Before(parts, k) \in Nat /\ Before(parts, k) <= Len(all)
      /\ \A k \in 1..Len(parts) :
           /\ Before(parts, k) = Before(parts, k - 1) + Len(parts[k])
           /\ \A j \in 1..Len(parts[k]) : all[Before(parts, k - 1) + j] = parts[k][j]
  <2>1. parts \in Seq(Seq(Byte))
    BY <1>5
  <2>2. Before(parts, 0) = 0
    BY <2>1, FlattenLayout
  <2>3. \A k \in 0..Len(parts) : Before(parts, k) \in Nat /\ Before(parts, k) <= Len(all)
    BY <2>1, FlattenLayout
  <2>4. \A k \in 1..Len(parts) :
          /\ Before(parts, k) = Before(parts, k - 1) + Len(parts[k])
          /\ \A j \in 1..Len(parts[k]) : all[Before(parts, k - 1) + j] = parts[k][j]
    BY <2>1, FlattenLayout
  <2> QED BY <2>2, <2>3, <2>4
<1>8. \A k : AnswerAt(m, k) = base + Before(parts, k)
  BY DEF AnswerAt, parts, base
<1> HIDE DEF all
<1>9. Len(all) \in Nat /\ Len(datagram) \in Nat
  BY <1>5
<1>10. \A k \in 0..Len(m.answers) : AnswerAt(m, k) \in Nat /\ AnswerAt(m, k) <= Len(datagram)
  BY <1>2, <1>5, <1>7, <1>8, <1>9
<1>11. ASSUME NEW k \in 1..Len(m.answers)
       PROVE  LET e == EncodedRecord(m.answers[k])
              IN  /\ AnswerAt(m, k) = AnswerAt(m, k - 1) + Len(e)
                  /\ \A j \in 1..Len(e) : datagram[AnswerAt(m, k - 1) + j] = e[j]
  <2> DEFINE here == Before(parts, k - 1)
             e    == parts[k]
  <2>1. k - 1 \in 0..Len(parts) /\ k \in 0..Len(parts) /\ k \in 1..Len(parts)
    BY <1>4, <1>5
  <2>2. e \in Seq(Byte) /\ Len(e) \in Nat
    BY <1>5, <2>1
  <2>3. /\ here \in Nat /\ Before(parts, k) = here + Len(e) /\ Before(parts, k) <= Len(all)
        /\ \A j \in 1..Len(e) : all[here + j] = e[j]
    BY <1>7, <2>1
  <2>4. AnswerAt(m, k - 1) = base + here /\ AnswerAt(m, k) = base + Before(parts, k)
    BY <1>8
  <2> HIDE DEF here, e
  <2>5. \A j \in 1..Len(e) : here + j \in 1..Len(all) /\ (base + here) + j = base + (here + j)
    BY <1>2, <1>9, <2>2, <2>3
  <2>6. \A j \in 1..Len(e) : datagram[base + (here + j)] = e[j]
    BY <1>5, <2>3, <2>5
  <2>7. AnswerAt(m, k) = AnswerAt(m, k - 1) + Len(e)
    BY <1>2, <2>2, <2>3, <2>4
  <2>8. e = EncodedRecord(m.answers[k])
    BY <1>6 DEF e
  <2> QED BY <2>4, <2>5, <2>6, <2>7, <2>8
<1> QED BY <1>2, <1>4, <1>7, <1>8, <1>10, <1>11 DEF base

-----------------------------------------------------------------------------
\* The datagram has s after its first bytes.
Holds(base, s) ==
    base + Len(s) <= Len(datagram) /\ \A j \in 1..Len(s) : datagram[base + j] = s[j]

\* A turn of name_size() over a name of the datagram: it gets to where the next part
\* begins, to the end of the name, or finds that the datagram was cut.
LEMMA NameTurnReads ==
    ASSUME Bounds, Received, NameTurn, datagram \in Seq(Byte), NEW name \in Seq(Byte),
           NEW base \in Nat, Holds(base, name), Reads(name, base)
    PROVE  \/ pc' = pc /\ UNCHANGED out /\ \E H \in Heads(name) : pos' - base \in H
           \/ /\ pos' = base + Len(name) /\ UNCHANGED out
              /\ pc' = IF pc = "qname" THEN "question" ELSE "named"
           \/ /\ Len(datagram) > size
              /\ IF pc = "qname" THEN Reject("InvalidData") ELSE NameError
<1>1. PICK H \in Heads(name) : pos - base \in H
  BY DEF Reads
<1> DEFINE h == pos - base
           byte == name[h + 1]
<1>2. /\ h \in 0..(Len(name) - 1) /\ Len(name) \in Nat /\ End \in Nat /\ pos \in Nat
      /\ Len(datagram) \in Nat /\ pos = base + h /\ buffer \in Seq(Byte)
      /\ End < Len(datagram) => Len(datagram) > size
  BY <1>1 DEF Heads, Bounds, End, Received
<1>3. base + Len(name) <= Len(datagram) /\ \A j \in 1..Len(name) : datagram[base + j] = name[j]
  BY DEF Holds
<1>4. \/ byte \in 1..127 /\ h + 1 + byte \in H
      \/ byte = 0 /\ Len(name) = h + 1
      \/ byte >= 128 /\ Len(name) = h + 2
  BY <1>1 DEF Heads
<1>5. ASSUME pos < End PROVE At(pos) = byte /\ byte \in 0..255
  <2>1. pos \in 0..(End - 1) /\ h + 1 \in 1..Len(name) /\ base + (h + 1) = pos + 1
    BY <1>2, <1>5
  <2>2. At(pos) = datagram[pos + 1] /\ datagram[base + (h + 1)] = byte
    BY <1>3, <2>1 DEF Received
  <2>3. At(pos) \in 0..255
    BY <1>2, <1>5, ByteAt
  <2> QED BY <2>1, <2>2, <2>3
<1>6. h \in Nat /\ h <= Len(name) - 1 /\ base + Len(name) <= Len(datagram)
  BY <1>2, <1>3
<1> HIDE DEF byte, h
<1>7. \A n \in 1..127 : n # 0 /\ ~(n >= 128)
  OBVIOUS
<1>8. CASE pos < End /\ NameEnds(pos) /\ pos' = pos + (IF At(pos) = 0 THEN 1 ELSE 2)
           /\ pc' = (IF pc = "qname" THEN "question" ELSE "named") /\ UNCHANGED out
  <2>1. byte = 0 \/ byte >= 128
    BY <1>5, <1>8 DEF NameEnds
  <2>2. pos' = base + Len(name)
    <3>1. CASE byte = 0
      BY <1>2, <1>4, <1>5, <1>7, <1>8, <3>1
    <3>2. CASE byte >= 128
      <4>1. byte # 0 /\ byte \notin 1..127
        <5>1. \A b \in 0..255 : b >= 128 => b # 0 /\ b \notin 1..127
          OBVIOUS
        <5>2. byte \in 0..255
          BY <1>5, <1>8
        <5> QED BY <3>2, <5>1, <5>2
      <4>2. At(pos) # 0 /\ Len(name) = h + 2
        BY <1>4, <1>5, <1>8, <4>1
      <4> QED BY <1>2, <1>6, <1>8, <4>2
    <3> QED BY <2>1, <3>1, <3>2
  <2> QED BY <1>8, <2>2
<1>9. CASE pos < End /\ At(pos) \in 1..127 /\ pos' = pos + 1 + At(pos) /\ UNCHANGED <<pc, out>>
  <2>1. byte \in 1..127 /\ pos' = pos + 1 + byte
    BY <1>5, <1>9
  <2>2. h + 1 + byte \in H
    BY <1>4, <1>7, <2>1
  <2>3. pos' - base = h + 1 + byte
    <3>1. \A n \in 1..127 : (pos + 1 + n) - base = h + 1 + n
      BY <1>2, <1>6
    <3> QED BY <2>1, <3>1
  <2> QED BY <1>1, <1>9, <2>2, <2>3
<1>10. CASE /\ ~(pos < End /\ (At(pos) < 128 \/ PointerFits(pos)))
           /\ IF pc = "qname" THEN Reject("InvalidData") ELSE NameError
  <2>1. CASE ~(pos < End)
    BY <1>2, <1>6, <1>10, <2>1
  <2>2. CASE pos < End
    <3>1. byte \in 0..255 /\ ~(byte < 128) /\ ~(pos + 2 <= End)
      BY <1>5, <1>10, <2>2 DEF PointerFits
    <3>2. Len(name) = h + 2
      BY <1>4, <1>7, <3>1
    <3> QED BY <1>2, <1>6, <1>10, <3>1, <3>2
  <2> QED BY <2>1, <2>2
<1> QED BY <1>8, <1>9, <1>10 DEF NameTurn

\* The parser has come to the fields of r, the name of which begins at base.
AtFields(r, base) == Holds(base, EncodedRecord(r)) /\ pos = base + Len(r.name)

\* A record of the datagram that is all there is read as it was sent, and one that is not
\* was cut.
LEMMA RecordReads ==
    ASSUME Bounds, Received, datagram \in Seq(Byte), NEW r \in ResourceRecord,
           NEW base \in Nat, AtFields(r, base)
    PROVE  /\ Short => Len(datagram) > size
           /\ ~Short => /\ U16(pos) = r.rr_type /\ U16(pos + 2) = r.class
                        /\ DataSize = Len(r.data) /\ Bytes(pos + 10, DataSize) = r.data
                        /\ Bytes(pos + 4, 4) = r.ttl
                        /\ pos + 10 + DataSize = base + Len(EncodedRecord(r))
<1> DEFINE length == Len(r.data)
           n == Len(r.name)
           e == EncodedRecord(r)
<1>1. /\ e \in Seq(Byte) /\ Len(e) = n + 10 + length /\ n \in Nat /\ length \in Nat
      /\ 256 * e[n + 1] + e[n + 2] = r.rr_type
      /\ 256 * e[n + 3] + e[n + 4] = r.class
      /\ \A j \in 1..4 : e[n + 4 + j] = r.ttl[j]
      /\ 256 * e[n + 9] + e[n + 10] = length
      /\ \A j \in 1..length : e[n + 10 + j] = r.data[j]
      /\ r.ttl \in Seq(Byte) /\ Len(r.ttl) = 4 /\ r.data \in Seq(Byte)
  <2>1. n \in Nat /\ length \in Nat
    BY DEF ResourceRecord
  <2>2. r.ttl \in Seq(Byte) /\ Len(r.ttl) = 4 /\ r.data \in Seq(Byte)
    BY DEF ResourceRecord
  <2>3. /\ e \in Seq(Byte) /\ Len(e) = n + 10 + length
        /\ 256 * e[n + 1] + e[n + 2] = r.rr_type
        /\ 256 * e[n + 3] + e[n + 4] = r.class
        /\ 256 * e[n + 9] + e[n + 10] = length
    BY RecordLayout DEF Fields
  <2>4. /\ \A j \in 1..4 : e[n + 4 + j] = r.ttl[j]
        /\ \A j \in 1..length : e[n + 10 + j] = r.data[j]
    BY RecordLayout DEF Fields
  <2> QED BY <2>1, <2>2, <2>3, <2>4
<1>2. Holds(base, e) /\ pos = base + n
  BY DEF AtFields
<1> HIDE DEF length, n, e
<1>3. /\ pos = base + n /\ pos \in Nat /\ End \in Nat /\ Len(datagram) \in Nat
      /\ n \in Nat /\ length \in Nat /\ base + (n + 10 + length) <= Len(datagram)
  <2>1. Len(e) = n + 10 + length /\ n \in Nat /\ length \in Nat
    BY <1>1
  <2>2. Len(datagram) \in Nat /\ End \in Nat /\ pos \in Nat
    BY DEF Bounds, End
  <2>3. base + Len(e) <= Len(datagram)
    BY <1>2 DEF Holds
  <2> QED BY <1>2, <2>1, <2>2, <2>3
<1>4. /\ buffer \in Seq(Byte) /\ (End < Len(datagram) => Len(datagram) > size)
      /\ Len(e) = n + 10 + length
  BY <1>1 DEF Bounds, Received
\* The k-th byte after the name.
<1>5. ASSUME NEW k \in 1..(10 + length), pos + k <= End
      PROVE  At(pos + (k - 1)) = e[n + k] /\ buffer[pos + k] = e[n + k]
  <2>1. /\ pos + (k - 1) \in 0..(End - 1) /\ n + k \in 1..Len(e)
        /\ pos + (k - 1) + 1 = base + (n + k) /\ pos + (k - 1) + 1 = pos + k
    BY <1>3, <1>4, <1>5
  <2>2. At(pos + (k - 1)) = datagram[base + (n + k)] /\ datagram[base + (n + k)] = e[n + k]
    BY <1>2, <2>1 DEF Received, Holds
  <2> QED BY <2>1, <2>2 DEF At
<1>6. ASSUME End - pos >= 10
      PROVE  U16(pos) = r.rr_type /\ U16(pos + 2) = r.class /\ DataSize = length
  <2>1. \A k \in 1..10 : k \in 1..(10 + length) /\ pos + k <= End
    BY <1>3, <1>6
  <2>2. \A k \in 1..10 : At(pos + (k - 1)) = e[n + k]
    BY <1>5, <2>1
  <2>3. pos + 0 = pos /\ (pos + 2) + 1 = pos + 3 /\ (pos + 8) + 1 = pos + 9
    BY <1>3
  <2>4. At(pos) = e[n + 1] /\ At(pos + 1) = e[n + 2]
    BY <2>2, <2>3
  <2>5. At(pos + 2) = e[n + 3] /\ At((pos + 2) + 1) = e[n + 4]
    BY <2>2, <2>3
  <2>6. At(pos + 8) = e[n + 9] /\ At((pos + 8) + 1) = e[n + 10]
    BY <2>2, <2>3
  <2> QED BY <1>1, <2>4, <2>5, <2>6 DEF U16, DataSize
<1>7. CASE Short
  <2>1. End - pos < 10 \/ (End - pos >= 10 /\ End - pos < 10 + length)
    BY <1>6, <1>7 DEF Short
  <2> QED BY <1>3, <1>4, <1>7, <2>1
<1>8. CASE ~Short
  <2>1. End - pos >= 10 /\ DataSize = length /\ End - pos >= 10 + length
    <3>1. ~(End - pos < 10)
      BY <1>8 DEF Short
    <3>2. End - pos >= 10
      BY <1>3, <3>1
    <3>3. DataSize = length
      BY <1>6, <3>2
    <3>4. ~(End - pos < 10 + length)
      BY <1>8, <3>2, <3>3 DEF Short
    <3> QED BY <1>3, <3>2, <3>3, <3>4
  <2>2. ASSUME NEW i \in Nat, NEW s \in Seq(Byte), i + Len(s) <= 10 + length,
               \A j \in 1..Len(s) : e[n + i + j] = s[j]
        PROVE  Bytes(pos + i, Len(s)) = s
    <3> DEFINE l == Len(s)
    <3>1. l \in Nat
      OBVIOUS
    <3>2. \A j \in 1..l : /\ i + j \in 1..(10 + length) /\ pos + (i + j) <= End
                          /\ n + (i + j) = n + i + j /\ pos + (i + j) = pos + i + j
      <4>1. i + l <= 10 + length /\ pos + (10 + length) <= End
        BY <1>3, <2>1, <2>2
      <4> HIDE DEF l
      <4> QED BY <1>3, <3>1, <4>1
    <3>3. \A j \in 1..l : buffer[pos + i + j] = s[j]
      BY <1>5, <2>2, <3>2
    <3>4. pos + i + l <= End /\ pos + i \in Nat
      <4>1. i + l <= 10 + length /\ pos + (10 + length) <= End
        BY <1>3, <2>1, <2>2
      <4> HIDE DEF l
      <4> QED BY <1>3, <3>1, <4>1
    <3>5. /\ Bytes(pos + i, l) \in Seq(Byte) /\ Len(Bytes(pos + i, l)) = l
          /\ \A j \in 1..l : Bytes(pos + i, l)[j] = buffer[pos + i + j]
      <4> DEFINE from == pos + i
      <4>1. /\ from \in Nat /\ from + l <= Len(buffer)
            /\ Bytes(from, l) = SubSeq(buffer, from + 1, from + l)
        BY <3>4 DEF Bytes, End
      <4> HIDE DEF from, l
      <4>2. /\ SubSeq(buffer, from + 1, from + l) \in Seq(Byte)
            /\ Len(SubSeq(buffer, from + 1, from + l)) = l
            /\ \A j \in 1..l : SubSeq(buffer, from + 1, from + l)[j] = buffer[from + j]
        BY <1>4, <3>1, <4>1
      <4> QED BY <4>1, <4>2 DEF from
    <3> HIDE DEF l
    <3>6. Bytes(pos + i, l) = s
      BY <3>3, <3>5 DEF l
    <3> QED BY <3>6 DEF l
  <2>3. Bytes(pos + 10, Len(r.data)) = r.data
    <3>1. /\ 10 \in Nat /\ 10 + Len(r.data) <= 10 + length
          /\ \A j \in 1..Len(r.data) : e[n + 10 + j] = r.data[j]
      BY <1>1 DEF length
    <3> QED BY <1>1, <2>2, <3>1
  <2>4. Bytes(pos + 4, 4) = r.ttl
    <3> DEFINE ttl == r.ttl
    <3>1. ttl \in Seq(Byte) /\ Len(ttl) = 4 /\ \A j \in 1..4 : e[n + 4 + j] = ttl[j]
      BY <1>1
    <3> HIDE DEF ttl
    <3>2. 4 \in Nat /\ 4 + Len(ttl) <= 10 + length /\ \A j \in 1..Len(ttl) : e[n + 4 + j] = ttl[j]
      BY <1>3, <3>1
    <3>3. Bytes(pos + 4, Len(ttl)) = ttl
      BY <2>2, <3>1, <3>2
    <3> QED BY <3>1, <3>3 DEF ttl
  <2>5. pos + 10 + DataSize = base + Len(e)
    BY <1>3, <1>4, <2>1
  <2> QED BY <1>6, <1>8, <2>1, <2>3, <2>4, <2>5 DEF length, e
<1> QED BY <1>7, <1>8

\* What the first answers yield, and what one more adds.
LEMMA YieldPart ==
    ASSUME NEW m \in Messages
    PROVE  /\ Len(m.answers) \in Nat
           /\ Yield(m, 0) = <<>>
           /\ Yield(m, Len(m.answers)) = FlattenSeq(Yielded(m.answers))
           /\ \A k \in 1..Len(m.answers) : Yield(m, k) = Yield(m, k - 1) \o AddressOf(m.answers[k])
           /\ \A k \in 0..Len(m.answers) : IsPrefix(Yield(m, k), FlattenSeq(Yielded(m.answers)))
<1> DEFINE y == Yielded(m.answers)
           n == Len(m.answers)
           T == [ok : {TRUE}, address : Seq(Byte), ttl : Seq(Byte)]
<1>1. m.answers \in Seq(ResourceRecord)
  BY MessagesAssumption DEF Section
<1>2. n \in Nat /\ \A k \in 1..n : m.answers[k] \in ResourceRecord /\ DOMAIN m.answers = 1..n
  BY <1>1
<1>3. \A r \in ResourceRecord : AddressOf(r) \in Seq(T)
  <2> SUFFICES ASSUME NEW r \in ResourceRecord PROVE AddressOf(r) \in Seq(T)
    OBVIOUS
  <2>1. [ok |-> TRUE, address |-> r.data, ttl |-> r.ttl] \in T
    BY DEF ResourceRecord
  <2> HIDE DEF T
  <2> QED BY <2>1 DEF AddressOf
<1> HIDE DEF T
<1>4. /\ y \in Seq(Seq(T)) /\ Len(y) = n /\ \A k \in 1..n : y[k] = AddressOf(m.answers[k])
  <2>1. y \in [1..n -> Seq(T)]
    BY <1>1, <1>2, <1>3 DEF Yielded
  <2>2. y \in Seq(Seq(T)) /\ Len(y) = n
    BY <1>2, <2>1, FunctionIsSequence
  <2> QED BY <1>1, <2>2 DEF Yielded
<1> HIDE DEF y, n
<1>5. SubSeq(y, 1, 0) = <<>> /\ SubSeq(y, 1, n) = y
  BY <1>2, <1>4
<1>6. \A k \in 1..n :
        FlattenSeq(SubSeq(y, 1, k)) = FlattenSeq(SubSeq(y, 1, k - 1)) \o AddressOf(m.answers[k])
  <2>1. \A k \in 1..Len(y) :
          FlattenSeq(SubSeq(y, 1, k)) = FlattenSeq(SubSeq(y, 1, k - 1)) \o y[k]
    BY <1>4, FlattenLayout
  <2> QED BY <1>4, <2>1
<1>7. ASSUME NEW k \in 0..n PROVE IsPrefix(FlattenSeq(SubSeq(y, 1, k)), FlattenSeq(y))
  <2> DEFINE all == FlattenSeq(y)
             first == FlattenSeq(SubSeq(y, 1, k))
  <2>1. k \in 0..Len(y) /\ SubSeq(y, 1, k) \in Seq(Seq(T))
    BY <1>4
  <2>2. all \in Seq(T) /\ first \in Seq(T)
    BY <1>4, <2>1, FlattenLayout
  <2>3. Len(first) <= Len(all) /\ \A j \in 1..Len(first) : all[j] = first[j]
    BY <1>4, <2>1, FlattenLayout DEF Before
  <2> HIDE DEF all, first
  <2>4. SubSeq(first, 1, Len(first)) = first
    BY <2>2
  <2>5. SubSeq(all, 1, Len(first)) = first
    BY <2>2, <2>3
  <2>6. IsPrefix(first, all)
    BY <2>3, <2>4, <2>5 DEF IsPrefix
  <2> QED BY <2>6 DEF all, first
<1>8. \A k : Yield(m, k) = FlattenSeq(SubSeq(y, 1, k))
  BY DEF Yield, y
<1> QED BY <1>2, <1>5, <1>6, <1>7, <1>8, FlattenEmpty DEF y, n

\* Who is told of the cut has been given the beginning of what was promised.
LEMMA Cut ==
    ASSUME out \in Seq(Item), NEW m \in Messages, NEW kind, Return(Error(kind)),
           Len(datagram) > size, UNCHANGED <<datagram, size>>, IsPrefix(out, Promised(m))
    PROVE  CutShort(m)'
<1> DEFINE i == Len(out) + 1
<1>1. /\ i \in DOMAIN out' /\ out'[i] = Error(kind) /\ i - 1 = Len(out)
      /\ SubSeq(out', 1, Len(out)) = out
  BY DEF Return
<1>2. ~Error(kind).ok
  BY DEF Error
<1>3. i \in Errors'
  BY <1>1, <1>2 DEF Errors
<1>4. IsPrefix(SubSeq(out', 1, i - 1), Promised(m))
  BY <1>1
<1> HIDE DEF i
<1> QED BY <1>3, <1>4 DEF CutShort

\* What was returned before the error stays.
LEMMA CutStays ==
    ASSUME out \in Seq(Item), NEW m \in Messages, CutShort(m), UNCHANGED <<datagram, size>>,
           UNCHANGED out \/ \E item : Return(item)
    PROVE  CutShort(m)'
<1>1. PICK i \in Errors : IsPrefix(SubSeq(out, 1, i - 1), Promised(m))
  BY DEF CutShort
<1>2. CASE UNCHANGED out
  <2>1. Errors' = Errors
    BY <1>2 DEF Errors
  <2> QED BY <1>1, <1>2, <2>1 DEF CutShort
<1>3. ASSUME NEW item, Return(item) PROVE CutShort(m)'
  <2>1. /\ i \in 1..Len(out) /\ i \in DOMAIN out' /\ out'[i] = out[i] /\ ~out[i].ok
    BY <1>1, <1>3 DEF Errors, Return
  <2>2. SubSeq(out', 1, i - 1) = SubSeq(out, 1, i - 1)
    BY <1>3, <2>1 DEF Return
  <2>3. i \in Errors'
    BY <2>1 DEF Errors
  <2> QED BY <1>1, <2>2, <2>3 DEF CutShort
<1> QED BY <1>2, <1>3

-----------------------------------------------------------------------------
\* The k-th question and the k-th answer.
LEMMA AskedHolds ==
    ASSUME QueryBuilt, NEW m \in Messages, datagram = Encode(query, m), NEW k \in 1..m.copies
    PROVE  /\ k - 1 \in 0..m.copies /\ k \in 0..m.copies
           /\ QuestionAt(m, k - 1) \in Nat /\ QuestionAt(m, k) \in Nat
           /\ QuestionAt(m, k) = QuestionAt(m, k - 1) + Len(AskedName) + 4
           /\ QuestionAt(m, k) <= AnswerAt(m, 0)
           /\ Holds(QuestionAt(m, k - 1), AskedName)
<1>1. m.copies \in Nat /\ k - 1 \in 0..m.copies /\ k \in 0..m.copies
  BY QuestionPart
<1>2. QuestionAt(m, k - 1) \in Nat /\ QuestionAt(m, k) \in Nat /\ Len(AskedName) \in Nat
  BY <1>1, QuestionPart
<1>3. QuestionAt(m, k) = QuestionAt(m, k - 1) + Len(AskedName) + 4
  BY QuestionPart
<1>4. \A j \in 1..Len(AskedName) : datagram[QuestionAt(m, k - 1) + j] = AskedName[j]
  BY QuestionPart
<1>5. QuestionAt(m, k) <= AnswerAt(m, 0)
  BY <1>1, QuestionPart, AnswerPart
<1>6. AnswerAt(m, 0) \in Nat /\ AnswerAt(m, 0) <= Len(datagram)
  <2>1. 0 \in 0..Len(m.answers)
    BY AnswerPart
  <2> QED BY <2>1, AnswerPart
<1>7. Len(datagram) \in Nat
  BY Delivered
<1>8. QuestionAt(m, k - 1) + Len(AskedName) <= Len(datagram)
  BY <1>2, <1>3, <1>5, <1>6, <1>7
<1> QED BY <1>1, <1>2, <1>3, <1>4, <1>5, <1>8 DEF Holds

LEMMA AnswerHolds ==
    ASSUME QueryBuilt, NEW m \in Messages, datagram = Encode(query, m), NEW k \in 1..Len(m.answers)
    PROVE  /\ datagram \in Seq(Byte) /\ Len(datagram) \in Nat
           /\ k - 1 \in 0..Len(m.answers) /\ k \in 0..Len(m.answers)
           /\ m.answers[k] \in ResourceRecord
           /\ AnswerAt(m, k - 1) \in Nat /\ AnswerAt(m, k - 1) < AnswerAt(m, k)
           /\ AnswerAt(m, k) = AnswerAt(m, k - 1) + Len(EncodedRecord(m.answers[k]))
           /\ AnswerAt(m, k) <= Len(datagram) /\ AnswerAt(m, k) \in Nat
           /\ Holds(AnswerAt(m, k - 1), EncodedRecord(m.answers[k]))
           /\ Holds(AnswerAt(m, k - 1), m.answers[k].name)
           /\ m.answers[k].name \in Seq(Byte) /\ Heads(m.answers[k].name) # {}
<1> DEFINE r    == m.answers[k]
           e    == EncodedRecord(r)
           base == AnswerAt(m, k - 1)
           name == r.name
           n    == Len(name)
           length == Len(r.data)
<1>1. datagram \in Seq(Byte) /\ Len(datagram) \in Nat
  BY Delivered
<1>2. Len(m.answers) \in Nat /\ k - 1 \in 0..Len(m.answers) /\ k \in 0..Len(m.answers)
  BY AnswerPart
<1>3. /\ r \in ResourceRecord /\ AnswerAt(m, k) = base + Len(e)
      /\ \A j \in 1..Len(e) : datagram[base + j] = e[j]
  BY AnswerPart
<1>4. base \in Nat /\ AnswerAt(m, k) \in Nat /\ AnswerAt(m, k) <= Len(datagram)
  BY <1>2, AnswerPart
<1>5. name \in Seq(Byte) /\ n \in Nat /\ Heads(name) # {} /\ length \in Nat
  <2>1. name \in Seq(Byte) /\ Heads(name) # {} /\ r.data \in Seq(Byte)
    <3> HIDE DEF r
    <3> QED BY <1>3 DEF ResourceRecord
  <2> HIDE DEF r, name
  <2>2. n \in Nat
    BY <2>1
  <2>3. length \in Nat
    BY <2>1
  <2> QED BY <2>1, <2>2, <2>3
<1>6. Len(e) = n + 10 + length /\ \A j \in 1..n : e[j] = name[j]
  BY <1>3, RecordLayout DEF Fields
<1> HIDE DEF r, e, base, n, name, length
<1>7. Len(e) \in Nat /\ base < AnswerAt(m, k) /\ n <= Len(e)
  BY <1>3, <1>4, <1>5, <1>6
<1>8. Holds(base, e)
  BY <1>3, <1>4 DEF Holds
<1>9. Holds(base, name)
  <2>1. base + n <= Len(datagram)
    BY <1>1, <1>3, <1>4, <1>5, <1>7
  <2>2. \A j \in 1..n : j \in 1..Len(e)
    BY <1>5, <1>7
  <2>3. \A j \in 1..n : datagram[base + j] = name[j]
    BY <1>3, <1>6, <2>2
  <2> QED BY <2>1, <2>3 DEF Holds, n
<1> QED BY <1>1, <1>2, <1>3, <1>4, <1>5, <1>7, <1>8, <1>9 DEF r, e, base, name

\* Where the next state is on course.
LEMMA QuestionsNext ==
    ASSUME NEW m, UNCHANGED query, NEW here, here = QuestionAt(m, m.copies - questions'),
           out' = <<>>, answer_count' = Len(m.answers), questions' <= m.copies,
           pc' = "questions" => pos' = here,
           pc' = "qname" => \E H \in Heads(AskedName) : pos' - here \in H,
           pc' = "question" => pos' = here + Len(AskedName)
    PROVE  InQuestions(m)'
<1>1. QuestionAt(m, Asked(m))' = here /\ AskedName' = AskedName
  BY DEF QuestionAt, Asked, AskedName
<1>2. (\E H \in Heads(AskedName) : pos' - here \in H) => Reads(AskedName, QuestionAt(m, Asked(m)))'
  BY <1>1 DEF Reads
<1> QED BY <1>1, <1>2 DEF InQuestions

LEMMA AnswersNext ==
    ASSUME NEW m, UNCHANGED query, NEW k, k = Len(m.answers) - answer_count',
           NEW here, here = AnswerAt(m, k),
           out' = Yield(m, k), answer_count' <= Len(m.answers),
           pc' \in {"caller", "answers", "rname", "named"} => start' = here,
           pc' = "rname" => \E H \in Heads(m.answers[k + 1].name) : pos' - here \in H,
           pc' \in {"named", "record"} => pos' = here + Len(m.answers[k + 1].name),
           pc' = "closed" => answer_count' = 0
    PROVE  InAnswers(m)'
<1>1. AnswerAt(m, Read(m))' = here /\ Read(m)' = k
  BY DEF AnswerAt, QuestionAt, Read
<1>2. (\E H \in Heads(m.answers[k + 1].name) : pos' - here \in H)
         => Reads(m.answers[Read(m) + 1].name, AnswerAt(m, Read(m)))'
  BY <1>1 DEF Reads
<1> QED BY <1>1, <1>2 DEF InAnswers

-----------------------------------------------------------------------------
\* To have got nothing is a beginning.
LEMMA Nothing == ASSUME NEW m \in Messages PROVE IsPrefix(<<>>, Promised(m))
<1>1. IsPrefix(<<>>, FlattenSeq(Yielded(m.answers)))
  <2>1. 0 \in 0..Len(m.answers)
    BY YieldPart
  <2>2. IsPrefix(Yield(m, 0), FlattenSeq(Yielded(m.answers)))
    BY <2>1, YieldPart
  <2> QED BY <2>2, YieldPart
<1>2. \A kind : IsPrefix(<<>>, <<Error(kind)>>)
  BY DEF IsPrefix
<1> QED BY <1>1, <1>2 DEF Promised

\* As long as nothing is missing, the caller has the beginning of what was promised.
LEMMA Beginning ==
    ASSUME ReadingInv, NEW m \in Messages, OnCourse(m)
    PROVE  IsPrefix(out, Promised(m))
<1>1. CASE pc \in {"header"} \cup Searching
  <2>1. out = <<>>
    BY <1>1 DEF OnCourse, InQuestions
  <2> QED BY <2>1, Nothing
<1>2. CASE pc \in Reading
  <2>1. Promised(m) = FlattenSeq(Yielded(m.answers))
    BY <1>2 DEF OnCourse, Promised, Reading, Naming
  <2>2. out = Yield(m, Read(m)) /\ answer_count <= Len(m.answers)
    BY <1>2 DEF OnCourse, InAnswers
  <2>3. Read(m) \in 0..Len(m.answers)
    <3>1. Len(m.answers) \in Nat /\ answer_count \in Nat
      BY YieldPart, Words DEF ReadingInv
    <3> QED BY <2>2, <3>1 DEF Read
  <2> QED BY <2>1, <2>2, <2>3, YieldPart
<1> QED BY <1>1, <1>2 DEF OnCourse

\* Whoever finds that something is missing tells the caller.
LEMMA CutHere ==
    ASSUME ReadingInv, NEW m \in Messages, OnCourse(m), NEW kind, Return(Error(kind)),
           Len(datagram) > size, UNCHANGED <<datagram, size>>
    PROVE  Settled(m)'
<1>1. out \in Seq(Item)
  BY DEF ReadingInv
<1> QED BY <1>1, Beginning, Cut DEF Settled

\* The steps of the parser and of the iterator, one lemma for those of a kind: each
\* stays on course, has finished with what was promised, or tells of a cut.
LEMMA QuestionsStep ==
    ASSUME Bounds, ReadingInv, QueryBuilt, NEW m \in Messages, datagram = Encode(query, m),
           OnCourse(m), Questions
    PROVE  OnCourse(m)'
<1>1. /\ pc = "questions" /\ UNCHANGED <<query, questions, answer_count, out, pos>>
      /\ pc' = (IF questions > 0 THEN "qname" ELSE "caller")
      /\ pc' = "caller" => start' = pos
  <2>1. pc = "questions" /\ ~(pos > End)
    BY DEF Questions, Bounds, End
  <2> QED BY <2>1 DEF Questions
<1>2. /\ out = <<>> /\ answer_count = Len(m.answers) /\ questions <= m.copies
      /\ pos = QuestionAt(m, m.copies - questions) /\ m.rcode = 0 /\ m.answers # <<>>
      /\ Errors = {} /\ Errors' = {}
  BY <1>1 DEF OnCourse, InQuestions, Asked, Searching, Errors
<1>3. questions \in Nat /\ m.copies \in Nat /\ pos \in Nat /\ Len(m.answers) \in Nat
  BY QuestionPart, AnswerPart, Words DEF ReadingInv, Bounds
<1>4. CASE questions > 0
  <2>1. PICK H \in Heads(AskedName) : TRUE
    BY QuestionPart
  <2>2. 0 \in H /\ pos' - pos = 0
    BY <1>1, <1>3, <2>1 DEF Heads
  <2>3. pos = QuestionAt(m, m.copies - questions') /\ pc' = "qname"
    BY <1>1, <1>2, <1>4
  <2>4. InQuestions(m)'
    BY <1>1, <1>2, <2>1, <2>2, <2>3, QuestionsNext
  <2> QED BY <1>2, <2>3, <2>4 DEF OnCourse, Searching, Reading, Naming
<1>5. CASE questions = 0
  <2>1. Len(m.answers) - answer_count' = 0 /\ m.copies - questions = m.copies
    BY <1>1, <1>2, <1>3, <1>5
  <2>2. pos = AnswerAt(m, 0)
    BY <1>2, <2>1, AnswerPart
  <2>3. out' = Yield(m, 0)
    BY <1>1, <1>2, YieldPart
  <2>4. pc' = "caller" /\ start' = pos /\ answer_count' <= Len(m.answers)
    BY <1>1, <1>2, <1>3, <1>5
  <2>5. InAnswers(m)'
    BY <1>1, <2>1, <2>2, <2>3, <2>4, AnswersNext
  <2> QED BY <1>2, <2>4, <2>5 DEF OnCourse, Searching, Reading, Naming
<1> QED BY <1>3, <1>4, <1>5

LEMMA HeaderStep ==
    ASSUME Bounds, ReadingInv, QueryBuilt, Received, NEW m \in Messages,
           datagram = Encode(query, m), OnCourse(m), Header
    PROVE  OnCourse(m)' \/ Settled(m)'
<1>1. pc = "header" /\ UNCHANGED <<query, size, datagram, buffer>> /\ out = <<>> /\ Errors = {}
  BY DEF Header, OnCourse
<1>2. CASE End < 12
  <2>1. Return(Error("InvalidData"))
    BY <1>2 DEF Header, Verdict, Reject
  <2>2. Len(datagram) > size
    <3>1. 12 <= Len(datagram) /\ Len(datagram) \in Nat
      <4>1. datagram \in Seq(Byte)
        BY Delivered
      <4>2. QuestionAt(m, 0) = 12 /\ QuestionAt(m, 0) <= QuestionAt(m, m.copies)
        BY QuestionPart
      <4>3. AnswerAt(m, 0) = QuestionAt(m, m.copies) /\ AnswerAt(m, 0) \in Nat
            /\ AnswerAt(m, 0) <= Len(datagram)
        BY AnswerPart
      <4> QED BY <4>1, <4>2, <4>3
    <3>2. End \in Nat /\ (End < Len(datagram) => Len(datagram) > size)
      BY DEF Bounds, End, Received
    <3> QED BY <1>2, <3>1, <3>2
  <2> QED BY <1>1, <2>1, <2>2, CutHere
<1>3. CASE ~(End < 12)
  <2>1. /\ At(2) = 129 /\ At(3) = 128 + m.rcode /\ U16(4) = m.copies /\ U16(6) = Len(m.answers)
    <3>1. \A p \in 0..11 : At(p) = datagram[p + 1]
      BY <1>3 DEF Received, Bounds, End
    <3>2. /\ datagram[3] = 129 /\ datagram[4] = 128 + m.rcode
          /\ 256 * datagram[5] + datagram[6] = m.copies
          /\ 256 * datagram[7] + datagram[8] = Len(m.answers)
      BY Delivered
    <3>3. /\ At(2) = datagram[3] /\ At(3) = datagram[4] /\ At(4) = datagram[5]
          /\ At(5) = datagram[6] /\ At(6) = datagram[7] /\ At(7) = datagram[8]
      BY <3>1
    <3>4. U16(4) = 256 * At(4) + At(5) /\ U16(6) = 256 * At(6) + At(7)
      BY DEF U16
    <3> QED BY <3>2, <3>3, <3>4
  <2>2. m.rcode \in 0..15 /\ Len(m.answers) \in Nat /\ (Len(m.answers) = 0 <=> m.answers = <<>>)
    <3>1. m.rcode \in 0..15 /\ m.answers \in Seq(ResourceRecord)
      BY MessagesAssumption DEF Section
    <3> QED BY <3>1
  <2>3. At(3) % 16 = m.rcode
    BY <2>1, <2>2
  <2>4. Verdict = IF m.rcode = 3 \/ m.answers = <<>> THEN "NotFound"
                  ELSE IF m.rcode # 0 THEN "Other" ELSE "Ok"
    BY <1>3, <2>1, <2>2, <2>3 DEF Verdict
  <2>5. CASE Verdict # "Ok"
    <3>1. Promised(m) = <<Error(Verdict)>>
      BY <2>4, <2>5 DEF Promised
    <3>2. pc' = "rejected" /\ out' = <<Error(Verdict)>>
      BY <1>1, <2>5 DEF Header, Reject, Return
    <3> QED BY <3>1, <3>2 DEF Settled
  <2>6. CASE Verdict = "Ok"
    <3>1. /\ pc' = "questions" /\ pos' = 12 /\ questions' = m.copies
          /\ answer_count' = Len(m.answers) /\ out' = <<>> /\ Errors' = {}
      BY <1>1, <2>1, <2>6 DEF Header, Errors
    <3>2. m.copies - questions' = 0 /\ questions' <= m.copies
      BY <3>1, QuestionPart
    <3>3. pos' = QuestionAt(m, m.copies - questions')
      BY <3>1, <3>2, QuestionPart
    <3>4. InQuestions(m)'
      BY <1>1, <3>1, <3>2, <3>3, QuestionsNext
    <3>5. m.rcode = 0 /\ m.answers # <<>>
      BY <2>4, <2>6
    <3> QED BY <3>1, <3>4, <3>5 DEF OnCourse, Searching, Reading, Naming
  <2> QED BY <2>5, <2>6
<1> QED BY <1>2, <1>3

LEMMA QuestionStep ==
    ASSUME Bounds, ReadingInv, QueryBuilt, Received, NEW m \in Messages,
           datagram = Encode(query, m), OnCourse(m), Question
    PROVE  OnCourse(m)' \/ Settled(m)'
<1> DEFINE k == Asked(m) + 1
<1>1. /\ pc = "question" /\ UNCHANGED <<query, size, datagram, buffer, answer_count>>
      /\ pos' = pos + 4
  BY DEF Question
<1>2. /\ out = <<>> /\ answer_count = Len(m.answers) /\ questions <= m.copies
      /\ pos = QuestionAt(m, k - 1) + Len(AskedName) /\ m.rcode = 0 /\ m.answers # <<>>
      /\ Errors = {}
  <2>1. Asked(m) = k - 1
    BY QuestionPart, Words DEF Asked, ReadingInv
  <2> QED BY <1>1, <2>1 DEF OnCourse, InQuestions, Searching
<1>3. /\ questions \in Nat /\ questions > 0 /\ m.copies \in Nat /\ Len(m.answers) \in Nat
      /\ Len(AskedName) \in Nat
  BY <1>1, QuestionPart, AnswerPart, Words DEF ReadingInv
<1>4. k \in 1..m.copies /\ k = m.copies - (questions - 1)
  BY <1>2, <1>3 DEF Asked
<1> HIDE DEF k
<1>5. pos' = QuestionAt(m, k) /\ QuestionAt(m, k) \in Nat
  BY <1>1, <1>2, <1>3, <1>4, AskedHolds
<1>6. CASE pos' >= End
  <2>1. QuestionAt(m, k) < Len(datagram)
    <3>1. Len(m.answers) > 0
      BY <1>2, <1>3, NotEmpty, MessagesAssumption DEF Section
    <3>2. 1 \in 1..Len(m.answers) /\ 1 - 1 = 0
      BY <1>3, <3>1
    <3>3. AnswerAt(m, 1 - 1) < AnswerAt(m, 1) /\ AnswerAt(m, 1) <= Len(datagram)
          /\ AnswerAt(m, 1 - 1) \in Nat /\ AnswerAt(m, 1) \in Nat /\ Len(datagram) \in Nat
      BY <3>2, AnswerHolds
    <3>4. QuestionAt(m, k) <= AnswerAt(m, 0)
      BY <1>4, AskedHolds
    <3> QED BY <1>5, <3>2, <3>3, <3>4
  <2>2. End < Len(datagram)
    BY <1>5, <1>6, <2>1 DEF Received, Bounds, End
  <2>3. Len(datagram) > size /\ Return(Error("InvalidData"))
    BY <1>6, <2>2 DEF Received, Question, Reject
  <2> QED BY <1>1, <2>3, CutHere
<1>7. CASE ~(pos' >= End)
  <2>1. questions' = questions - 1 /\ pc' = "questions" /\ UNCHANGED out
    BY <1>7 DEF Question
  <2>2. m.copies - questions' = k /\ questions' <= m.copies
    BY <1>2, <1>3, <1>4, <2>1
  <2>3. InQuestions(m)'
    BY <1>1, <1>2, <1>5, <2>1, <2>2, QuestionsNext
  <2>4. Errors' = {}
    BY <1>2, <2>1 DEF Errors
  <2> QED BY <1>2, <2>1, <2>3, <2>4 DEF OnCourse, Searching, Reading, Naming
<1> QED BY <1>6, <1>7

\* The name of a question, and of a record below.
LEMMA NameStep ==
    ASSUME Bounds, ReadingInv, QueryBuilt, Received, NEW m \in Messages,
           datagram = Encode(query, m), OnCourse(m), NameTurn, pc = "qname"
    PROVE  OnCourse(m)' \/ Settled(m)'
<1> DEFINE k    == Asked(m) + 1
           here == QuestionAt(m, k - 1)
<1>1. UNCHANGED <<query, size, datagram, buffer, questions, answer_count>>
  BY DEF NameTurn
<1>2. /\ out = <<>> /\ answer_count = Len(m.answers) /\ questions <= m.copies
      /\ Reads(AskedName, here) /\ m.rcode = 0 /\ m.answers # <<>> /\ Errors = {}
  <2>1. Asked(m) = k - 1
    BY QuestionPart, Words DEF Asked, ReadingInv
  <2> QED BY <2>1 DEF OnCourse, InQuestions, Searching
<1>3. questions \in Nat /\ questions > 0 /\ m.copies \in Nat
  BY QuestionPart, Words DEF ReadingInv
<1>4. k \in 1..m.copies /\ m.copies - questions = k - 1
  BY <1>2, <1>3 DEF Asked
<1>5. Holds(here, AskedName) /\ here \in Nat /\ datagram \in Seq(Byte) /\ AskedName \in Seq(Byte)
  BY <1>4, AskedHolds, QuestionPart, Delivered
<1>6. here = QuestionAt(m, m.copies - questions')
  BY <1>1, <1>4
<1> HIDE DEF here, k
<1>7. \/ pc' = pc /\ UNCHANGED out /\ \E H \in Heads(AskedName) : pos' - here \in H
      \/ pos' = here + Len(AskedName) /\ UNCHANGED out /\ pc' = "question"
      \/ Len(datagram) > size /\ Reject("InvalidData")
  BY <1>2, <1>5, NameTurnReads
<1>8. CASE UNCHANGED out /\ \/ pc' = "qname" /\ \E H \in Heads(AskedName) : pos' - here \in H
                            \/ pc' = "question" /\ pos' = here + Len(AskedName)
  <2>1. InQuestions(m)'
    BY <1>1, <1>2, <1>6, <1>8, QuestionsNext
  <2>2. Errors' = {}
    BY <1>2, <1>8 DEF Errors
  <2> QED BY <1>2, <1>8, <2>1, <2>2 DEF OnCourse, Searching, Reading, Naming
<1>9. CASE Len(datagram) > size /\ Reject("InvalidData")
  BY <1>1, <1>9, CutHere DEF Reject
<1> QED BY <1>7, <1>8, <1>9

\* What is known of the state while the answers are read, the record that is due among it.
LEMMA AnswerDue ==
    ASSUME ReadingInv, QueryBuilt, NEW m \in Messages, datagram = Encode(query, m),
           OnCourse(m), pc \in Reading, NEW k, k = Read(m) + 1
    PROVE  /\ out = Yield(m, k - 1) /\ Errors = {}
           /\ m.rcode = 0 /\ m.answers # <<>> /\ Len(m.answers) \in Nat
           /\ answer_count \in Nat /\ answer_count <= Len(m.answers)
           /\ Len(m.answers) - answer_count = k - 1 /\ Len(m.answers) - (answer_count - 1) = k
           /\ answer_count > 0 => k \in 1..Len(m.answers)
           /\ pc \in {"caller", "answers", "rname", "named"} => start = AnswerAt(m, k - 1)
           /\ pc = "rname" => Reads(m.answers[k].name, AnswerAt(m, k - 1))
           /\ pc \in {"named", "record"} => pos = AnswerAt(m, k - 1) + Len(m.answers[k].name)
<1>1. InAnswers(m) /\ Errors = {} /\ m.rcode = 0 /\ m.answers # <<>>
  BY DEF OnCourse, Reading, Naming
<1>2. answer_count \in Nat /\ answer_count <= Len(m.answers) /\ Len(m.answers) \in Nat
  BY <1>1, YieldPart, Words DEF InAnswers, ReadingInv
<1>3. /\ Read(m) = k - 1 /\ Len(m.answers) - answer_count = k - 1
      /\ Len(m.answers) - (answer_count - 1) = k
      /\ answer_count > 0 => k \in 1..Len(m.answers)
  BY <1>2 DEF Read
<1> QED BY <1>1, <1>2, <1>3 DEF InAnswers

LEMMA CallerStep ==
    ASSUME Bounds, ReadingInv, QueryBuilt, NEW m \in Messages,
           datagram = Encode(query, m), OnCourse(m), CallNext \/ Answers \/ SkipName
    PROVE  OnCourse(m)'
<1> DEFINE k    == Read(m) + 1
           here == AnswerAt(m, k - 1)
           name == m.answers[k].name
<1>1. /\ UNCHANGED <<query, out, answer_count>> /\ Errors' = Errors
      /\ pc \in {"caller", "answers", "named"}
  BY DEF CallNext, Answers, SkipName, parserVars, Errors
<1>2. /\ out = Yield(m, k - 1) /\ Errors = {}
      /\ m.rcode = 0 /\ m.answers # <<>>
      /\ answer_count \in Nat /\ answer_count <= Len(m.answers)
      /\ Len(m.answers) - answer_count = k - 1
      /\ answer_count > 0 => k \in 1..Len(m.answers)
      /\ start = here /\ (pc = "named" => pos = here + Len(name))
  BY <1>1, AnswerDue DEF Reading, Naming
<1>3. k - 1 = Len(m.answers) - answer_count' /\ answer_count' <= Len(m.answers)
      /\ out' = Yield(m, k - 1)
  BY <1>1, <1>2
<1>4. (k - 1) + 1 = k
  BY YieldPart, Words DEF Read, ReadingInv
<1> HIDE DEF k
<1>5. CASE CallNext
  <2>1. pc' = "answers" /\ start' = here
    BY <1>2, <1>5 DEF CallNext, parserVars
  <2>2. InAnswers(m)'
    BY <1>1, <1>3, <2>1, AnswersNext
  <2> QED BY <1>1, <1>2, <2>1, <2>2 DEF OnCourse, Searching, Reading, Naming
<1>6. CASE Answers
  <2>1. CASE answer_count = 0
    <3>1. pc' = "closed" /\ answer_count' = 0
      BY <1>1, <1>6, <2>1 DEF Answers
    <3>2. InAnswers(m)'
      BY <1>1, <1>3, <3>1, AnswersNext
    <3> QED BY <1>1, <1>2, <3>1, <3>2 DEF OnCourse, Searching, Reading, Naming
  <2>2. CASE answer_count # 0
    <3>1. pc' = "rname" /\ pos' = here /\ start' = here
      BY <1>2, <1>6, <2>2 DEF Answers
    <3>2. k \in 1..Len(m.answers) /\ here \in Nat /\ Heads(name) # {}
      <4>1. k \in 1..Len(m.answers)
        BY <1>2, <2>2
      <4> QED BY <4>1, AnswerHolds
    <3>3. PICK H \in Heads(name) : TRUE
      BY <3>2
    <3>4. 0 \in H /\ pos' - here = 0
      BY <3>1, <3>2, <3>3 DEF Heads
    <3>5. \E H1 \in Heads(m.answers[(k - 1) + 1].name) : pos' - here \in H1
      BY <1>4, <3>3, <3>4
    <3>6. InAnswers(m)'
      BY <1>1, <1>3, <3>1, <3>5, AnswersNext
    <3> QED BY <1>1, <1>2, <3>1, <3>6 DEF OnCourse, Searching, Reading, Naming
  <2> QED BY <2>1, <2>2
<1>7. CASE SkipName
  <2>1. pc = "named" /\ ~(pos > End)
    BY <1>7 DEF SkipName, Bounds, End
  <2>2. pc' = "record" /\ pos' = here + Len(name)
    BY <1>2, <1>7, <2>1 DEF SkipName
  <2>3. pos' = here + Len(m.answers[(k - 1) + 1].name)
    BY <1>4, <2>2
  <2>4. InAnswers(m)'
    BY <1>1, <1>3, <2>2, <2>3, AnswersNext
  <2> QED BY <1>1, <1>2, <2>2, <2>4 DEF OnCourse, Searching, Reading, Naming
<1> QED BY <1>5, <1>6, <1>7

LEMMA RecordNameStep ==
    ASSUME Bounds, ReadingInv, QueryBuilt, Received, NEW m \in Messages,
           datagram = Encode(query, m), OnCourse(m), NameTurn, pc = "rname"
    PROVE  OnCourse(m)' \/ Settled(m)'
<1> DEFINE k    == Read(m) + 1
           here == AnswerAt(m, k - 1)
           name == m.answers[k].name
<1>1. UNCHANGED <<query, size, datagram, buffer, start, answer_count>>
  BY DEF NameTurn
<1>2. /\ out = Yield(m, k - 1) /\ Errors = {}
      /\ m.rcode = 0 /\ m.answers # <<>> /\ answer_count <= Len(m.answers)
      /\ Len(m.answers) - answer_count = k - 1
      /\ start = here /\ Reads(name, here)
  BY AnswerDue DEF Reading, Naming
<1>3. k \in 1..Len(m.answers)
  BY AnswerDue DEF Reading, Naming, ReadingInv
<1>4. (k - 1) + 1 = k
  BY <1>3
<1>5. Holds(here, name) /\ here \in Nat /\ datagram \in Seq(Byte) /\ name \in Seq(Byte)
  BY <1>3, AnswerHolds
<1> HIDE DEF here, k, name
<1>6. \/ pc' = pc /\ UNCHANGED out /\ \E H \in Heads(name) : pos' - here \in H
      \/ pos' = here + Len(name) /\ UNCHANGED out /\ pc' = "named"
      \/ Len(datagram) > size /\ NameError
  BY <1>2, <1>5, NameTurnReads
<1>7. CASE UNCHANGED out /\ \/ pc' = "rname" /\ \E H \in Heads(name) : pos' - here \in H
                            \/ pc' = "named" /\ pos' = here + Len(name)
  <2>1. /\ UNCHANGED query /\ k - 1 = Len(m.answers) - answer_count' /\ here = AnswerAt(m, k - 1)
        /\ out' = Yield(m, k - 1)
        /\ answer_count' <= Len(m.answers) /\ start' = here
    BY <1>1, <1>2, <1>7 DEF here
  <2>2. name = m.answers[(k - 1) + 1].name
    BY <1>4 DEF name
  <2>3. InAnswers(m)'
    BY <1>7, <2>1, <2>2, AnswersNext
  <2>4. Errors' = {}
    BY <1>2, <1>7 DEF Errors
  <2> QED BY <1>2, <1>7, <2>3, <2>4 DEF OnCourse, Searching, Reading, Naming
<1>8. CASE Len(datagram) > size /\ NameError
  BY <1>1, <1>8, CutHere DEF NameError
<1> QED BY <1>6, <1>7, <1>8

LEMMA RecordStep ==
    ASSUME Bounds, ReadingInv, QueryBuilt, Received, NEW m \in Messages,
           datagram = Encode(query, m), OnCourse(m), ShortRecord \/ SkipRecord \/ AddressRecord
    PROVE  OnCourse(m)' \/ Settled(m)'
<1> DEFINE k    == Read(m) + 1
           here == AnswerAt(m, k - 1)
           r    == m.answers[k]
<1>1. pc = "record" /\ UNCHANGED <<query, size, datagram, buffer>>
  BY DEF ShortRecord, SkipRecord, AddressRecord
<1>2. /\ out = Yield(m, k - 1) /\ Errors = {}
      /\ m.rcode = 0 /\ m.answers # <<>> /\ answer_count <= Len(m.answers) /\ answer_count \in Nat
      /\ Len(m.answers) - (answer_count - 1) = k /\ Len(m.answers) \in Nat
      /\ pos = here + Len(r.name)
  BY <1>1, AnswerDue DEF Reading, Naming
<1>3. k \in 1..Len(m.answers)
  BY <1>1, AnswerDue DEF Reading, Naming, ReadingInv
<1>4. /\ Holds(here, EncodedRecord(r)) /\ here \in Nat /\ datagram \in Seq(Byte)
      /\ r \in ResourceRecord /\ AnswerAt(m, k) = here + Len(EncodedRecord(r))
  BY <1>3, AnswerHolds
<1>5. Yield(m, k) = Yield(m, k - 1) \o AddressOf(r)
  BY <1>3, YieldPart
<1>6. out \in Seq(Item)
  BY DEF ReadingInv
<1> HIDE DEF here, k, r
<1>7. /\ Short => Len(datagram) > size
      /\ ~Short => /\ U16(pos) = r.rr_type /\ U16(pos + 2) = r.class
                   /\ DataSize = Len(r.data) /\ Bytes(pos + 10, DataSize) = r.data
                   /\ Bytes(pos + 4, 4) = r.ttl
                   /\ pos + 10 + DataSize = here + Len(EncodedRecord(r))
  <2>1. AtFields(r, here)
    BY <1>2, <1>4 DEF AtFields
  <2> QED BY <1>4, <2>1, RecordReads
<1>8. CASE ShortRecord
  <2>1. Len(datagram) > size /\ Return(Error("InvalidData"))
    BY <1>7, <1>8 DEF ShortRecord
  <2> QED BY <1>1, <2>1, CutHere
<1>9. ASSUME ~Short, Consume, pc' \in {"caller", "answers"}, out' = out \o AddressOf(r),
             Errors' = {}
      PROVE  OnCourse(m)'
  <2>1. start' = AnswerAt(m, k) /\ answer_count' = answer_count - 1
    BY <1>4, <1>7, <1>9 DEF Consume
  <2>2. k = Len(m.answers) - answer_count' /\ answer_count' <= Len(m.answers)
    BY <1>2, <2>1
  <2>3. out' = Yield(m, k)
    BY <1>2, <1>5, <1>9
  <2>4. InAnswers(m)'
    BY <1>1, <1>9, <2>1, <2>2, <2>3, AnswersNext
  <2> QED BY <1>2, <1>9, <2>4 DEF OnCourse, Searching, Reading, Naming
<1>10. ~Short => (Skipped <=> ~IsAddress(r))
  BY <1>7 DEF Skipped, IsAddress, C_IN
<1>11. CASE SkipRecord
  <2>1. ~Short /\ Skipped /\ Consume /\ pc' = "answers" /\ UNCHANGED out
    BY <1>11 DEF SkipRecord
  <2>2. AddressOf(r) = <<>>
    BY <1>10, <2>1 DEF AddressOf
  <2>3. out' = out \o AddressOf(r)
    BY <1>6, <2>1, <2>2
  <2>4. Errors' = {}
    BY <1>2, <2>1 DEF Errors
  <2> QED BY <1>9, <2>1, <2>3, <2>4
<1>12. CASE AddressRecord
  <2> DEFINE item == [ok |-> TRUE, address |-> r.data, ttl |-> r.ttl]
  <2>1. ~Short /\ ~Skipped /\ Consume /\ pc' = "caller"
    BY <1>12 DEF AddressRecord
  <2>2. IsAddress(r) /\ DataSize = Width(U16(pos))
    BY <1>4, <1>7, <1>10, <2>1 DEF ResourceRecord
  <2>3. Return(item) /\ AddressOf(r) = <<item>>
    BY <1>7, <1>12, <2>1, <2>2 DEF AddressRecord, AddressOf
  <2>4. item.ok
    OBVIOUS
  <2> HIDE DEF item
  <2>5. Errors' = {}
    BY <1>2, <1>6, <2>3, <2>4, ErrorsReturn
  <2>6. out' = out \o AddressOf(r)
    BY <1>6, <2>3 DEF Return
  <2> QED BY <1>9, <2>1, <2>5, <2>6
<1> QED BY <1>8, <1>11, <1>12

-----------------------------------------------------------------------------
LEMMA InitReply == Init => ReplyInv
BY DEF Init, ReplyInv

LEMMA BuildStep ==
    ASSUME ReplyInv, NEW name \in Names, Build(name)
    PROVE  ReplyInv'
<1>1. /\ pc = "build" /\ query' = QueryPacket(name, QueryType) /\ UNCHANGED out
      /\ pc' \in {"unbuilt", "sent"}
      /\ pc' = "sent" => \A i \in DOMAIN name : ~(Len(name[i]) >= 128)
  BY DEF Build
<1>2. \A i \in DOMAIN name : Len(name[i]) \in Nat
  BY NamesAssumption
<1>3. pc' = "sent" => QueryBuilt'
  BY <1>1, <1>2 DEF QueryBuilt
<1> QED BY <1>1, <1>3 DEF ReplyInv

LEMMA ReceiveStep ==
    ASSUME Bounds, ReplyInv, NEW d \in Seq(Byte), Receive(d)
    PROVE  ReplyInv'
<1>1. /\ pc = "sent" /\ pc' = "header" /\ UNCHANGED <<query, size, out>> /\ out = <<>> /\ QueryBuilt
      /\ datagram' = d /\ buffer' = SubSeq(d, 1, IF Len(d) < size THEN Len(d) ELSE size)
  BY DEF Receive, ReplyInv
<1>2. QueryBuilt'
  BY <1>1 DEF QueryBuilt
<1>3. Received'
  <2> DEFINE n == IF Len(d) < size THEN Len(d) ELSE size
  <2>1. n \in 0..Len(d) /\ (n < Len(d) => Len(d) > size)
    BY DEF Bounds
  <2>2. Len(SubSeq(d, 1, n)) = n /\ \A i \in 1..n : SubSeq(d, 1, n)[i] = d[i]
    BY <2>1
  <2> HIDE DEF n
  <2>3. End' = n /\ \A p \in 0..(n - 1) : At(p)' = d[p + 1]
    BY <1>1, <2>1, <2>2 DEF End, At, n
  <2> QED BY <1>1, <2>1, <2>3 DEF Received
<1>4. ASSUME NEW m \in Messages PROVE OnCourse(m)'
  BY <1>1 DEF OnCourse, Errors, Searching, Reading, Naming
<1> QED BY <1>1, <1>2, <1>3, <1>4 DEF ReplyInv

LEMMA NextReply == Bounds /\ ReadingInv /\ ReplyInv /\ [Next]_vars => ReplyInv'
<1> SUFFICES ASSUME Bounds, ReadingInv, ReplyInv, [Next]_vars PROVE ReplyInv'
  OBVIOUS
<1>1. ASSUME NEW name \in Names, Build(name) PROVE ReplyInv'
  BY <1>1, BuildStep
<1>2. ASSUME pc = "sent", NEW d \in Replies(query), Receive(d) PROVE ReplyInv'
  <2>1. d \in Seq(Byte)
    BY <1>2, RepliesAssumption DEF Bounds
  <2> QED BY <1>2, <2>1, ReceiveStep
<1>3. CASE Parse
  <2>1. /\ pc \in {"header"} \cup Searching \cup (Reading \ {"closed"})
        /\ pc' \notin {"build", "unbuilt", "sent", "header"}
        /\ UNCHANGED <<query, size, datagram, buffer>>
        /\ UNCHANGED out \/ \E item : Return(item)
    BY <1>3 DEF Parse, Header, Questions, NameTurn, Question, CallNext, Answers, SkipName,
                ShortRecord, SkipRecord, AddressRecord, Reject, NameError,
                Searching, Reading, Naming
  <2>2. QueryBuilt /\ Received
    BY <2>1 DEF ReplyInv, Searching, Reading, Naming
  <2>3. QueryBuilt' /\ Received'
    BY <2>1, <2>2 DEF QueryBuilt, Received, End, At
  <2>4. ASSUME NEW m \in Messages, datagram = Encode(query, m)
        PROVE  OnCourse(m)' \/ Settled(m)'
    <3>1. CASE OnCourse(m)
      <4>1. CASE NameTurn
        <5>1. pc \in {"qname", "rname"}
          BY <4>1 DEF NameTurn
        <5> QED BY <2>2, <2>4, <3>1, <4>1, <5>1, NameStep, RecordNameStep
      <4>2. CASE Questions \/ Header \/ Question
        BY <2>2, <2>4, <3>1, <4>2, QuestionsStep, HeaderStep, QuestionStep
      <4>3. CASE CallNext \/ Answers \/ SkipName
        BY <2>2, <2>4, <3>1, <4>3, CallerStep
      <4>4. CASE ShortRecord \/ SkipRecord \/ AddressRecord
        BY <2>2, <2>4, <3>1, <4>4, RecordStep
      <4> QED BY <1>3, <4>1, <4>2, <4>3, <4>4 DEF Parse
    <3>2. CASE CutShort(m)
      BY <2>1, <3>2, CutStays DEF ReadingInv, Settled
    <3>3. OnCourse(m) \/ CutShort(m)
      BY <2>1, <2>4 DEF ReplyInv, Settled, Searching, Reading, Naming
    <3> QED BY <3>1, <3>2, <3>3
  <2> QED BY <2>1, <2>3, <2>4 DEF ReplyInv
<1>4. CASE UNCHANGED vars
  <2>1. QueryBuilt' = QueryBuilt /\ Received' = Received
    BY <1>4 DEF vars, QueryBuilt, Received, End, At
  <2>2. ASSUME NEW m PROVE OnCourse(m)' = OnCourse(m) /\ Settled(m)' = Settled(m)
    BY <1>4 DEF vars, OnCourse, Settled, CutShort, Errors, InQuestions, InAnswers, QuestionAt,
                AnswerAt, Asked, Read, AskedName, Reads
  <2>3. pc' = pc /\ out' = out /\ datagram' = datagram /\ query' = query
    BY <1>4 DEF vars
  <2> QED BY <2>1, <2>2, <2>3 DEF ReplyInv
<1> QED BY <1>1, <1>2, <1>3, <1>4 DEF Next

\* From the datagram's arrival on, a reply of the server is being read where the server
\* has put its parts, and what has been returned is what was sent so far, or the packet
\* was cut and the caller has been told.
THEOREM RepliesAreFollowed == Spec => [](Bounds /\ ReadingInv /\ ReplyInv)
BY InitBounds, NextBounds, InitReading, NextReading, InitReply, NextReply, PTL DEF Spec

\* The caller of query() is given the addresses of the answer section in their order and
\* nothing else, for every name, type, buffer and message, every way of writing the names
\* of the records, and any number of answers, other records among them; and where the
\* buffer has cut the packet, the beginning of them and then an error.
THEOREM RepliesAreReadAsSent == Spec => []ReadsWhatWasSent
<1>1. Bounds /\ ReadingInv /\ ReplyInv => ReadsWhatWasSent
  <2> SUFFICES ASSUME Bounds, ReadingInv, ReplyInv, Finished, pc # "unbuilt",
                      NEW m \in Messages, datagram = Encode(query, m)
               PROVE  out = Promised(m) \/ CutShort(m)
    BY DEF ReadsWhatWasSent, CutShort
  <2>1. pc \in {"rejected", "closed", "caller"} /\ (pc = "caller" => Errors # {})
    <3>1. pc # "panicked"
      BY DEF Bounds
    <3>2. ASSUME pc = "caller", Errors = {} PROVE FALSE
      BY <3>2, RetriesAssumption, FS_EmptySet DEF Finished
    <3> QED BY <3>1, <3>2 DEF Finished
  <2>2. OnCourse(m) \/ Settled(m)
    BY <2>1 DEF ReplyInv
  <2>3. CASE OnCourse(m)
    <3>1. pc = "closed"
      BY <2>1, <2>3 DEF OnCourse, Searching, Reading, Naming
    <3>2. answer_count = 0 /\ out = Yield(m, Read(m))
      BY <2>3, <3>1 DEF OnCourse, InAnswers, Reading
    <3>3. Read(m) = Len(m.answers)
      BY <3>2, YieldPart DEF Read
    <3>4. out = FlattenSeq(Yielded(m.answers))
      BY <3>2, <3>3, YieldPart
    <3> QED BY <2>3, <3>1, <3>4 DEF OnCourse, Promised
  <2>4. CASE Settled(m)
    BY <2>4 DEF Settled
  <2> QED BY <2>2, <2>3, <2>4
<1> QED BY <1>1, RepliesAreFollowed, PTL
=============================================================================
