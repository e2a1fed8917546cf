----------------------------- MODULE DnsBounds -----------------------------
(***************************************************************************)
(* Theorems: the parser of DnsParser never slices outside of its buffer,   *)
(* its state is of its types, and what it returns as addresses was         *)
(* announced by the header and read from bytes of its own, for packets and *)
(* buffers of every size and callers of every patience.                    *)
(***************************************************************************)
EXTENDS DnsParser, FiniteSetTheorems, TLAPS

\* Where the parser stands whenever it is about to slice at pos or start.
Bounds ==
    /\ size \in Nat
    /\ buffer \in Seq(Byte)
    /\ pc = "sent" => \E name \in Names : query = QueryPacket(name, QueryType)
    /\ pos \in Nat
    /\ start \in Nat
    /\ pc \in {"questions", "question", "named", "record"} => pos <= End
    /\ pc # "panicked"

LEMMA ByteAt == ASSUME buffer \in Seq(Byte), NEW p \in Nat, p < End
                PROVE  At(p) \in 0..255
<1>1. p + 1 \in 1..Len(buffer)
  BY DEF End
<1>2. \A i \in 1..Len(buffer) : buffer[i] \in Byte
  OBVIOUS
<1> QED BY <1>1, <1>2 DEF At, Byte

LEMMA U16At == ASSUME buffer \in Seq(Byte), NEW p \in Nat, p + 1 < End
               PROVE  U16(p) \in Word
<1>1. p < End /\ p + 1 \in Nat
  BY DEF End
<1>2. At(p) \in 0..255 /\ At(p + 1) \in 0..255
  BY <1>1, ByteAt
<1>3. \A m, n \in 0..255 : 256 * m + n \in Word
  BY DEF Word
<1> QED BY <1>2, <1>3 DEF U16

LEMMA Words == /\ 0 \in Word /\ \A n \in Word : n \in Nat
               /\ \A n \in Word : n > 0 => n - 1 \in Word
BY DEF Word

LEMMA InitBounds == Init => Bounds
BY SizesAssumption DEF Init, Bounds, End, Byte

LEMMA NextBounds == Bounds /\ [Next]_vars => Bounds'
<1> SUFFICES ASSUME Bounds, [Next]_vars PROVE Bounds'
  OBVIOUS
<1> USE DEF Bounds
<1>1. ASSUME NEW name \in Names, Build(name) PROVE Bounds'
  BY <1>1 DEF Build, parserVars, End
<1>2. ASSUME pc = "sent", NEW d \in Replies(query), Receive(d) PROVE Bounds'
  <2>1. d \in Seq(Byte)
    BY <1>2, RepliesAssumption
  <2>2. buffer' \in Seq(Byte)
    BY <1>2, <2>1 DEF Receive
  <2> QED BY <1>2, <2>2 DEF Receive, parserVars
<1>3. CASE Header
  <2>1. CASE Verdict # "Ok"
    BY <1>3, <2>1 DEF Header, Reject, Return, parserVars, End
  <2>2. CASE Verdict = "Ok"
    <3>1. End >= 12
      BY <2>2 DEF Verdict, End
    <3> QED BY <1>3, <2>2, <3>1 DEF Header, End
  <2> QED BY <2>1, <2>2
<1>4. CASE Questions
  BY <1>4 DEF Questions, End
<1>5. CASE Question
  BY <1>5 DEF Question, Reject, Return, End
<1>6. CASE NameTurn
  <2> DEFINE ends   == pos < End /\ NameEnds(pos)
             inside == pos < End /\ At(pos) \in 1..127
  <2>1. CASE ends /\ pos' = pos + (IF At(pos) = 0 THEN 1 ELSE 2)
                  /\ pc' = IF pc = "qname" THEN "question" ELSE "named"
    BY <1>6, <2>1 DEF NameTurn, NameEnds, PointerFits, End
  <2>2. CASE inside /\ pos' = pos + 1 + At(pos) /\ pc' = pc
    <3>1. \A n \in 1..127 : pos + 1 + n \in Nat
      OBVIOUS
    <3> QED BY <1>6, <2>2, <3>1 DEF NameTurn, End
  <2>3. CASE pos' = pos /\ pc' \in {"rejected", "caller"}
    BY <1>6, <2>3 DEF NameTurn, End
  <2> QED BY <1>6, <2>1, <2>2, <2>3 DEF NameTurn, Reject, NameError
<1>7. CASE CallNext
  BY <1>7 DEF CallNext, parserVars, End
<1>8. CASE Answers
  BY <1>8 DEF Answers, End
<1>9. CASE SkipName
  BY <1>9 DEF SkipName, End
<1>10. CASE ShortRecord
  BY <1>10 DEF ShortRecord, Return, parserVars, End
<1>11. ASSUME pc = "record", ~Short PROVE pos + 10 + DataSize \in Nat
  <2>1. End - pos >= 10
    BY <1>11 DEF Short, End
  <2>2. U16(pos + 8) \in Nat
    BY <2>1, U16At, Words DEF End
  <2> QED BY <2>2 DEF DataSize
<1>12. CASE SkipRecord
  BY <1>11, <1>12 DEF SkipRecord, Consume, End
<1>13. CASE AddressRecord
  BY <1>11, <1>13 DEF AddressRecord, Consume, Return, End
<1>14. CASE UNCHANGED vars
  BY <1>14 DEF vars, End
<1> QED BY <1>1, <1>2, <1>3, <1>4, <1>5, <1>6, <1>7, <1>8, <1>9, <1>10, <1>12, <1>13, <1>14
        DEF Next, Parse

\* name_size() stays inside of the packet it is given, so that no slice of
\* parse_response_packet() and Records::next() panics: whatever was received, and
\* also when next() is called again after an error.
THEOREM SlicesStayInside == Spec => []NoPanic
<1>1. Bounds => NoPanic
  BY DEF Bounds, NoPanic
<1> QED BY <1>1, InitBounds, NextBounds, PTL DEF Spec

-----------------------------------------------------------------------------
\* What query() and next() may return.
Addresses == {a \in Seq(Byte) : Len(a) \in {4, 16}}
Item == [ok : {TRUE}, address : Addresses, ttl : {t \in Seq(Byte) : Len(t) = 4}]
          \cup {Error(kind) : kind \in {"InvalidData", "NotFound", "Other"}}

Searching == {"questions", "qname", "question"}
Naming    == {"rname", "named", "record"}
Reading   == Naming \cup {"caller", "answers", "closed"}

\* An address costs one of the answers of the header, and the bytes from where
\* its record's name began to the end of its data.
Account ==
    /\ Cardinality(Yields(4)) + Cardinality(Yields(16)) + answer_count <= U16(6)
    /\ 12 + 15 * Cardinality(Yields(4)) + 27 * Cardinality(Yields(16)) <= start

\* The inductive invariant: while a name is skipped the answer is not yet
\* counted, and by the time its record is looked at the name has taken a byte.
ReadingInv ==
    /\ pc \in {"build", "unbuilt", "sent", "header", "rejected"} \cup Searching \cup Reading
    /\ End <= size /\ start <= End
    /\ questions \in Word /\ answer_count \in Word
    /\ out \in Seq(Item)
    /\ pc \in Searching => pos >= 12 /\ answer_count = U16(6)
    /\ pc \in {"qname", "question"} => questions > 0
    /\ pc \in Searching \cup Reading => End >= 12
    /\ pc \in Reading => Account
    /\ pc \notin Reading => start = 0 /\ Yields(4) = {} /\ Yields(16) = {}
    /\ pc \in Naming => answer_count > 0 /\ start <= pos
    /\ pc = "named" => start < pos
    /\ pc = "record" =>
         /\ start = pos
         /\ 13 + 15 * Cardinality(Yields(4)) + 27 * Cardinality(Yields(16)) <= start

\* How many addresses of each length there are, before and after a return.
LEMMA Counts ==
    ASSUME out \in Seq(Item), NEW n
    PROVE  IsFiniteSet(Yields(n)) /\ Cardinality(Yields(n)) \in Nat
<1>1. Yields(n) \in SUBSET (1..Len(out)) /\ Len(out) \in Int
  BY DEF Yields
<1>2. IsFiniteSet(1..Len(out))
  BY <1>1, FS_Interval
<1>3. IsFiniteSet(Yields(n))
  BY <1>1, <1>2, FS_Subset
<1> QED BY <1>3, FS_CardinalityType

LEMMA CountsReturn ==
    ASSUME out \in Seq(Item), NEW item \in Item, Return(item), NEW n
    PROVE  /\ out' \in Seq(Item)
           /\ (~item.ok \/ Len(item.address) # n) => Yields(n)' = Yields(n)
           /\ (item.ok /\ Len(item.address) = n) =>
                Cardinality(Yields(n)') = Cardinality(Yields(n)) + 1
<1> DEFINE last == Len(out) + 1
<1>1. /\ out' \in Seq(Item) /\ DOMAIN out = 1..Len(out) /\ DOMAIN out' = 1..last
      /\ Len(out) \in Nat /\ out'[last] = item /\ \A i \in DOMAIN out : out'[i] = out[i]
  BY DEF Return
<1>2. CASE ~item.ok \/ Len(item.address) # n
  <2>1. Yields(n)' = Yields(n)
    BY <1>1, <1>2 DEF Yields
  <2> QED BY <1>1, <1>2, <2>1
<1>3. CASE item.ok /\ Len(item.address) = n
  <2>1. Yields(n)' = Yields(n) \cup {last} /\ last \notin Yields(n)
    BY <1>1, <1>3 DEF Yields
  <2>2. Cardinality(Yields(n) \cup {last}) = Cardinality(Yields(n)) + 1
    BY <2>1, Counts, FS_AddElement
  <2> QED BY <1>1, <1>3, <2>1, <2>2
<1> QED BY <1>2, <1>3

LEMMA ErrorReturn ==
    ASSUME out \in Seq(Item), NEW kind \in {"InvalidData", "NotFound", "Other"},
           Return(Error(kind))
    PROVE  out' \in Seq(Item) /\ Yields(4)' = Yields(4) /\ Yields(16)' = Yields(16)
<1>1. Error(kind) \in Item /\ ~Error(kind).ok
  BY DEF Item, Error
<1> QED BY <1>1, CountsReturn

\* The sums of Account, when a name and when a record has been consumed.
LEMMA NamePaid ==
    ASSUME NEW a \in Nat, NEW b \in Nat, NEW s \in Nat, NEW t \in Nat,
           12 + 15 * a + 27 * b <= s, s < t
    PROVE  12 + 15 * a + 27 * b <= t /\ 13 + 15 * a + 27 * b <= t
OBVIOUS

LEMMA RecordPaid ==
    ASSUME NEW a \in Nat, NEW b \in Nat, NEW s \in Nat, NEW n \in Nat, NEW count \in Nat,
           NEW declared \in Nat, n > 0, a + b + n <= declared, 13 + 15 * a + 27 * b <= s
    PROVE  /\ a + b + (n - 1) <= declared
           /\ (a + 1) + b + (n - 1) <= declared /\ a + (b + 1) + (n - 1) <= declared
           /\ 12 + 15 * a + 27 * b <= s + 10 + count
           /\ 12 + 15 * (a + 1) + 27 * b <= s + 10 + 4
           /\ 12 + 15 * a + 27 * (b + 1) <= s + 10 + 16
OBVIOUS

LEMMA InitReading == Init => ReadingInv
<1> SUFFICES ASSUME Init PROVE ReadingInv
  OBVIOUS
<1>1. out \in Seq(Item) /\ Yields(4) = {} /\ Yields(16) = {}
  BY DEF Init, Yields
<1> QED BY <1>1, SizesAssumption, Words DEF Init, ReadingInv, Searching, Naming, Reading, End

LEMMA NextReading == Bounds /\ ReadingInv /\ [Next]_vars => ReadingInv'
<1> SUFFICES ASSUME Bounds, ReadingInv, [Next]_vars PROVE ReadingInv'
  OBVIOUS
<1> USE DEF ReadingInv, Searching, Naming, Reading
<1>1. End \in Nat /\ pos \in Nat /\ start \in Nat /\ size \in Nat /\ pc # "panicked"
      /\ questions \in Nat /\ answer_count \in Nat
  BY Words DEF Bounds, End
<1>2. Cardinality(Yields(4)) \in Nat /\ Cardinality(Yields(16)) \in Nat
  BY Counts
<1>3. UNCHANGED buffer => End' = End /\ U16(6)' = U16(6)
  BY DEF End, U16, At
<1>4. UNCHANGED out => Yields(4)' = Yields(4) /\ Yields(16)' = Yields(16)
  BY DEF Yields
<1>5. \A p \in Nat : p + 1 < End => U16(p) \in Word
  BY U16At DEF Bounds
<1>6. End >= 12 => U16(6) \in Nat
  <2>1. 6 \in Nat /\ (End >= 12 => 6 + 1 < End)
    BY <1>1
  <2> QED BY <1>5, <2>1, Words
<1>7. UNCHANGED <<buffer, start, answer_count, out>> => Account' = Account
  BY <1>3, <1>4 DEF Account
<1>8. ASSUME NEW name \in Names, Build(name) PROVE ReadingInv'
  BY <1>1, <1>3, <1>4, <1>8 DEF Build, parserVars
<1>9. ASSUME pc = "sent", NEW d \in Replies(query), Receive(d) PROVE ReadingInv'
  <2>1. d \in Seq(Byte)
    BY <1>9, RepliesAssumption DEF Bounds
  <2>2. End' \in Nat /\ End' <= size
    BY <1>1, <1>9, <2>1 DEF Receive, End
  <2>3. start = 0
    BY <1>9
  <2> QED BY <1>1, <1>4, <1>9, <2>2, <2>3 DEF Receive, parserVars
<1>10. CASE Header
  <2>1. CASE Verdict # "Ok" /\ Reject(Verdict) /\ UNCHANGED parserVars
    <3>1. Verdict \in {"InvalidData", "NotFound", "Other"}
      BY <2>1 DEF Verdict
    <3>2. out' \in Seq(Item) /\ Yields(4)' = Yields(4) /\ Yields(16)' = Yields(16)
      BY <2>1, <3>1, ErrorReturn DEF Reject
    <3> QED BY <1>1, <1>3, <1>10, <2>1, <3>2 DEF Header, Reject, parserVars
  <2>2. CASE Verdict = "Ok" /\ pos' = 12 /\ questions' = U16(4) /\ answer_count' = U16(6)
              /\ pc' = "questions" /\ UNCHANGED <<start, out>>
    <3>1. End >= 12
      BY <1>1, <2>2 DEF Verdict
    <3>2. U16(4) \in Word /\ U16(6) \in Word
      BY <1>1, <1>5, <3>1
    <3> QED BY <1>1, <1>3, <1>4, <1>10, <2>2, <3>1, <3>2 DEF Header
  <2> QED BY <1>10, <2>1, <2>2 DEF Header
<1>11. CASE Questions
  <2>1. pos <= End
    BY <1>11 DEF Questions, Bounds
  <2>2. CASE questions > 0
    BY <1>1, <1>3, <1>4, <1>11, <2>1, <2>2 DEF Questions
  <2>3. CASE ~(questions > 0)
    <3>1. pc' = "caller" /\ start' = pos /\ UNCHANGED <<size, pos, questions, answer_count>>
      BY <1>1, <1>11, <2>1, <2>3 DEF Questions
    <3>2. Cardinality(Yields(4)') = 0 /\ Cardinality(Yields(16)') = 0
      BY <1>4, <1>11, FS_EmptySet DEF Questions
    <3>3. Account'
      BY <1>1, <1>3, <1>6, <1>11, <3>1, <3>2 DEF Questions, Account
    <3> QED BY <1>1, <1>3, <1>4, <1>11, <2>1, <3>1, <3>3 DEF Questions
  <2> QED BY <2>2, <2>3
<1>12. CASE Question
  <2>1. CASE Reject("InvalidData") /\ UNCHANGED questions
    <3>1. out' \in Seq(Item) /\ Yields(4)' = Yields(4) /\ Yields(16)' = Yields(16)
      BY <2>1, ErrorReturn DEF Reject
    <3> QED BY <1>1, <1>3, <1>12, <2>1, <3>1 DEF Question, Reject
  <2>2. CASE questions' = questions - 1 /\ pc' = "questions" /\ UNCHANGED out
    BY <1>1, <1>3, <1>4, <1>12, <2>2, Words DEF Question
  <2> QED BY <1>12, <2>1, <2>2 DEF Question
<1>13. CASE NameTurn
  <2>1. CASE pos < End /\ NameEnds(pos)
          /\ pos' = pos + (IF At(pos) = 0 THEN 1 ELSE 2)
          /\ pc' = (IF pc = "qname" THEN "question" ELSE "named") /\ UNCHANGED out
    <3>1. pos' > pos
      BY <1>1, <2>1
    <3> QED BY <1>1, <1>3, <1>4, <1>7, <1>13, <2>1, <3>1 DEF NameTurn
  <2>2. CASE pos < End /\ At(pos) \in 1..127 /\ pos' = pos + 1 + At(pos) /\ UNCHANGED <<pc, out>>
    <3>1. pos' > pos
      <4>1. \A n \in 1..127 : pos + 1 + n > pos
        BY <1>1
      <4> QED BY <2>2, <4>1
    <3> QED BY <1>1, <1>3, <1>4, <1>7, <1>13, <2>2, <3>1 DEF NameTurn
  <2>3. CASE pc = "qname" /\ Reject("InvalidData") /\ UNCHANGED pos
    <3>1. out' \in Seq(Item) /\ Yields(4)' = Yields(4) /\ Yields(16)' = Yields(16)
      BY <2>3, ErrorReturn DEF Reject
    <3> QED BY <1>1, <1>3, <1>13, <2>3, <3>1 DEF NameTurn, Reject
  <2>4. CASE pc = "rname" /\ NameError /\ UNCHANGED pos
    <3>1. out' \in Seq(Item) /\ Yields(4)' = Yields(4) /\ Yields(16)' = Yields(16)
      BY <2>4, ErrorReturn DEF NameError
    <3> QED BY <1>1, <1>3, <1>13, <2>4, <3>1 DEF NameTurn, NameError, Account
  <2> QED BY <1>13, <2>1, <2>2, <2>3, <2>4 DEF NameTurn
<1>14. CASE CallNext
  BY <1>1, <1>3, <1>4, <1>7, <1>14 DEF CallNext, parserVars
<1>15. CASE Answers
  BY <1>1, <1>3, <1>4, <1>7, <1>15 DEF Answers
<1>16. CASE SkipName
  <2>1. pos <= End /\ start < pos
    BY <1>16 DEF SkipName, Bounds
  <2>2. pc' = "record" /\ start' = pos /\ UNCHANGED <<size, pos, questions, answer_count>>
    BY <1>1, <1>16, <2>1 DEF SkipName
  <2>3. UNCHANGED <<buffer, out>> /\ pc = "named"
    BY <1>16 DEF SkipName
  <2>4. /\ 12 + 15 * Cardinality(Yields(4)) + 27 * Cardinality(Yields(16)) <= pos
        /\ 13 + 15 * Cardinality(Yields(4)) + 27 * Cardinality(Yields(16)) <= pos
    BY <1>1, <1>2, <2>1, <2>3, NamePaid DEF Account
  <2>5. Account'
    BY <1>3, <1>4, <2>2, <2>3, <2>4 DEF Account
  <2> QED BY <1>1, <1>3, <1>4, <2>1, <2>2, <2>3, <2>4, <2>5
<1>17. CASE ShortRecord
  <2>1. out' \in Seq(Item) /\ Yields(4)' = Yields(4) /\ Yields(16)' = Yields(16)
    BY <1>17, ErrorReturn DEF ShortRecord
  <2> QED BY <1>1, <1>3, <1>17, <2>1 DEF ShortRecord, parserVars, Account
<1>18. ASSUME pc = "record", ~Short
       PROVE  DataSize \in Nat /\ pos + 10 + DataSize <= End
  <2>1. End - pos >= 10
    BY <1>1, <1>18 DEF Short
  <2>2. U16(pos + 8) \in Word
    BY <1>1, <1>5, <2>1
  <2>3. DataSize \in Nat
    BY <2>2, Words DEF DataSize
  <2> QED BY <1>1, <1>18, <2>1, <2>3 DEF Short
<1> DEFINE c4  == Cardinality(Yields(4))
           c16 == Cardinality(Yields(16))
           declared == U16(6)
           spent == answer_count - 1
<1>19. ASSUME pc = "record", NEW count \in Nat
       PROVE  /\ c4 + c16 + spent <= declared
              /\ (c4 + 1) + c16 + spent <= declared /\ c4 + (c16 + 1) + spent <= declared
              /\ 12 + 15 * c4 + 27 * c16 <= pos + 10 + count
              /\ 12 + 15 * (c4 + 1) + 27 * c16 <= pos + 10 + 4
              /\ 12 + 15 * c4 + 27 * (c16 + 1) <= pos + 10 + 16
  <2>1. c4 \in Nat /\ c16 \in Nat /\ declared \in Nat
    BY <1>2, <1>6, <1>19
  <2>2. c4 + c16 + answer_count <= declared /\ 13 + 15 * c4 + 27 * c16 <= pos /\ answer_count > 0
    BY <1>19 DEF Account
  <2> HIDE DEF c4, c16, declared
  <2> QED BY <1>1, <2>1, <2>2, RecordPaid
<1>20. CASE SkipRecord
  <2>1. DataSize \in Nat /\ pos + 10 + DataSize <= End
    BY <1>18, <1>20 DEF SkipRecord
  <2>2. start' = pos + 10 + DataSize /\ answer_count' = answer_count - 1 /\ pc' = "answers"
        /\ UNCHANGED <<size, buffer, pos, questions, out>> /\ pc = "record"
    BY <1>20 DEF SkipRecord, Consume
  <2>3. Account'
    BY <1>3, <1>4, <1>19, <2>1, <2>2 DEF Account
  <2> QED BY <1>1, <1>3, <1>4, <2>1, <2>2, <2>3, Words
<1>21. CASE AddressRecord
  <2>1. DataSize \in Nat /\ pos + 10 + DataSize <= End
    BY <1>18, <1>21 DEF AddressRecord
  <2>2. start' = pos + 10 + DataSize /\ answer_count' = answer_count - 1 /\ pc' = "caller"
        /\ UNCHANGED <<size, buffer, pos, questions>> /\ pc = "record"
    BY <1>21 DEF AddressRecord, Consume
  <2> DEFINE item == [ok |-> TRUE, address |-> Bytes(pos + 10, DataSize), ttl |-> Bytes(pos + 4, 4)]
  <2>3. CASE DataSize = Width(U16(pos)) /\ Return(item)
    <3>1. DataSize \in {4, 16}
      BY <1>21, <2>3 DEF AddressRecord, Skipped, Width
    <3>2. \A p \in Nat, n \in Nat : p + n <= End => Bytes(p, n) \in Seq(Byte) /\ Len(Bytes(p, n)) = n
      BY DEF Bytes, Bounds, End
    <3>3. item \in Item /\ item.ok /\ Len(item.address) = DataSize
      <4>1. Bytes(pos + 10, DataSize) \in Addresses
        <5>1. pos + 10 \in Nat /\ DataSize \in Nat /\ (pos + 10) + DataSize <= End
          BY <1>1, <2>1
        <5>2. Bytes(pos + 10, DataSize) \in Seq(Byte) /\ Len(Bytes(pos + 10, DataSize)) = DataSize
          BY <3>2, <5>1
        <5> QED BY <3>1, <5>2 DEF Addresses
      <4>2. Bytes(pos + 4, 4) \in {t \in Seq(Byte) : Len(t) = 4}
        <5>1. pos + 4 \in Nat /\ (pos + 4) + 4 <= End
          BY <1>1, <2>1
        <5> QED BY <3>2, <5>1
      <4>3. item \in Item
        BY <4>1, <4>2 DEF Item
      <4>4. Len(Bytes(pos + 10, DataSize)) = DataSize
        BY <1>1, <2>1, <3>2
      <4> QED BY <4>3, <4>4
    <3>4. /\ out' \in Seq(Item)
          /\ Cardinality(Yields(4)') = Cardinality(Yields(4)) + (IF DataSize = 4 THEN 1 ELSE 0)
          /\ Cardinality(Yields(16)') = Cardinality(Yields(16)) + (IF DataSize = 16 THEN 1 ELSE 0)
      <4> HIDE DEF item
      <4> QED BY <1>2, <2>3, <3>1, <3>3, CountsReturn
    <3>5. Account'
      <4>1. UNCHANGED buffer => U16(6)' = U16(6)
        BY <1>3
      <4>2. CASE DataSize = 4
        BY <1>2, <1>19, <2>2, <3>4, <4>1, <4>2 DEF Account
      <4>3. CASE DataSize = 16
        BY <1>2, <1>19, <2>2, <3>4, <4>1, <4>3 DEF Account
      <4> QED BY <3>1, <4>2, <4>3
    <3> QED BY <1>1, <1>3, <2>1, <2>2, <3>4, <3>5, Words
  <2>4. CASE Return(Error("InvalidData"))
    <3>1. out' \in Seq(Item) /\ Yields(4)' = Yields(4) /\ Yields(16)' = Yields(16)
      BY <2>4, ErrorReturn
    <3>2. Account'
      BY <1>3, <1>19, <2>1, <2>2, <3>1 DEF Account
    <3> QED BY <1>1, <1>3, <2>1, <2>2, <3>1, <3>2, Words
  <2> QED BY <1>21, <2>3, <2>4 DEF AddressRecord
<1>22. CASE UNCHANGED vars
  BY <1>1, <1>3, <1>4, <1>7, <1>22 DEF vars
<1> QED BY <1>8, <1>9, <1>10, <1>11, <1>12, <1>13, <1>14, <1>15, <1>16, <1>17, <1>20, <1>21, <1>22
        DEF Next, Parse

\* The invariants hold of every packet, buffer and caller.
THEOREM ReadingInvariant == Spec => [](Bounds /\ ReadingInv)
BY InitBounds, NextBounds, InitReading, NextReading, PTL DEF Spec

\* What query() and next() keep and return is of its types: the slices of Records
\* begin inside of the received part of the buffer, and an address has 4 or 16 bytes.
THEOREM ReadingTypeOK == Spec => []TypeOK
<1>1. Bounds /\ ReadingInv => TypeOK
  <2> SUFFICES ASSUME Bounds, ReadingInv PROVE TypeOK
    OBVIOUS
  <2>1. \A i \in DOMAIN out :
          out[i].ok => Len(out[i].ttl) = 4 /\ Len(out[i].address) \in {4, 16}
    <3> SUFFICES ASSUME NEW i \in DOMAIN out, out[i].ok
                 PROVE  Len(out[i].ttl) = 4 /\ Len(out[i].address) \in {4, 16}
      OBVIOUS
    <3>1. out[i] \in Item
      BY DEF ReadingInv
    <3>2. out[i] \notin {Error(kind) : kind \in {"InvalidData", "NotFound", "Other"}}
      BY DEF Error
    <3>3. out[i] \in [ok : {TRUE}, address : Addresses, ttl : {t \in Seq(Byte) : Len(t) = 4}]
      BY <3>1, <3>2 DEF Item
    <3> QED BY <3>3 DEF Addresses
  <2> QED BY <2>1 DEF TypeOK, Bounds, ReadingInv, Searching, Naming, Reading, End
<1> QED BY <1>1, ReadingInvariant, PTL

\* next() returns no more addresses than the header announced, and each was read from
\* bytes of its own, however often it is called again after an error.
THEOREM AddressesAreDeclared == Spec => []YieldsAreDeclared
<1>1. Bounds /\ ReadingInv => YieldsAreDeclared
  <2> SUFFICES ASSUME ReadingInv,
                      Cardinality(Yields(4)) + Cardinality(Yields(16)) > 0
               PROVE  Account
    BY DEF YieldsAreDeclared, Account
  <2>1. Yields(4) # {} \/ Yields(16) # {}
    <3>1. Cardinality({}) = 0 /\ ~(0 + 0 > 0)
      BY FS_EmptySet
    <3> QED BY <3>1
  <2>2. pc \in Reading
    BY <2>1 DEF ReadingInv
  <2> QED BY <2>2 DEF ReadingInv
<1> QED BY <1>1, ReadingInvariant, PTL
-----------------------------------------------------------------------------
\* How far the parser can be beyond the buffer, and how many errors there can be.
PaceInv ==
    /\ pc \in {"qname", "rname"} => pos <= End + 127
    /\ pc \in {"build", "unbuilt", "sent", "header"} \cup Searching => Errors = {}
    /\ pc \in {"answers"} \cup Naming => Cardinality(Errors) <= Retries
    /\ pc \in {"caller", "rejected", "closed"} => Cardinality(Errors) <= Retries + 1

\* How many errors there are, before and after a return.
LEMMA ErrorCount ==
    ASSUME out \in Seq(Item)
    PROVE  IsFiniteSet(Errors) /\ Cardinality(Errors) \in Nat
<1>1. Errors \in SUBSET (1..Len(out)) /\ Len(out) \in Int
  BY DEF Errors
<1>2. IsFiniteSet(1..Len(out))
  BY <1>1, FS_Interval
<1>3. IsFiniteSet(Errors)
  BY <1>1, <1>2, FS_Subset
<1> QED BY <1>3, FS_CardinalityType

LEMMA ErrorsReturn ==
    ASSUME out \in Seq(Item), NEW item, Return(item)
    PROVE  /\ item.ok => Errors' = Errors
           /\ ~item.ok => Cardinality(Errors)' = Cardinality(Errors) + 1
<1> DEFINE last == Len(out) + 1
<1>1. /\ DOMAIN out = 1..Len(out) /\ DOMAIN out' = 1..last
      /\ Len(out) \in Nat /\ out'[last] = item /\ \A i \in DOMAIN out : out'[i] = out[i]
  BY DEF Return
<1>2. CASE item.ok
  <2>1. Errors' = Errors
    BY <1>1, <1>2 DEF Errors
  <2> QED BY <1>2, <2>1
<1>3. CASE ~item.ok
  <2>1. Errors' = Errors \cup {last} /\ last \notin Errors
    BY <1>1, <1>3 DEF Errors
  <2>2. Cardinality(Errors \cup {last}) = Cardinality(Errors) + 1
    BY <2>1, ErrorCount, FS_AddElement
  <2> QED BY <1>3, <2>1, <2>2
<1> QED BY <1>2, <1>3

LEMMA KindReturn ==
    ASSUME out \in Seq(Item), NEW kind, Return(Error(kind))
    PROVE  Cardinality(Errors)' = Cardinality(Errors) + 1
<1>1. ~Error(kind).ok
  BY DEF Error
<1> QED BY <1>1, ErrorsReturn

LEMMA InitPace == Init => PaceInv
<1> SUFFICES ASSUME Init PROVE PaceInv
  OBVIOUS
<1>1. Errors = {}
  BY DEF Init, Errors
<1> QED BY <1>1 DEF Init, PaceInv, Searching, Naming

LEMMA NextPace == Bounds /\ ReadingInv /\ PaceInv /\ [Next]_vars => PaceInv'
<1> SUFFICES ASSUME Bounds, ReadingInv, PaceInv, [Next]_vars PROVE PaceInv'
  OBVIOUS
<1> USE DEF PaceInv, Searching, Naming
<1>1. /\ End \in Nat /\ pos \in Nat /\ Retries \in Nat /\ Cardinality(Errors) \in Nat
      /\ out \in Seq(Item)
  BY ErrorCount, RetriesAssumption DEF Bounds, ReadingInv, End
<1>2. UNCHANGED buffer => End' = End
  BY DEF End
<1>3. UNCHANGED out => Errors' = Errors
  BY DEF Errors
<1>4. Errors = {} => Cardinality(Errors) = 0
  BY FS_EmptySet
<1>5. ASSUME NEW kind, Return(Error(kind)) PROVE Cardinality(Errors)' = Cardinality(Errors) + 1
  BY <1>1, <1>5, KindReturn
<1>6. ASSUME NEW name \in Names, Build(name) PROVE PaceInv'
  BY <1>3, <1>6 DEF Build
<1>7. ASSUME NEW d \in Replies(query), Receive(d) PROVE PaceInv'
  BY <1>3, <1>7 DEF Receive
<1>8. CASE Header
  BY <1>1, <1>3, <1>4, <1>5, <1>8 DEF Header, Reject
<1>9. CASE Questions
  BY <1>1, <1>2, <1>3, <1>4, <1>9 DEF Questions, Bounds
<1>10. CASE Question
  BY <1>1, <1>3, <1>4, <1>5, <1>10 DEF Question, Reject
<1>11. CASE NameTurn
  <2>1. At(pos) \in 1..127 /\ pos < End => pos + 1 + At(pos) <= End + 127
    <3>1. \A n \in 1..127 : pos < End => pos + 1 + n <= End + 127
      BY <1>1
    <3> QED BY <3>1
  <2>2. CASE pos < End /\ pc' = (IF pc = "qname" THEN "question" ELSE "named") /\ UNCHANGED out
    BY <1>3, <1>4, <1>11, <2>2, RetriesAssumption DEF NameTurn
  <2>3. CASE /\ pos < End /\ At(pos) \in 1..127 /\ pos' = pos + 1 + At(pos)
             /\ UNCHANGED <<pc, out>>
    BY <1>2, <1>3, <1>11, <2>1, <2>3 DEF NameTurn
  <2>4. CASE pc = "qname" /\ Reject("InvalidData")
    BY <1>1, <1>4, <1>5, <2>4 DEF Reject
  <2>5. CASE pc = "rname" /\ NameError
    BY <1>1, <1>5, <2>5 DEF NameError
  <2> QED BY <1>11, <2>2, <2>3, <2>4, <2>5 DEF NameTurn
<1>12. CASE CallNext
  BY <1>1, <1>3, <1>12 DEF CallNext
<1>13. CASE Answers
  BY <1>1, <1>2, <1>3, <1>13 DEF Answers, ReadingInv, Bounds
<1>14. CASE SkipName
  BY <1>1, <1>3, <1>14 DEF SkipName
<1>15. CASE ShortRecord
  BY <1>1, <1>5, <1>15 DEF ShortRecord
<1>16. CASE SkipRecord
  BY <1>1, <1>3, <1>16 DEF SkipRecord
<1>17. CASE AddressRecord
  <2> DEFINE item == [ok |-> TRUE, address |-> Bytes(pos + 10, DataSize), ttl |-> Bytes(pos + 4, 4)]
  <2>1. item.ok
    OBVIOUS
  <2> HIDE DEF item
  <2>2. Return(item) => Errors' = Errors
    BY <1>1, <2>1, ErrorsReturn
  <2>3. Return(item) \/ Return(Error("InvalidData"))
    BY <1>17 DEF AddressRecord, item
  <2>4. pc = "record" /\ pc' = "caller"
    BY <1>17 DEF AddressRecord
  <2> QED BY <1>1, <1>5, <2>2, <2>3, <2>4
<1>18. CASE UNCHANGED vars
  BY <1>2, <1>3, <1>18 DEF vars
<1> QED BY <1>6, <1>7, <1>8, <1>9, <1>10, <1>11, <1>12, <1>13, <1>14, <1>15, <1>16, <1>17, <1>18
        DEF Next, Parse

LEMMA WithinTurn ==
    ASSUME NEW left \in Nat, NEW round \in Nat, NEW a \in Int, NEW b \in 0..(a - 1),
           NEW before, NEW after, before = left * round + a, after = left * round + b
    PROVE  after \in 0..(before - 1)
<1> DEFINE product == left * round
<1>1. product \in Nat /\ before = product + a /\ after = product + b
  OBVIOUS
<1> HIDE DEF product
<1> QED BY <1>1

LEMMA AfterError ==
    ASSUME NEW left \in Nat, left > 0, NEW round \in Nat, NEW a \in Int, NEW b \in 0..(round + a - 1),
           NEW before, NEW after, before = left * round + a, after = (left - 1) * round + b
    PROVE  after \in 0..(before - 1)
<1> DEFINE product == (left - 1) * round
<1>1. product \in Nat /\ before = (product + round) + a /\ after = product + b
  OBVIOUS
<1> HIDE DEF product
<1> QED BY <1>1

\* A turn of name_size() that does not fail has consumed something.
LEMMA NameAdvance ==
    ASSUME Bounds, NameTurn, End \in Nat
    PROVE  \/ IF pc = "qname" THEN Reject("InvalidData") ELSE NameError
           \/ /\ pc' \in {pc, IF pc = "qname" THEN "question" ELSE "named"}
              /\ pos' \in Nat /\ pos < pos' /\ pos' <= End + 128 /\ UNCHANGED out
<1>1. \A n \in 1..127 : pos < End => /\ pos + 1 + n \in Nat /\ pos < pos + 1 + n
                                      /\ pos + 1 + n <= End + 128
  BY DEF Bounds
<1>2. CASE pos < End /\ NameEnds(pos) /\ pos' = pos + (IF At(pos) = 0 THEN 1 ELSE 2)
           /\ pc' = (IF pc = "qname" THEN "question" ELSE "named") /\ UNCHANGED out
  BY <1>2 DEF Bounds
<1>3. CASE pos < End /\ At(pos) \in 1..127 /\ pos' = pos + 1 + At(pos) /\ UNCHANGED <<pc, out>>
  BY <1>1, <1>3
<1> QED BY <1>2, <1>3 DEF NameTurn

\* What is left to do gets less with every step of the parser and its caller.
LEMMA WorkStep ==
    ASSUME Bounds, ReadingInv, PaceInv, Parse
    PROVE  Work' \in 0..(Work - 1)
<1> USE DEF PaceInv, Searching, Naming
<1>1. /\ End \in Nat /\ pos \in Nat /\ start \in Nat /\ Round \in Nat /\ start <= End
      /\ Retries \in Nat /\ Cardinality(Errors) \in Nat /\ out \in Seq(Item)
  BY ErrorCount, RetriesAssumption DEF Bounds, ReadingInv, End, Round
<1>2. End' = End /\ Round' = Round
  BY DEF End, Round, Parse, Header, Questions, Question, NameTurn, CallNext, Answers, SkipName,
         ShortRecord, SkipRecord, AddressRecord
<1>3. UNCHANGED out => Errors' = Errors
  BY DEF Errors
<1>4. Errors = {} => Cardinality(Errors) = 0
  BY FS_EmptySet
<1>5. Rest \in Int
  <2>1. /\ 2 * Round \in Int /\ Round + End + 129 - pos \in Int /\ Round + End + 128 - pos \in Int
        /\ End + 132 - start \in Int /\ End + 131 - start \in Int /\ End + 130 - pos \in Int
        /\ End + 129 - pos \in Int /\ 0 \in Int
    BY <1>1
  <2>2. CASE pc \in {"header", "questions", "qname", "question", "caller"}
    BY <2>1, <2>2 DEF Rest
  <2>3. CASE pc \in {"answers", "rname", "named", "record"}
    BY <2>1, <2>3 DEF Rest
  <2>4. pc \in {"header", "questions", "qname", "question", "caller", "answers", "rname", "named", "record"}
    BY DEF Parse, Header, Questions, Question, NameTurn, CallNext, Answers, SkipName,
           ShortRecord, SkipRecord, AddressRecord
  <2> QED BY <2>2, <2>3, <2>4
<1>6. ASSUME Cardinality(Errors) <= Retries + 1, Errors' = Errors, Rest' \in 0..(Rest - 1)
      PROVE  Work' \in 0..(Work - 1)
  <2>1. Left \in Nat /\ Left' = Left
    BY <1>1, <1>6 DEF Left
  <2>2. Work = Left * Round + Rest /\ Work' = Left * Round + Rest'
    BY <1>2, <2>1 DEF Work
  <2> QED BY <1>1, <1>5, <1>6, <2>1, <2>2, WithinTurn
<1>7. ASSUME Cardinality(Errors) <= Retries, NEW kind, Return(Error(kind)),
             Rest' \in 0..(Round + Rest - 1)
      PROVE  Work' \in 0..(Work - 1)
  <2>1. Cardinality(Errors)' = Cardinality(Errors) + 1
    BY <1>1, <1>7, KindReturn
  <2>2. Left \in Nat /\ Left > 0 /\ Left' = Left - 1
    BY <1>1, <1>7, <2>1 DEF Left
  <2>3. Work = Left * Round + Rest /\ Work' = (Left - 1) * Round + Rest'
    BY <1>2, <2>2 DEF Work
  <2> QED BY <1>1, <1>5, <1>7, <2>2, <2>3, AfterError
<1>8. CASE Header
  <2>1. CASE Reject(Verdict)
    <3>1. Rest' = 0 /\ Rest = 2 * Round
      BY <1>8, <2>1 DEF Header, Reject, Rest
    <3> QED BY <1>1, <1>4, <1>7, <1>8, <2>1, <3>1 DEF Header, Reject, Round
  <2>2. CASE Verdict = "Ok" /\ pos' = 12 /\ pc' = "questions" /\ UNCHANGED out
    <3>1. End >= 12
      BY <1>1, <2>2 DEF Verdict
    <3>2. Rest' = Round + End + 129 - 12 /\ Rest = 2 * Round
      BY <1>2, <1>8, <2>2 DEF Header, Rest
    <3> QED BY <1>1, <1>3, <1>4, <1>6, <1>8, <2>2, <3>1, <3>2 DEF Header, Round
  <2> QED BY <1>8, <2>1, <2>2 DEF Header
<1>9. CASE Questions
  <2>1. pos <= End /\ pc = "questions" /\ Errors = {}
    BY <1>9 DEF Questions, Bounds
  <2>2. Rest = Round + End + 129 - pos
    BY <2>1 DEF Rest
  <2>3. Rest' = Round + End + 128 - pos \/ Rest' = End + 132 - pos
    BY <1>1, <1>2, <1>9, <2>1 DEF Questions, Rest
  <2>4. Rest' \in 0..(Rest - 1)
    BY <1>1, <2>1, <2>2, <2>3 DEF Round
  <2> QED BY <1>1, <1>3, <1>4, <1>6, <1>9, <2>1, <2>4 DEF Questions
<1>10. CASE Question
  <2>1. pc = "question" /\ Errors = {} /\ pos <= End /\ pos' = pos + 4
    BY <1>10 DEF Question, Bounds
  <2>2. Rest = Round + End + 128 - pos
    BY <2>1 DEF Rest
  <2>3. CASE Reject("InvalidData")
    <3>1. Rest' = 0
      BY <2>3 DEF Reject, Rest
    <3> QED BY <1>1, <1>4, <1>7, <2>1, <2>2, <2>3, <3>1 DEF Reject
  <2>4. CASE ~(pos' >= End) /\ pc' = "questions" /\ UNCHANGED out
    <3>1. Rest' = Round + End + 129 - (pos + 4)
      BY <1>2, <2>1, <2>4 DEF Rest
    <3>2. Rest' \in 0..(Rest - 1)
      BY <1>1, <2>1, <2>2, <2>4, <3>1
    <3> QED BY <1>1, <1>3, <1>4, <1>6, <2>1, <2>4, <3>2
  <2> QED BY <1>10, <2>3, <2>4 DEF Question
<1>11. CASE NameTurn
  <2>1. Cardinality(Errors) <= Retries
    BY <1>1, <1>4, <1>11 DEF NameTurn
  <2>2. CASE pc = "qname"
    <3>1. pos <= End + 127 /\ Rest = Round + End + 128 - pos
      BY <2>2 DEF Rest
    <3>2. CASE Reject("InvalidData")
      <4>1. Rest' = 0
        BY <3>2 DEF Reject, Rest
      <4> QED BY <1>1, <1>7, <2>1, <3>1, <3>2, <4>1 DEF Reject
    <3>3. CASE pc' \in {"qname", "question"} /\ pos' \in Nat /\ pos < pos' /\ pos' <= End + 128
               /\ UNCHANGED out
      <4>1. Rest' = Round + End + 128 - pos'
        BY <1>2, <3>3 DEF Rest
      <4>2. \A p \in Nat : pos < p /\ p <= End + 128 =>
              Round + End + 128 - p \in 0..((Round + End + 128 - pos) - 1)
        BY <1>1
      <4>3. Rest' \in 0..(Rest - 1)
        BY <3>1, <3>3, <4>1, <4>2
      <4> QED BY <1>1, <1>3, <1>6, <2>1, <3>3, <4>3
    <3> QED BY <1>1, <1>11, <2>2, <3>2, <3>3, NameAdvance DEF Bounds
  <2>3. CASE pc = "rname"
    <3>1. pos <= End + 127 /\ Rest = End + 130 - pos
      BY <2>3 DEF Rest
    <3>2. CASE NameError
      <4>1. Rest' = End + 132 - start
        BY <1>2, <1>11, <3>2 DEF NameTurn, NameError, Rest
      <4> QED BY <1>1, <1>7, <2>1, <3>1, <3>2, <4>1 DEF NameError, Round
    <3>3. CASE pc' \in {"rname", "named"} /\ pos' \in Nat /\ pos < pos' /\ pos' <= End + 128
               /\ UNCHANGED out
      <4>1. Rest' = End + 130 - pos'
        BY <1>2, <3>3 DEF Rest
      <4>2. \A p \in Nat : pos < p /\ p <= End + 128 =>
              End + 130 - p \in 0..((End + 130 - pos) - 1)
        BY <1>1
      <4>3. Rest' \in 0..(Rest - 1)
        BY <3>1, <3>3, <4>1, <4>2
      <4> QED BY <1>1, <1>3, <1>6, <2>1, <3>3, <4>3
    <3> QED BY <1>1, <1>11, <2>3, <3>2, <3>3, NameAdvance DEF Bounds
  <2> QED BY <1>11, <2>2, <2>3 DEF NameTurn
<1>12. CASE CallNext
  <2>1. Rest = End + 132 - start /\ Rest' = End + 131 - start
    BY <1>2, <1>12 DEF CallNext, parserVars, Rest
  <2> QED BY <1>1, <1>3, <1>6, <1>12, <2>1 DEF CallNext
<1>13. CASE Answers
  <2>1. Rest = End + 131 - start /\ (Rest' = 0 \/ Rest' = End + 130 - start)
    BY <1>2, <1>13 DEF Answers, Rest
  <2> QED BY <1>1, <1>3, <1>6, <1>13, <2>1 DEF Answers
<1>14. CASE SkipName
  <2>1. pos <= End
    BY <1>14 DEF SkipName, Bounds
  <2>2. Rest = End + 130 - pos /\ Rest' = End + 129 - pos
    BY <1>1, <1>2, <1>14, <2>1 DEF SkipName, Rest
  <2> QED BY <1>1, <1>3, <1>6, <1>14, <2>1, <2>2 DEF SkipName
<1>15. CASE ShortRecord
  <2>1. pos <= End
    BY <1>15 DEF ShortRecord, Bounds
  <2>2. Rest = End + 129 - pos /\ Rest' = End + 132 - start
    BY <1>2, <1>15 DEF ShortRecord, parserVars, Rest
  <2> QED BY <1>1, <1>7, <1>15, <2>1, <2>2 DEF ShortRecord, Round
<1>16. ASSUME pc = "record", ~Short, Consume
       PROVE  start' \in Nat /\ pos + 10 <= start' /\ start' <= End
  <2>1. End - pos >= 10
    BY <1>1, <1>16 DEF Short
  <2>2. U16(pos + 8) \in Nat
    BY <1>1, <2>1, U16At, Words DEF Bounds
  <2> QED BY <1>1, <1>16, <2>1, <2>2 DEF Short, Consume, DataSize
<1>17. CASE SkipRecord
  <2>1. Rest = End + 129 - pos /\ Rest' = End + 131 - start'
    BY <1>2, <1>17 DEF SkipRecord, Rest
  <2> QED BY <1>1, <1>3, <1>6, <1>16, <1>17, <2>1 DEF SkipRecord
<1>18. CASE AddressRecord
  <2>1. Rest = End + 129 - pos /\ Rest' = End + 132 - start'
    BY <1>2, <1>18 DEF AddressRecord, Rest
  <2>2. start' \in Nat /\ pos + 10 <= start' /\ start' <= End /\ Cardinality(Errors) <= Retries
    BY <1>16, <1>18 DEF AddressRecord
  <2>3. \A s \in Nat : pos + 10 <= s /\ s <= End =>
          End + 132 - s \in 0..((End + 129 - pos) - 1)
    BY <1>1
  <2>4. Rest' \in 0..(Rest - 1)
    BY <2>1, <2>2, <2>3
  <2> DEFINE item == [ok |-> TRUE, address |-> Bytes(pos + 10, DataSize), ttl |-> Bytes(pos + 4, 4)]
  <2>5. item.ok
    OBVIOUS
  <2> HIDE DEF item
  <2>6. CASE Return(item)
    BY <1>1, <1>6, <2>2, <2>4, <2>5, <2>6, ErrorsReturn
  <2>7. CASE Return(Error("InvalidData"))
    BY <1>1, <1>5, <1>7, <2>2, <2>4, <2>7
  <2> QED BY <1>18, <2>6, <2>7 DEF AddressRecord, item
<1> QED BY <1>8, <1>9, <1>10, <1>11, <1>12, <1>13, <1>14, <1>15, <1>17, <1>18 DEF Parse

\* The time it takes to read a reply is linear in its size: for every packet, however its
\* names and counts are chosen, and for every number of errors the caller puts up with.
THEOREM ReadingTakesLinearTime == Spec => ReadingIsLinear
<1>1. Bounds /\ ReadingInv /\ PaceInv /\ [Next]_vars => [Parse => Work' \in 0..(Work - 1)]_vars
  BY WorkStep
<1> QED BY <1>1, InitBounds, NextBounds, InitReading, NextReading, InitPace, NextPace, PTL
        DEF Spec, ReadingIsLinear
=============================================================================
