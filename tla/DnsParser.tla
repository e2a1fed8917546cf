----------------------------- MODULE DnsParser -----------------------------
(***************************************************************************)
(* The packets of src/dns.rs, byte by byte: the query that is built in the *)
(* caller's buffer, the reply that recv_from() leaves there, its parsing,  *)
(* and the Records iterator over it.  Positions count from the start of    *)
(* the buffer; a slice of it that starts outside panics.                   *)
(***************************************************************************)
EXTENDS Integers, FiniteSets, SequencesExt

CONSTANTS
    Names,       \* names to query: sequences of labels, some of them empty
    QueryType,   \* AddressFamily::as_type(): the type that is asked for
    Sizes,       \* sizes of the caller's buffer
    Replies(_),  \* what a server may answer to a query packet
    Retries      \* so many errors do not keep the caller from calling next() again

VARIABLES
    pc,          \* what query() or next() does next
    query,       \* the packet that was sent
    size,        \* the size of the caller's buffer
    datagram,    \* the reply on the wire
    buffer,      \* the part of it that recv_from() stored
    pos,         \* where the parser reads
    questions,   \* questions yet to skip
    start,       \* Records::buffer begins here
    answer_count,
    out          \* what query() and next() returned

parserVars == <<pos, questions, start, answer_count>>
vars == <<pc, query, size, datagram, buffer, pos, questions, start, answer_count, out>>

Byte == 0..255
Word == {n \in Nat : n < 65536}   \* u16
C_IN == 1
Width(rr_type) == CASE rr_type = 1 -> 4 [] rr_type = 28 -> 16   \* TYPE_A, TYPE_AAAA
BE16(n) == <<n \div 256, n % 256>>

-----------------------------------------------------------------------------
\* make_query_packet()

\* An empty label is passed over.
EncodedLabels(name) ==
    [i \in DOMAIN name |-> IF name[i] = <<>> THEN <<>> ELSE <<Len(name[i])>> \o name[i]]

EncodedName(name) == FlattenSeq(EncodedLabels(name)) \o <<0>>

QueryPacket(name, query_type) ==
    <<0, 0, 1, 32, 0, 1, 0, 0, 0, 0, 0, 0>>
      \o EncodedName(name) \o BE16(query_type) \o BE16(C_IN)

ASSUME NamesAssumption == Names \subseteq Seq(Seq(Byte))
ASSUME QueryTypeAssumption == QueryType \in {1, 28}
ASSUME SizesAssumption == Sizes \subseteq Nat
ASSUME RetriesAssumption == Retries \in Nat
ASSUME RepliesAssumption ==
    \A name \in Names : Replies(QueryPacket(name, QueryType)) \subseteq Seq(Byte)

Init ==
    /\ pc = "build"
    /\ query = <<>> /\ datagram = <<>> /\ buffer = <<>> /\ out = <<>>
    /\ size \in Sizes
    /\ pos = 0 /\ questions = 0 /\ start = 0 /\ answer_count = 0

\* A label that is too long fails an assertion, a packet that is too long does
\* not fit the slices of the buffer.
Build(name) ==
    /\ pc = "build"
    /\ query' = QueryPacket(name, QueryType)
    /\ pc' = IF (\E i \in DOMAIN name : Len(name[i]) >= 128) \/ Len(query') > size
             THEN "unbuilt" ELSE "sent"
    /\ UNCHANGED <<size, datagram, buffer, parserVars, out>>

\* A query() that takes the size of the datagram for the size received.
Receive_uncut(d) ==
    /\ pc = "sent"
    /\ datagram' = d
    /\ buffer' = d
    /\ pc' = "header"
    /\ UNCHANGED <<query, size, parserVars, out>>

\* What does not fit is cut off.
Receive(d) ==
    /\ pc = "sent"
    /\ datagram' = d
    /\ buffer' = SubSeq(d, 1, IF Len(d) < size THEN Len(d) ELSE size)
    /\ pc' = "header"
    /\ UNCHANGED <<query, size, parserVars, out>>

-----------------------------------------------------------------------------
At(p)  == buffer[p + 1]
U16(p) == 256 * At(p) + At(p + 1)
Bytes(p, n) == SubSeq(buffer, p + 1, p + n)
End    == Len(buffer)

Error(kind) == [ok |-> FALSE, error |-> kind]
\* query() and next() return a value; after an error of query() there is nothing
\* to iterate over.
Return(item) == out' = Append(out, item)
Errors == {i \in DOMAIN out : ~out[i].ok}
Reject(kind) == Return(Error(kind)) /\ pc' = "rejected"

\* parse_response_packet()

Verdict ==
    IF End < 12 \/ At(2) < 128 THEN "InvalidData"
    ELSE IF At(3) % 16 = 3 \/ U16(6) = 0 THEN "NotFound"
    ELSE IF At(3) % 16 # 0 THEN "Other" ELSE "Ok"

Header ==
    /\ pc = "header"
    /\ \/ /\ Verdict # "Ok"
          /\ Reject(Verdict)
          /\ UNCHANGED parserVars
       \/ /\ Verdict = "Ok"
          /\ pos' = 12
          /\ questions' = U16(4)
          /\ answer_count' = U16(6)
          /\ pc' = "questions"
          /\ UNCHANGED <<start, out>>
    /\ UNCHANGED <<query, size, datagram, buffer>>

\* The head of the loop over the questions, and what follows it: &buffer[pos..]
\* panics when pos is outside.
Questions ==
    /\ pc = "questions"
    /\ pc' = IF pos > End THEN "panicked" ELSE IF questions > 0 THEN "qname" ELSE "caller"
    /\ start' = IF pc' = "caller" THEN pos ELSE start
    /\ UNCHANGED <<query, size, datagram, buffer, pos, questions, answer_count, out>>

Question ==
    /\ pc = "question"
    /\ pos' = pos + 4
    /\ IF pos' >= End
       THEN Reject("InvalidData") /\ UNCHANGED questions
       ELSE questions' = questions - 1 /\ pc' = "questions" /\ UNCHANGED out
    /\ UNCHANGED <<query, size, datagram, buffer, start, answer_count>>

\* name_size(): one turn of its loop, for the name of a question or of a record.

\* A name_size() that takes the second byte of a pointer for granted.
PointerFits_unchecked(p) == p + 1 <= End

PointerFits(p) == p + 2 <= End

NameEnds(p) == At(p) = 0 \/ (At(p) >= 128 /\ PointerFits(p))

\* A next() that goes on with the next answer after a bad name.
NameError_continue == pc' = "answers" /\ UNCHANGED out

\* next() returns the error and has consumed nothing.
NameError == pc' = "caller" /\ Return(Error("InvalidData"))

NameTurn ==
    /\ pc \in {"qname", "rname"}
    /\ \/ /\ pos < End /\ NameEnds(pos)
          /\ pos' = pos + (IF At(pos) = 0 THEN 1 ELSE 2)
          /\ pc' = IF pc = "qname" THEN "question" ELSE "named"
          /\ UNCHANGED out
       \/ /\ pos < End /\ At(pos) \in 1..127
          /\ pos' = pos + 1 + At(pos)
          /\ UNCHANGED <<pc, out>>
       \/ /\ ~(pos < End /\ (At(pos) < 128 \/ PointerFits(pos)))
          /\ IF pc = "qname" THEN Reject("InvalidData") ELSE NameError
          /\ UNCHANGED pos
    /\ UNCHANGED <<query, size, datagram, buffer, questions, start, answer_count>>

-----------------------------------------------------------------------------
\* Records::next()

\* A caller that uses ? stops at the first error: Retries is 0.
CallNext ==
    /\ pc = "caller"
    /\ Cardinality(Errors) <= Retries
    /\ pc' = "answers"
    /\ UNCHANGED <<query, size, datagram, buffer, parserVars, out>>

\* The head of its loop; the iteration is over when it returns None.
Answers ==
    /\ pc = "answers"
    /\ IF answer_count = 0
       THEN pc' = "closed" /\ UNCHANGED pos
       ELSE pc' = "rname" /\ pos' = start
    /\ UNCHANGED <<query, size, datagram, buffer, questions, start, answer_count, out>>

\* &self.buffer[name_size..], as above
SkipName ==
    /\ pc = "named"
    /\ pc' = IF pos > End THEN "panicked" ELSE "record"
    /\ start' = IF pos > End THEN start ELSE pos
    /\ UNCHANGED <<query, size, datagram, buffer, pos, questions, answer_count, out>>

DataSize == U16(pos + 8)

\* The fixed part or the data of the record is not all there.  The name has been
\* consumed, and the answer is not counted.
Short == End - pos < 10 \/ (End - pos >= 10 /\ End - pos < 10 + DataSize)

ShortRecord ==
    /\ pc = "record"
    /\ Short
    /\ Return(Error("InvalidData"))
    /\ pc' = "caller"
    /\ UNCHANGED <<query, size, datagram, buffer, parserVars>>

\* A next() that forgets to count the answer.
Consume_uncounted ==
    /\ start' = pos + 10 + DataSize
    /\ answer_count' = answer_count

\* buffer and answer_count after a record that is all there
Consume ==
    /\ start' = pos + 10 + DataSize
    /\ answer_count' = answer_count - 1

Skipped == U16(pos + 2) # C_IN \/ U16(pos) \notin {1, 28}

SkipRecord ==
    /\ pc = "record"
    /\ ~Short /\ Skipped
    /\ Consume
    /\ pc' = "answers"
    /\ UNCHANGED <<query, size, datagram, buffer, pos, questions, out>>

AddressRecord ==
    /\ pc = "record"
    /\ ~Short /\ ~Skipped
    /\ Consume
    /\ Return(IF DataSize = Width(U16(pos))
              THEN [ok |-> TRUE, address |-> Bytes(pos + 10, DataSize), ttl |-> Bytes(pos + 4, 4)]
              ELSE Error("InvalidData"))
    /\ pc' = "caller"
    /\ UNCHANGED <<query, size, datagram, buffer, pos, questions>>

Finished ==
    \/ pc \in {"unbuilt", "rejected", "panicked", "closed"}
    \/ pc = "caller" /\ Cardinality(Errors) > Retries

Parse ==
    \/ Header \/ Questions \/ NameTurn \/ Question
    \/ CallNext \/ Answers \/ SkipName \/ ShortRecord \/ SkipRecord \/ AddressRecord

Next ==
    \/ \E name \in Names : Build(name)
    \/ pc = "sent" /\ \E d \in Replies(query) : Receive(d)
    \/ Parse
    \/ Finished /\ UNCHANGED vars

Spec == Init /\ [][Next]_vars
FairSpec == Spec /\ WF_vars(Parse)
-----------------------------------------------------------------------------
TypeOK ==
    /\ pc \in {"build", "unbuilt", "sent", "header", "questions", "qname", "question", "caller",
               "answers", "rname", "named", "record", "closed", "rejected", "panicked"}
    /\ buffer \in Seq(Byte) /\ End <= size
    /\ pos \in Nat /\ start \in 0..End
    /\ questions \in Word /\ answer_count \in Word
    /\ \A i \in DOMAIN out :
         out[i].ok => Len(out[i].ttl) = 4 /\ Len(out[i].address) \in {4, 16}

\* No packet makes the parser or the iterator slice outside the buffer: what
\* name_size() returns is inside it, for names that end in a label's length, in a
\* pointer's first byte, or beyond the end.
NoPanic == pc # "panicked"

\* The answers with addresses of n bytes that next() has returned.
Yields(n) == {i \in DOMAIN out : out[i].ok /\ Len(out[i].address) = n}

\* However often the caller goes on after an error, next() returns no more
\* addresses than the header announced, each from bytes of its own: a name, the
\* fixed part and the data of a record, 11 bytes and the address at least.
YieldsAreDeclared ==
    LET count(n) == Cardinality(Yields(n))
    IN  count(4) + count(16) > 0 =>
          /\ count(4) + count(16) + answer_count <= U16(6)
          /\ 12 + 15 * count(4) + 27 * count(16) <= start

\* What is left to do between the arrival of a datagram and the end of its reading.
Left == Retries + 1 - Cardinality(Errors)   \* errors until the caller gives up
Round == End + 133                          \* no call of next() takes as many steps
Rest ==
    CASE pc = "header"                -> 2 * Round
      [] pc = "questions"             -> Round + End + 129 - pos
      [] pc \in {"qname", "question"} -> Round + End + 128 - pos
      [] pc = "caller"                -> End + 132 - start
      [] pc = "answers"               -> End + 131 - start
      [] pc \in {"rname", "named"}    -> End + 130 - pos
      [] pc = "record"                -> End + 129 - pos
      [] OTHER                        -> 0
Work == Left * Round + Rest

\* Each turn of a loop gets somewhere: there is a bound on the steps that are left, and
\* every step brings it down.  No label, question or record is free, and an error of
\* next() brings the caller closer to giving up, so what is read again because of it is
\* not read for ever: from the datagram's arrival it takes (Retries + 3) * Round steps at
\* most, whatever is in it.
ReadingIsLinear == [][Parse => Work' \in 0..(Work - 1)]_vars

\* The loop of a caller that stops at the first error ends, whatever arrived.
ReadingEnds == pc = "header" ~> Finished

\* "This should not panic when there's not enough space in the buffer."
BuildsOrFails == pc # "unbuilt"
=============================================================================
