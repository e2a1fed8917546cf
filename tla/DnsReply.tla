------------------------------ MODULE DnsReply ------------------------------
(***************************************************************************)
(* DnsParser against a server that answers with well-formed packets, of    *)
(* which recv_from() stores what fits in the caller's buffer.              *)
(***************************************************************************)
EXTENDS DnsParser

CONSTANT Messages   \* the answers of the server; see Encode and Promised

\* Where the parts of a name may begin: its labels, and the zero or the pointer at
\* its end.  A name is well formed if there are such places.
Heads(name) ==
    {H \in SUBSET (0..(Len(name) - 1)) :
       0 \in H /\ \A h \in H :
                    \/ name[h + 1] \in 1..127 /\ h + 1 + name[h + 1] \in H
                    \/ name[h + 1] = 0 /\ Len(name) = h + 1
                    \/ name[h + 1] >= 128 /\ Len(name) = h + 2}

IsAddress(r) == r.class = 1 /\ r.rr_type \in {1, 28}

\* A resource record: a name, in whatever form, and the fields after it.
ResourceRecord ==
    {r \in [name : {n \in Seq(Byte) : Heads(n) # {}}, rr_type : Word, class : Word,
            ttl : {t \in Seq(Byte) : Len(t) = 4}, data : {d \in Seq(Byte) : Len(d) \in Word}] :
       IsAddress(r) => Len(r.data) = Width(r.rr_type)}
Section == {s \in Seq(ResourceRecord) : Len(s) \in Word}

ASSUME MessagesAssumption ==
    Messages \subseteq [rcode : 0..15, copies : Word, answers : Section, extra : Section]

EncodedRecord(r) ==
    r.name \o BE16(r.rr_type) \o BE16(r.class) \o r.ttl \o BE16(Len(r.data)) \o r.data

EncodedSection(section) == [i \in DOMAIN section |-> EncodedRecord(section[i])]

\* The question comes back m.copies times, usually once; m.extra are the records
\* of the authority and additional sections.
EncodedQuestions(q, m) == [i \in 1..m.copies |-> SubSeq(q, 13, Len(q))]

Encode(q, m) ==
    <<0, 0, 129, 128 + m.rcode>>
      \o BE16(m.copies) \o BE16(Len(m.answers)) \o BE16(0) \o BE16(Len(m.extra))
      \o FlattenSeq(EncodedQuestions(q, m))
      \o FlattenSeq(EncodedSection(m.answers)) \o FlattenSeq(EncodedSection(m.extra))

\* What an answer yields.
AddressOf(r) ==
    IF IsAddress(r) THEN << [ok |-> TRUE, address |-> r.data, ttl |-> r.ttl] >> ELSE <<>>

Yielded(section) == [i \in DOMAIN section |-> AddressOf(section[i])]

Promised(m) ==
    IF m.rcode = 3 \/ m.answers = <<>> THEN <<Error("NotFound")>>
    ELSE IF m.rcode # 0 THEN <<Error("Other")>>
    ELSE FlattenSeq(Yielded(m.answers))

\* The caller of query() gets the addresses of the answer section in their order
\* and nothing else, for every question the crate itself has built, every way of
\* writing a name, and records of other types and classes in between.  Where the
\* buffer cut the packet, it gets a part of them followed by an error: addresses
\* never go missing without one.
ReadsWhatWasSent ==
    Finished /\ pc # "unbuilt" =>
        \A m \in Messages : datagram = Encode(query, m) =>
            \/ out = Promised(m)
            \/ /\ Len(datagram) > size
               /\ \E i \in Errors : IsPrefix(SubSeq(out, 1, i - 1), Promised(m))
=============================================================================
