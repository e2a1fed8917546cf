----------------------------- MODULE MCDnsReply -----------------------------
(***************************************************************************)
(* Instances of DnsReply for TLC.                                          *)
(***************************************************************************)
EXTENDS DnsReply

\* "a.bc", and with empty labels: "a..bc."
QueryNames == {<< <<97>>, <<98, 99>> >>, << <<97>>, <<>>, <<98, 99>>, <<>> >>}

\* A name as the root, as labels, as a pointer to the question, as both.
Root == <<0>>
Plain == <<1, 97, 2, 98, 99, 0>>
Pointer == <<192, 12>>
Mixed == <<1, 99, 192, 14>>

Rec(name, t, c, data) ==
    [name |-> name, rr_type |-> t, class |-> c, ttl |-> <<0, 0, 1, 44>>, data |-> data]
V6 == [i \in 1..16 |-> i]
Records == {Rec(Pointer, 1, 1, <<10, 0, 0, 1>>), Rec(Mixed, 28, 1, V6),
            Rec(Plain, 5, 1, Pointer), Rec(Root, 1, 3, <<10, 0, 0, 9>>)}
Extras == {<<>>, << Rec(Root, 1, 1, <<10, 0, 0, 2>>) >>}

Message(rcode, copies, answers, extra) ==
    [rcode |-> rcode, copies |-> copies, answers |-> answers, extra |-> extra]
SomeMessages ==
    {Message(0, 1, answers, extra) : answers \in SeqOf(Records, 2), extra \in Extras}
      \cup {Message(rcode, copies, << r >>, <<>>) :
              rcode \in {0, 2, 3}, copies \in 0..2, r \in Records}

ServerReplies(q) == {Encode(q, m) : m \in SomeMessages}

-----------------------------------------------------------------------------
\* Packets put together from pieces, most of them malformed.

Pieces == {<<0>>, <<1, 97>>, <<127>>, <<192>>,
           <<0, 0, 1, 0, 1, 0, 0, 0, 7, 0, 4, 10, 0, 0, 1>>, <<0, 1, 0, 1, 0, 0, 0, 7, 0, 3>>,
           <<0, 28, 0, 1, 0, 0, 0, 7, 0, 0>>, <<0, 1, 0, 2, 0, 0, 0, 7, 0, 4>>}

SomePackets(q) ==
    {<<0, 0, 129, 128, 0, qs, 0, 2, 0, 0, 0, 0>> \o FlattenSeq(pieces) :
        qs \in {0, 1}, pieces \in SeqOf(Pieces, 3)}
      \cup {SubSeq(<<0, 0, 1, 128, 0, 0, 0, 1, 0, 0, 0, 0>>, 1, n) : n \in {0, 5, 12}}

AnyReplies(q) == ServerReplies(q) \cup SomePackets(q)

ReplySizes == 21..60
=============================================================================
