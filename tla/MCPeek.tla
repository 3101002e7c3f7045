------------------------------- MODULE MCPeek -------------------------------
(* Peek with a handful of ClientHellos, each cut into up to three frames. *)
EXTENDS Peek

Other == [kind |-> 16, body |-> <<7>>]
Sni(names) == [kind |-> 0, names |-> names]
Entry(k, n) == [kind |-> k, name |-> n]

\* A ClientHello with a session id only, and one with the other two vectors.
Short(exts, d) ==
    [session_id |-> <<7>>, cipher_suites |-> <<>>, compression |-> <<>>,
     exts |-> exts, damage |-> d]
Long(exts, d) ==
    [session_id |-> <<>>, cipher_suites |-> <<5, 6>>, compression |-> <<0>>,
     exts |-> exts, damage |-> d]

Plain == <<Sni(<<Entry(0, <<3>>)>>)>>

\* The damaged cell of Short(Plain): 1 is the type, 2 the length of the body, 4 of the
\* session id, 8 of the extensions, 10 of the extension, 11 of its list, 13 of the
\* name; of Long(Plain): 5 is the length of the cipher suites, 8 of the compression.
SomeClients ==
    {Short(Plain, None), Long(Plain, None),
     Long(<<Other, Sni(<<Entry(1, <<4>>), Entry(0, <<3>>)>>)>>, None),
     Short(<<Other>>, None),
     Short(<<Sni(<<Entry(0, <<3, 4, 5>>), Entry(0, <<4, 5>>)>>)>>, None),
     Short(<<Sni(<<Entry(0, <<NotUtf8>>)>>), Other>>, None),
     Short(<<Sni(<<Entry(0, <<>>)>>), Sni(<<Entry(0, <<4>>)>>)>>, None)}
    \cup {Short(Plain, d) : d \in {<<1, 2>>, <<2, 7>>, <<4, 9>>, <<8, 7>>, <<10, 7>>,
                                    <<11, 7>>, <<13, 0>>, <<13, 7>>}}
    \cup {Long(Plain, d) : d \in {<<5, 9>>, <<8, 0>>}}
    \cup {Short(Plain \o <<Other>>, <<11, 5>>)}

FrameEnds == {6, 12} \cup {Len(Hello(c)) : c \in SomeClients}

SomeCuts ==
    {[offset |-> a, len |-> b - a] : a \in {0, 6, 12}, b \in FrameEnds}
        \cap [offset : Nat, len : Nat]

SomeDatagrams ==
    [first : [long : BOOLEAN, fixed : BOOLEAN, type : 0..3], version : 1..3,
     cid : {8, 21}, fits : BOOLEAN, offset : {28}, length : {31, 32}, size : {59, 60, 1200}]
=============================================================================
