-------------------------------- MODULE Peek --------------------------------
(***************************************************************************)
(* peek_server_name (sni.rs): the long header, the opening of the packet,  *)
(* its CRYPTO frames (CryptoFrames) and the walk through the ClientHello   *)
(* they hold; and is_quic_initial (knock.rs), which looks at the same      *)
(* header for the other question handle_datagram asks of a datagram.       *)
(*                                                                         *)
(* A ClientHello is a sequence of cells.  A number of one or more bytes is *)
(* one cell, and so is a character of a name; a length counts cells.       *)
(***************************************************************************)
EXTENDS CryptoFrames, SequencesExt

CONSTANTS
    None,
    Clients,            \* the ClientHellos: [session_id, cipher_suites, compression,
                        \*                    exts, damage]
    Datagrams,          \* the headers: [first, version, cid, fits, offset, length, size]
    MAX_SERVER_NAME,
    NotUtf8             \* a cell that is not a character

ServerName == [kind : Nat, name : Seq(Nat)]

\* An extension holds a list of names or is not looked into.
Extension ==
    [kind : {0}, names : Seq(ServerName)] \cup [kind : Nat \ {0}, body : Seq(Nat)]

ASSUME HellosAssumption ==
    \A c \in Clients :
        /\ {c.session_id, c.cipher_suites, c.compression} \subseteq Seq(Nat)
        /\ c.exts \in Seq(Extension)
        /\ c.damage = None \/ c.damage \in Nat \X Nat

VARIABLES
    client,     \* who sent it
    hello,      \* the ClientHello on the wire
    datagram,   \* the header of its datagram
    pos, limit, \* Reader: the next cell, and the last one it may take
    outer,      \* where the vectors around the reader's end, as their lengths say
    name        \* the result

reader == <<pos, limit, outer>>
frames == <<at, count, pieces, crypto, seen>>
sent == <<client, hello, datagram>>
peekVars == <<frames, sent, reader, name>>

V1 == 1
V2 == 2
SAMPLE == 16
TAG == 16
MAX_CID == 20
MIN_INITIAL == 1200

-----------------------------------------------------------------------------
(* The client *)

Vector(s) == <<Len(s)>> \o s

EncodeName(n) == <<n.kind>> \o Vector(n.name)

EncodeExtension(e) ==
    <<e.kind>> \o Vector(
        IF e.kind = 0
        THEN Vector(FlattenSeq([i \in DOMAIN e.names |-> EncodeName(e.names[i])]))
        ELSE e.body)

\* Type, body: version and random, three vectors, the extensions.
EncodeHello(c) ==
    <<1>> \o Vector(
        <<0>> \o Vector(c.session_id) \o Vector(c.cipher_suites) \o Vector(c.compression)
        \o Vector(FlattenSeq([i \in DOMAIN c.exts |-> EncodeExtension(c.exts[i])])))

\* A damaged ClientHello has one cell changed.
Hello(c) ==
    IF c.damage = None THEN EncodeHello(c)
    ELSE [EncodeHello(c) EXCEPT ![c.damage[1]] = c.damage[2]]

PeekInit ==
    /\ client \in Clients /\ hello = Hello(client) /\ datagram \in Datagrams
    /\ at = "header" /\ count = 0 /\ pieces = {} /\ crypto = <<>> /\ seen = {}
    /\ pos = 0 /\ limit = 0 /\ outer = {} /\ name = None

-----------------------------------------------------------------------------
(* The header.  first holds the upper four bits of the first byte.          *)

\* Faulty variant: Initial is packet type 0 in every version.
SameTypeInAll(d) == 0

initial_type(d) == IF d.version = V1 THEN 0 ELSE 1

LongHeaderOk(d) ==
    /\ d.first.long /\ d.first.fixed
    /\ d.version \in {V1, V2} /\ d.first.type = initial_type(d)
    /\ d.cid <= MAX_CID /\ d.fits
    /\ d.length >= SAMPLE + TAG /\ d.size >= d.offset + d.length

parse_long_header ==
    /\ at = "header"
    /\ at' = IF LongHeaderOk(datagram) THEN "open" ELSE "none"
    /\ UNCHANGED <<count, pieces, crypto, seen, sent, reader, name>>

\* The calls of Keys::initial and open: the packet authenticates and the walk begins,
\* or peek_server_name returns.  What the two compute is not modelled.
open ==
    /\ at = "open"
    /\ at' \in {"walk", "none"}
    /\ UNCHANGED <<count, pieces, crypto, seen, sent, reader, name>>

is_quic_initial(d) ==
    /\ d.size >= MIN_INITIAL
    /\ d.first.long /\ d.first.fixed
    /\ <<d.version, d.first.type>> \in {<<V1, 0>>, <<V2, 1>>}

-----------------------------------------------------------------------------
(* client_hello_server_name *)

Cell(i) == hello[crypto[i] + 1]

\* Reader: a length and that many cells can be taken at p.
CanTake(p, lim) == p <= lim /\ p + Cell(p) <= lim

\* Where the vector at p ends; past everything if it cannot be taken.
After(p, lim) == IF CanTake(p, lim) THEN p + 1 + Cell(p) ELSE lim + 2

Ends == at' = "none" /\ UNCHANGED <<reader, name>>

\* What follows the cells up to p: a vector, which becomes the reader's.
Enter(p, lim, around, next) ==
    IF CanTake(p, lim)
    THEN /\ pos' = p + 1 /\ limit' = p + Cell(p) /\ outer' = around
         /\ at' = next /\ UNCHANGED name
    ELSE Ends

HelloHeader ==
    /\ at = "some"
    /\ LET body == After(2, Len(crypto)) - 1
           session_id == 4
           cipher_suites == After(session_id, body)
           compression == After(cipher_suites, body)
           extensions == After(compression, body)
       IN IF Cell(1) = 1 /\ body <= Len(crypto)
          THEN Enter(extensions, body, {body}, "extensions") ELSE Ends
    /\ UNCHANGED <<count, pieces, crypto, seen, sent>>

\* Faulty variant: the list of names is taken from the reader of the extensions.
ToTheLimit(p, lim) == lim

\* The list is taken from the body of its extension, the vector at p.
BodyEnd(p, lim) == p + Cell(p)

\* One turn of the loop over the extensions; the first server_name is entered.
NextExtension ==
    /\ at = "extensions"
    /\ IF CanTake(pos + 1, limit)
       THEN IF Cell(pos) = 0
            THEN Enter(pos + 2, BodyEnd(pos + 1, limit),
                       outer \cup {limit, pos + 1 + Cell(pos + 1)}, "names")
            ELSE pos' = After(pos + 1, limit) /\ UNCHANGED <<at, limit, outer, name>>
       ELSE Ends
    /\ UNCHANGED <<count, pieces, crypto, seen, sent>>

\* Faulty variant: the first entry is taken whatever its kind.
FirstEntry(kind, len) == len \in 1..MAX_SERVER_NAME

Usable(kind, len) == kind = 0 /\ len \in 1..MAX_SERVER_NAME

from_utf8(s) == IF NotUtf8 \in ToSet(s) THEN None ELSE s

\* One turn of the loop over the ServerNameList.
NextName ==
    /\ at = "names"
    /\ IF CanTake(pos + 1, limit)
       THEN IF Usable(Cell(pos), Cell(pos + 1))
            THEN /\ name' = from_utf8([i \in 1..Cell(pos + 1) |-> Cell(pos + 1 + i)])
                 /\ at' = IF name' = None THEN "none" ELSE "named"
                 /\ UNCHANGED reader
            ELSE pos' = After(pos + 1, limit) /\ UNCHANGED <<at, limit, outer, name>>
       ELSE Ends
    /\ UNCHANGED <<count, pieces, crypto, seen, sent>>

-----------------------------------------------------------------------------
\* reassemble_crypto; the client cuts its frames from its ClientHello.
Reassemble ==
    /\ \/ \E f \in Cuts : /\ f.offset + f.len <= Len(hello)
                          /\ ReadCrypto(f.offset, f.len)
       \/ SkipFrame \/ Truncated \/ EndWalk
       \/ \E p \in pieces : Join(p)
       \/ Finish
    /\ UNCHANGED <<sent, reader, name>>

Returned == at \in {"named", "none", "cut"} /\ UNCHANGED peekVars

PeekNext ==
    \/ parse_long_header \/ open \/ Reassemble
    \/ HelloHeader \/ NextExtension \/ NextName
    \/ Returned

PeekSpec == PeekInit /\ [][PeekNext]_peekVars

-----------------------------------------------------------------------------
(* What the client offered *)

\* The first usable name of the first server_name extension.
Offered ==
    LET lists == {i \in DOMAIN client.exts : client.exts[i].kind = 0}
        names == client.exts[Min(lists)].names
        hosts == {i \in DOMAIN names : /\ names[i].kind = 0
                                       /\ Len(names[i].name) \in 1..MAX_SERVER_NAME}
        first == names[Min(hosts)].name
    IN IF lists = {} \/ hosts = {} \/ NotUtf8 \in ToSet(first) THEN None ELSE first

InHand ==
    \A i \in 0..(Len(hello) - 1) :
        \E p \in seen : p.offset <= i /\ i < p.offset + p.len

\* The peek returns the name the client offered exactly if the packet's frames
\* hold the whole ClientHello between them, in whatever order and overlap; from a
\* part of it no name is read, not even if the name is in that part.
PeekExact ==
    at \in {"named", "none"} /\ client.damage = None =>
        name = IF InHand THEN Offered ELSE None

\* Whatever lengths a ClientHello claims, a reader stays inside its vector, that vector
\* inside each one around it (a list of names inside its extension, the extensions
\* inside the body), and all of them inside what was joined.
StaysInside ==
    at \in {"extensions", "names", "named"} =>
        /\ pos <= limit + 1 /\ limit <= Len(crypto)
        /\ \A end \in outer : limit <= end /\ end <= Len(crypto)

\* A full-sized datagram that names a server is also taken for a knock, so it can
\* wake the backend it names: the two header checks agree.
NamedIsKnock ==
    name # None /\ datagram.size >= MIN_INITIAL => is_quic_initial(datagram)
=============================================================================
