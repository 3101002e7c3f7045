---------------------------- MODULE CryptoFrames ----------------------------
(***************************************************************************)
(* reassemble_crypto (sni.rs): the walk over the frames of one Initial and *)
(* the joining of its CRYPTO frames into the start of a ClientHello.       *)
(*                                                                         *)
(* The frames are cut from one handshake stream, as a client's are, so a   *)
(* byte is known by its position in the stream.                            *)
(***************************************************************************)
EXTENDS Integers, Sequences

CONSTANTS
    Cuts,           \* CRYPTO frames a packet may hold: offsets and lengths
    MaxFrames       \* bound: CRYPTO frames of a packet

ASSUME FramesAssumption ==
    Cuts \subseteq [offset : Nat, len : Nat] /\ MaxFrames \in Nat

VARIABLES
    at,         \* walk, join, or the result: some, none (nothing joined) or cut
    count,      \* CRYPTO frames read so far
    pieces,     \* those not joined yet
    crypto,     \* what has been joined: stream positions
    seen        \* history: every CRYPTO frame read

vars == <<at, count, pieces, crypto, seen>>

Frame == [nth : 1..MaxFrames, offset : Nat, len : Nat]

Init == at = "walk" /\ count = 0 /\ pieces = {} /\ crypto = <<>> /\ seen = {}

-----------------------------------------------------------------------------
(* The walk *)

ReadCrypto(offset, len) ==
    /\ at = "walk" /\ count < MaxFrames
    /\ count' = count + 1
    /\ LET piece == [nth |-> count', offset |-> offset, len |-> len] IN
        pieces' = pieces \cup {piece} /\ seen' = seen \cup {piece}
    /\ UNCHANGED <<at, crypto>>

\* PADDING, PING and ACK are stepped over.
SkipFrame == at = "walk" /\ UNCHANGED vars

\* A field or a frame runs past the payload: nothing is returned.
Truncated ==
    /\ at = "walk"
    /\ at' = "cut"
    /\ UNCHANGED <<count, pieces, crypto, seen>>

\* The payload is used up, or a frame that is not understood ends the walk.
EndWalk ==
    /\ at = "walk"
    /\ at' = "join"
    /\ UNCHANGED <<count, pieces, crypto, seen>>

-----------------------------------------------------------------------------
(* Joining *)

\* Faulty variant: the frames are joined as they came.
AsTheyCame(p, q) == p.nth < q.nth

\* The order of sort_by_key, which is stable.
Before(p, q) == p.offset < q.offset \/ (p.offset = q.offset /\ p.nth < q.nth)

Foremost(p) == p \in pieces /\ \A q \in pieces \ {p} : Before(p, q)

Data(p) == [i \in 1..p.len |-> p.offset + i - 1]

\* Faulty variant: an overlapping frame is appended whole.
Whole(p) == Data(p)

\* The part of a frame that is not in hand yet.
Fresh(p) ==
    LET skip == Len(crypto) - p.offset IN
        IF skip <= p.len THEN SubSeq(Data(p), skip + 1, p.len) ELSE <<>>

Join(p) ==
    /\ at = "join" /\ Foremost(p) /\ p.offset <= Len(crypto)
    /\ crypto' = crypto \o Fresh(p)
    /\ pieces' = pieces \ {p}
    /\ UNCHANGED <<at, count, seen>>

\* At a hole, or with nothing left to join.
Finish ==
    /\ at = "join"
    /\ pieces = {} \/ \E p \in pieces : Foremost(p) /\ p.offset > Len(crypto)
    /\ at' = IF crypto = <<>> THEN "none" ELSE "some"
    /\ UNCHANGED <<count, pieces, crypto, seen>>

Done == at \in {"some", "none", "cut"} /\ UNCHANGED vars

Next ==
    \/ \E f \in Cuts : ReadCrypto(f.offset, f.len)
    \/ SkipFrame \/ Truncated \/ EndWalk
    \/ \E p \in pieces : Join(p)
    \/ Finish \/ Done

Spec == Init /\ [][Next]_vars

-----------------------------------------------------------------------------
\* However the frames overlap, repeat or are ordered, every byte that is joined
\* stands at its own position of the stream.
InPlace == \A i \in 1..Len(crypto) : crypto[i] = i - 1

\* A result stops only where the packet itself has a hole: no frame of it holds
\* the next byte.
NothingMissed ==
    at \in {"some", "none"} =>
        \A p \in seen : ~(p.offset <= Len(crypto) /\ Len(crypto) < p.offset + p.len)
=============================================================================
