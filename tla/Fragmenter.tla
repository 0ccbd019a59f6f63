----------------------------- MODULE Fragmenter -----------------------------
(***************************************************************************)
(* The sending half of the abstract fragmentation protocol (AFP): an       *)
(* object of class NoFECFragmenter or FECFragmenter                        *)
(* (include/mw/afp/frag) as a record, its methods as operators.            *)
(*                                                                         *)
(* A fragment is a basic header, the extension headers and the payload.    *)
(* Fragments count down to 0; the basic header takes one byte for the last *)
(* 32 fragments, two for those before up to 32 * 128, three for the rest:  *)
(* the longer the header, the shorter the payload.  Lengths are numbers,   *)
(* the payload is the part of the event it stands for.                     *)
(***************************************************************************)
EXTENDS Integers

CONSTANTS ShortFseqs,  \* fragments that a basic header of one byte can number: 32
          Growth       \* factor per byte more: 128

ASSUME HeaderAssumption == ShortFseqs \in Nat \ {0} /\ Growth \in Nat \ {0, 1}

DivRoundUp(a, b) == (a + b - 1) \div b

\* Fragments an event may have with basic headers of at most h bytes.
MaxFragments(h) == CASE h = 0 -> 0
                     [] h = 1 -> ShortFseqs
                     [] h = 2 -> ShortFseqs * Growth
                     [] OTHER -> ShortFseqs * Growth * Growth

\* Length of the extension headers: event sequence number, FEC.
SeqHeader == 5
FECHeader == 8
ExtHeader(eseq, fec) == (IF eseq THEN SeqHeader ELSE 0) + (IF fec THEN FECHeader ELSE 0)

\* Mutant of NextShorten: the fragment after the one with the shorter header.
NextShortenLate(fseq) == CASE fseq < ShortFseqs -> -1
                           [] fseq < ShortFseqs * Growth /\ fseq >= ShortFseqs -> ShortFseqs
                           [] OTHER -> ShortFseqs * Growth

\* get_next_header_shorten_fseq, the 16 bit version; -1 is never reached.
NextShorten(fseq) == CASE fseq < ShortFseqs          -> -1
                       [] fseq < ShortFseqs * Growth /\ fseq >= ShortFseqs -> ShortFseqs - 1
                       [] OTHER                      -> ShortFseqs * Growth - 1

\* The fields of a fragmenter.
Frag == [err : BOOLEAN, fec : BOOLEAN, remaining : Int, shorten : Int, blen : Int, payload : Int,
         first : BOOLEAN, at : Int, left : Int, k : Int, red : Int, rest : Int]

Rejected == [err |-> TRUE, fec |-> FALSE, remaining |-> 0, shorten |-> -1, blen |-> 0,
             payload |-> 0, first |-> FALSE, at |-> 0, left |-> 0, k |-> 0, red |-> 0,
             rest |-> 0]

Started(len, count, blen, payload) ==
    [err |-> FALSE, fec |-> FALSE, remaining |-> count, shorten |-> NextShorten(count - 1),
     blen |-> blen, payload |-> payload, first |-> TRUE, at |-> 0, left |-> len,
     k |-> 0, red |-> 0, rest |-> 0]

\* NoFECFragmenter::init.  room is the MTU without the extension headers.  The
\* fragments with short headers are filled first in the count; what is left
\* over decides how long the longest header must be.
Rest(len, room, h) ==
    CASE h = 1 -> len
      [] h = 2 -> len - ShortFseqs * (room - 1)
      [] OTHER -> len - ShortFseqs * (room - 1) - ShortFseqs * (Growth - 1) * (room - 2)

Fits(len, room, h) ==
    Rest(len, room, h) <= (MaxFragments(h) - MaxFragments(h - 1)) * (room - h)

LongestHeader(len, room) ==
    CASE room - 1 <= 0 \/ Fits(len, room, 1) -> 1
      [] room - 1 > 0 /\ ~Fits(len, room, 1) /\ (room - 2 <= 0 \/ Fits(len, room, 2)) -> 2
      [] OTHER -> 3

InitNoFEC(len, room) ==
    LET h == LongestHeader(len, room)
    IN  IF room - h <= 0
        THEN Rejected
        ELSE Started(len, MaxFragments(h - 1) + DivRoundUp(Rest(len, room, h), room - h),
                     h, room - h)

\* FECFragmenter::init.  red percent of redundancy; all payloads have the same,
\* even length.  Without redundancy it falls back to the base class.
Even(n) == 2 * (n \div 2)
WithRedundancy(k, red) == k + DivRoundUp(k * red, 100)

InitFEC(len, mtu, eseq, red) ==
    LET payload(h) == Even(mtu - ExtHeader(eseq, TRUE) - h)
        k(h)       == DivRoundUp(len, payload(h))
        n(h)       == WithRedundancy(k(h), red)
        TooMany(h) == payload(h) > 0 /\ n(h) > MaxFragments(h)
        longest    == IF ~TooMany(1) THEN 1 ELSE IF ~TooMany(2) THEN 2 ELSE 3
        last       == IF longest > 1 /\ payload(longest) <= 0 THEN longest - 1 ELSE longest
    IN  IF payload(1) <= 0
        THEN Rejected
        ELSE IF n(last) = k(last)
             THEN InitNoFEC(len, mtu - ExtHeader(eseq, FALSE))
             ELSE IF payload(longest) <= 0
                  THEN Rejected
                  ELSE [Started(len, n(longest), longest, payload(longest)) EXCEPT
                           !.fec = TRUE, !.k = k(longest), !.red = red,
                           !.rest = ((len - 1) % payload(longest)) + 1]

\* get_fragment of both classes: the fragmenter afterwards ...
Shortens(f) == f.remaining - 1 = f.shorten
\* Mutant of NextPayload: the byte the header no longer needs stays unused.
NextPayloadSame(f) == f.payload
NextPayload(f) == IF Shortens(f) /\ ~f.fec THEN f.payload + 1 ELSE f.payload
Taken(f) == IF f.left >= NextPayload(f) THEN NextPayload(f) ELSE f.left

AfterFragment(f) ==
    [f EXCEPT !.remaining = f.remaining - 1,
              !.shorten   = IF Shortens(f) THEN NextShorten(f.remaining - 1) ELSE f.shorten,
              !.blen      = IF Shortens(f) THEN f.blen - 1 ELSE f.blen,
              !.payload   = NextPayload(f),
              !.first     = FALSE,
              !.at        = f.at + Taken(f),
              !.left      = f.left - Taken(f)]

\* ... and the fragment of the event src: a redundancy fragment once all data is
\* sent.
FragmentOf(f, src) ==
    [src |-> src, fseq |-> f.remaining - 1, first |-> f.first, blen |-> AfterFragment(f).blen,
     from |-> f.at, len |-> IF f.fec /\ f.left = 0 THEN f.payload ELSE Taken(f),
     fec |-> f.fec, k |-> f.k, red |-> f.red, rest |-> f.rest]
=============================================================================
