----------------------------- MODULE TextDecoder -----------------------------
(***************************************************************************)
(* The streaming UTF-8 decoder of the mini-program, and the event stream   *)
(* that feeds it the chunks of a response.  (polyfills/textDecoder.ts; the *)
(* decoder of utils/eventSource.ts)                                        *)
(*                                                                         *)
(* A response is a sequence of items: a character, or malformed bytes.     *)
(* The network cuts its bytes anywhere.  Bytes and UTF-16 units are        *)
(* numbers; masks and shifts are divisions.                                *)
(***************************************************************************)
EXTENDS Naturals, Sequences

CONSTANTS Characters,  \* code points
          Malformed,   \* byte sequences that are no UTF-8
          MaxItems     \* bound: items of a response

ASSUME TextDecoderAssumption ==
  /\ \A c \in Characters : c \in 0..1114111 /\ c \notin 55296..57343
  /\ \A b \in Malformed : b \in Seq(0..255)
  /\ MaxItems \in Nat

VARIABLES
  items,    \* the response
  bytes,    \* its bytes that did not arrive yet
  undone,   \* _pending
  units,    \* what the decoder returned so far
  ended,    \* the request succeeded
  retried,  \* reconnectAttempted
  spliced   \* history: the connection broke within a character

decoderVars == <<items, bytes, undone, units, ended, retried, spliced>>

Replacement == 65533

-----------------------------------------------------------------------------
(* What a response is, and what it should read. *)

Encode(c) ==
  IF c < 128 THEN <<c>>
  ELSE IF c < 2048 THEN <<192 + c \div 64, 128 + (c % 64)>>
  ELSE IF c < 65536 THEN <<224 + c \div 4096, 128 + ((c \div 64) % 64), 128 + (c % 64)>>
  ELSE <<240 + c \div 262144, 128 + ((c \div 4096) % 64), 128 + ((c \div 64) % 64), 128 + (c % 64)>>

Items == {<<"character", c>> : c \in Characters} \cup {<<"malformed", b>> : b \in Malformed}

BytesOf(i) == IF i[1] = "character" THEN Encode(i[2]) ELSE i[2]

\* A character is one unit or a pair of surrogates; each malformed byte is
\* replaced.
UnitsOf(i) ==
  IF i[1] = "malformed" THEN [k \in 1..Len(i[2]) |-> Replacement]
  ELSE IF i[2] < 65536 THEN <<i[2]>>
  ELSE <<55296 + (i[2] - 65536) \div 1024, 56320 + ((i[2] - 65536) % 1024)>>

Concat(f(_), s) ==
  LET J[k \in 0..Len(s)] == IF k = 0 THEN <<>> ELSE J[k - 1] \o f(s[k])
  IN  J[Len(s)]

Responses == UNION {[1..n -> Items] : n \in 0..MaxItems}

-----------------------------------------------------------------------------
(* decode *)

\* Mutant: a byte that begins a character of four is taken for one of three.
SizeThree(b) == IF b < 128 THEN 1 ELSE IF b \div 32 = 6 THEN 2 ELSE IF b \div 8 \in {28, 29, 30} THEN 3 ELSE 0

\* The bytes of the character that b begins; none if b begins none.
SizeOf(b) ==
  IF b < 128 THEN 1 ELSE IF b \div 32 = 6 THEN 2 ELSE IF b \div 16 = 14 THEN 3 ELSE IF b \div 8 = 30 THEN 4 ELSE 0

CodePoint(b, i) ==
  CASE SizeOf(b[i]) = 1 -> b[i]
    [] SizeOf(b[i]) = 2 -> 64 * (b[i] % 32) + (b[i + 1] % 64)
    [] SizeOf(b[i]) = 3 -> 4096 * (b[i] % 16) + 64 * (b[i + 1] % 64) + (b[i + 2] % 64)
    [] SizeOf(b[i]) = 4 -> 262144 * (b[i] % 8) + 4096 * (b[i + 1] % 64) + 64 * (b[i + 2] % 64) + (b[i + 3] % 64)

\* Mutant: surrogates are let through.
WellFormedSurrogates(b, i) ==
  /\ \A k \in 1..(SizeOf(b[i]) - 1) : b[i + k] \div 64 = 2
  /\ CodePoint(b, i) \in (CASE SizeOf(b[i]) = 1 -> 0..127
                            [] SizeOf(b[i]) = 2 -> 128..2047
                            [] SizeOf(b[i]) = 3 -> 2048..65535
                            [] SizeOf(b[i]) = 4 -> 65536..1114111)

\* Continuation bytes where they belong, the shortest form, no surrogate and
\* nothing above the last code point.
WellFormed(b, i) ==
  /\ \A k \in 1..(SizeOf(b[i]) - 1) : b[i + k] \div 64 = 2
  /\ CodePoint(b, i) \in (CASE SizeOf(b[i]) = 1 -> 0..127
                            [] SizeOf(b[i]) = 2 -> 128..2047
                            [] SizeOf(b[i]) = 3 -> (2048..55295) \cup (57344..65535)
                            [] SizeOf(b[i]) = 4 -> 65536..1114111)

\* What the bytes read from i on, and where the first one left over is.
Decoded(b) ==
  LET D[i \in 1..(Len(b) + 1)] ==
        IF i > Len(b) \/ (SizeOf(b[i]) # 0 /\ i + SizeOf(b[i]) - 1 > Len(b))
        THEN [text |-> <<>>, rest |-> i]
        ELSE LET good == SizeOf(b[i]) # 0 /\ WellFormed(b, i)
                 next == D[i + (IF good THEN SizeOf(b[i]) ELSE 1)]
                 here == IF good THEN UnitsOf(<<"character", CodePoint(b, i)>>) ELSE <<Replacement>>
             IN  [text |-> here \o next.text, rest |-> next.rest]
  IN  D[1]

\* Mutant: the bytes left over are only those of the last chunk.
LeftOverOfChunk(b, chunk) ==
  LET all == b \o chunk
      from == Decoded(all).rest
  IN  IF Len(all) - from + 1 < Len(chunk) THEN SubSeq(all, from, Len(all)) ELSE chunk

LeftOver(b, chunk) == SubSeq(b \o chunk, Decoded(b \o chunk).rest, Len(b \o chunk))

-----------------------------------------------------------------------------
DecoderInit ==
  /\ items \in Responses /\ bytes = Concat(BytesOf, items)
  /\ undone = <<>> /\ units = <<>> /\ ended = FALSE /\ retried = FALSE /\ spliced = FALSE

\* A decoder nothing was streamed to.
DecoderRests ==
  /\ items = <<>> /\ bytes = <<>>
  /\ undone = <<>> /\ units = <<>> /\ ended = FALSE /\ retried = FALSE /\ spliced = FALSE

\* onChunkReceived
DecodeChunk ==
  /\ ~ended
  /\ \E n \in 1..Len(bytes) :
       LET chunk == SubSeq(bytes, 1, n)
       IN  /\ bytes' = SubSeq(bytes, n + 1, Len(bytes))
           /\ units' = units \o Decoded(undone \o chunk).text
           /\ undone' = LeftOver(undone, chunk)
  /\ UNCHANGED <<items, ended, retried, spliced>>

\* The response is complete, though the server may have been cut off: what
\* is left of a character is replaced.
DecodeEnds ==
  /\ ~ended /\ ended' = TRUE
  /\ units' = (IF undone = <<>> THEN units ELSE Append(units, Replacement)) /\ undone' = <<>>
  /\ UNCHANGED <<items, bytes, retried, spliced>>

\* The connection fails: the response is asked for anew and its text begins
\* anew, but the decoder is the old one.
DecodeRestarts ==
  /\ ~ended /\ ~retried /\ retried' = TRUE
  /\ bytes' = Concat(BytesOf, items) /\ units' = <<>>
  /\ spliced' = (undone # <<>>)
  /\ UNCHANGED <<items, undone, ended>>

DecoderNext == DecodeChunk \/ DecodeEnds \/ DecodeRestarts
DecoderSpec == DecoderInit /\ [][DecoderNext]_decoderVars

-----------------------------------------------------------------------------
\* The types; less than one character is left over.
DecoderTypeOK ==
  /\ items \in Responses /\ Len(undone) < 4 /\ ended \in BOOLEAN /\ retried \in BOOLEAN /\ spliced \in BOOLEAN

Expected == Concat(UnitsOf, items)
IsPrefixOf(s, t) == Len(s) <= Len(t) /\ \A i \in DOMAIN s : s[i] = t[i]

\* However the response is cut, the text so far is its beginning: no
\* character is torn, doubled or held back once its bytes are there; of one
\* that never comes whole, one replacement is left.
TextIsWhole ==
  ~spliced =>
    /\ IsPrefixOf(units, Expected) \/ (ended /\ IsPrefixOf(SubSeq(units, 1, Len(units) - 1), Expected)
                                       /\ units[Len(units)] = Replacement)
    /\ bytes = <<>> => undone = <<>> /\ units = Expected

\* After the connection broke within a character, its bytes become at most
\* three replacements before the new text.
SpliceIsShort ==
  spliced /\ bytes = <<>> /\ undone = <<>> =>
    \E n \in 1..3 : units = [i \in 1..n |-> Replacement] \o Expected
=============================================================================
