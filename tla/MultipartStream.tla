--------------------------- MODULE MultipartStream ---------------------------
(***************************************************************************)
(* MultipartStreamParser (multipart_stream.py): the parts of a stream that *)
(* never ends, out of chunks cut anywhere.                                 *)
(*                                                                         *)
(* Bytes are tokens: "D" is the delimiter, "cr", "lf" and "dash" are       *)
(* single bytes, "type" is a header line, LengthLine[n] the header line    *)
(* Content-Length: n, "x" is any other byte.  A part has a kind: "sized",  *)
(* with a Content-Length, "bare", without one, or "close", the closing     *)
(* delimiter.                                                              *)
(***************************************************************************)
EXTENDS Integers, Sequences, SequencesExt

CONSTANTS
    StreamParts,   \* the parts a device may send: [kind, body]
    LengthLine,    \* the Content-Length lines, by length
    MaxParts       \* bound: parts in a behaviour

Bytes == {"D", "cr", "lf", "dash", "type", "x"}
Lengths == DOMAIN LengthLine
Tokens == Bytes \union {LengthLine[n] : n \in Lengths}

\* a line says one length, and is none of the other tokens
ASSUME LinesAssumption ==
    /\ Lengths \subseteq Nat
    /\ \A n \in Lengths : LengthLine[n] \notin Bytes
    /\ \A m, n \in Lengths : LengthLine[m] = LengthLine[n] => m = n

\* The length a device states is that of the body; a body without one holds
\* no delimiter, as the receiver has nothing else to find its end by.
ASSUME PartsAssumption ==
    /\ MaxParts \in Nat
    /\ \A part \in StreamParts :
          /\ part.kind \in {"sized", "bare", "close"}
          /\ part.body \in Seq(Tokens)
          /\ part.kind = "sized" => Len(part.body) \in Lengths
          /\ part.kind = "bare" => \A i \in DOMAIN part.body : part.body[i] # "D"

VARIABLES
    sent,       \* history: the parts the device sends
    wire,       \* tokens that have not arrived
    parser,     \* _buffer, _headers (read or not) and _body_length
    got,        \* the bodies feed has returned
    closed      \* history: the last feed met a closing delimiter

streamVars == <<sent, wire, parser, got, closed>>

CRLF == <<"cr", "lf">>
None == -1     \* no Content-Length

\* what a device sends for a part; it always sends a header
Encoded(part) ==
    CASE part.kind = "sized" ->
            <<"D", "cr", "lf", "type", "cr", "lf", LengthLine[Len(part.body)], "cr", "lf", "cr", "lf">>
            \o part.body \o CRLF
      [] part.kind = "bare" ->
            <<"D", "cr", "lf", "type", "cr", "lf", "cr", "lf">> \o part.body \o CRLF
      [] part.kind = "close" -> <<"D", "dash", "dash", "cr", "lf">>

Streams == UNION {[1 .. n -> StreamParts] : n \in 1 .. MaxParts}

Parsers == [buffer : Seq(Tokens), headers : BOOLEAN, length : Lengths \union {None}]
NewParser == [buffer |-> <<>>, headers |-> FALSE, length |-> None]

StreamInit ==
    /\ sent = <<>> /\ wire = <<>>
    /\ parser = NewParser
    /\ got = <<>>
    /\ closed = FALSE

StreamTypeOK ==
    /\ sent \in Seq(StreamParts) /\ Len(sent) =< MaxParts
    /\ wire \in Seq(Tokens)
    /\ parser \in Parsers /\ (~parser.headers => parser.length = None)
    /\ got \in Seq(Seq(Tokens))
    /\ closed \in BOOLEAN

From(s, i) == SubSeq(s, i, Len(s))
Starts(s, t) == IsPrefix(t, s)

\* bytearray.find: where t begins in s, from position i on; 0 is not at all
Find(s, t, i) ==
    LET found == {j \in i .. Len(s) : Starts(From(s, j), t)}
    IN  IF found = {} THEN 0 ELSE Min(found)

\* bytes.rstrip(b"\r\n")
Rstrip(s) == SubSeq(s, 1, Max({0} \union {i \in DOMAIN s : s[i] \notin {"cr", "lf"}}))

\* _consume_part_headers: how the parser goes on, and whether it met the
\* closing delimiter
ConsumePartHeaders(p) ==
    LET idx == Find(p.buffer, <<"D">>, 1)
        rest == From(p.buffer, idx + 1)
        after == idx + 1 + (IF Starts(rest, CRLF) THEN 2 ELSE 0)
        end == Find(p.buffer, CRLF \o CRLF, after)
        lengths == {n \in Lengths : Contains(SubSeq(p.buffer, after, end), LengthLine[n])}
    IN  IF idx = 0 THEN [parser |-> p, closing |-> FALSE]
        ELSE IF Starts(rest, <<"dash", "dash">>)
        THEN [parser |-> [p EXCEPT !.buffer = From(rest, 3)], closing |-> TRUE]
        ELSE IF end = 0 THEN [parser |-> p, closing |-> FALSE]
        ELSE [parser |-> [buffer |-> From(p.buffer, end + 4), headers |-> TRUE,
                          length |-> IF lengths = {} THEN None ELSE CHOOSE n \in lengths : TRUE],
              closing |-> FALSE]

\* _consume_part_body: the bodies found, none or one, and the rest
ConsumePartBody(p) ==
    LET rest == From(p.buffer, p.length + 1)
        idx == Find(p.buffer, <<"D">>, 1)
    IN  IF p.length # None
        THEN IF Len(p.buffer) < p.length THEN [bodies |-> <<>>, buffer |-> p.buffer]
             ELSE [bodies |-> <<SubSeq(p.buffer, 1, p.length)>>,
                   buffer |-> IF Starts(rest, CRLF) THEN From(rest, 3) ELSE rest]
        ELSE IF idx = 0 THEN [bodies |-> <<>>, buffer |-> p.buffer]
        ELSE [bodies |-> <<Rstrip(SubSeq(p.buffer, 1, idx - 1))>>, buffer |-> From(p.buffer, idx)]

\* slip: the chunk is looked at without what is left of the former ones
Overwritten(buffer, chunk) == chunk

Extended(buffer, chunk) == buffer \o chunk

\* one turn of the loop of feed, while it goes on: the parser, the bodies found,
\* whether it met a closing delimiter, and whether the loop goes on
Turn(t) ==
    LET h == IF t.parser.headers THEN [parser |-> t.parser, closing |-> FALSE]
             ELSE ConsumePartHeaders(t.parser)
        b == ConsumePartBody(h.parser)
    IN  IF ~t.going THEN t
        ELSE IF ~h.parser.headers \/ b.bodies = <<>>
        THEN [parser |-> h.parser, bodies |-> t.bodies, closing |-> h.closing, going |-> FALSE]
        ELSE [parser |-> [NewParser EXCEPT !.buffer = b.buffer], bodies |-> t.bodies \o b.bodies,
              closing |-> FALSE, going |-> TRUE]

\* the loop: a turn that finds a body consumes a delimiter, but for the first,
\* so that it has ended by the last of these
FeedLoop(p) ==
    LET last == Len(p.buffer) + 2
        turn[n \in 0 .. last] ==
            IF n = 0 THEN [parser |-> p, bodies |-> <<>>, closing |-> FALSE, going |-> TRUE]
            ELSE Turn(turn[n - 1])
    IN  turn[last]

\* the device decides what to say
Transmit ==
    /\ sent = <<>>
    /\ \E s \in Streams : /\ sent' = s
                          /\ wire' = FlattenSeq([i \in DOMAIN s |-> Encoded(s[i])])
    /\ UNCHANGED <<parser, got, closed>>

\* a chunk of any size arrives
Feed ==
    \E n \in 1 .. Len(wire) :
        LET fed == FeedLoop([parser EXCEPT !.buffer = Extended(@, SubSeq(wire, 1, n))])
        IN  /\ wire' = From(wire, n + 1)
            /\ parser' = fed.parser
            /\ got' = got \o fed.bodies
            /\ closed' = fed.closing
            /\ UNCHANGED sent

StreamNext == Transmit \/ Feed

-----------------------------------------------------------------------------
\* what feed owes for a part: its body, and nothing for a closing delimiter
Returned(part) ==
    CASE part.kind = "sized" -> <<part.body>>
      [] part.kind = "bare" -> <<Rstrip(part.body)>>
      [] part.kind = "close" -> <<>>

Bodies == FlattenSeq([i \in DOMAIN sent |-> Returned(sent[i])])

\* the number of parts that have fully arrived: the last byte of the body has,
\* or, for want of a length, the delimiter that follows it
Arrived ==
    LET Encodings == [i \in DOMAIN sent |-> Encoded(sent[i])]
        fed == Len(FlattenSeq(Encodings)) - Len(wire)
        Ends(i) == Len(FlattenSeq(SubSeq(Encodings, 1, i))) + (IF sent[i].kind = "sized" THEN 0 ELSE 3) - 2
    IN  Cardinality({i \in DOMAIN sent : sent[i].kind # "close" /\ Ends(i) =< fed})

\* Whatever the chunks, feed returns the parts the device sent, each once,
\* unchanged and in order (a body without Content-Length loses the line ends
\* at its end), and each with the chunk that completes it - unless that chunk
\* brought a closing delimiter: feed stops there, and what follows in the
\* same chunk waits for the next one.
PartsInTime ==
    /\ IsPrefix(got, Bodies)
    /\ ~closed => Len(got) = Arrived
=============================================================================
