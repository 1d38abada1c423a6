-------------------------------- MODULE Wire --------------------------------
(* Messages in wire format: Pack with its compression of names, Unpack with    *)
(* its decompression of names, in records' data too.                           *)
(*                                                                             *)
(* A buffer is a sequence of cells.  The length of a label and each of its     *)
(* bytes is a cell, as in the code; a pointer is a cell Pointer and one with   *)
(* its fourteen bits; each field of fixed width is one cell (the counts of the *)
(* header, type and class, TTL, RDLENGTH).  A name is a sequence of labels, a  *)
(* label a sequence of bytes without dots.  Offsets start at 0.                *)
EXTENDS Integers, Sequences, TLC

CONSTANTS
    maxNameLength, maxLabelLength, maxPointerDepth,
    PointerSpace,   \* offsets a pointer can have: 2^14
    BufferSize,
    Packed,         \* messages to be packed
    Received        \* buffers to be read

VARIABLE wire   \* the message and its buffer, or a buffer that has come in

Pointer == 192
Error == [ok |-> FALSE]

\* How RDATA is made: fields of fixed width, names, and what follows them:
\* nothing, the five numbers of SOA, or bytes to the end.  2 stands for NS, CNAME,
\* PTR and DNAME, 15 is MX, 6 SOA, 33 SRV, 46 RRSIG, 47 NSEC; others have no names.
Layout(t) ==
    CASE t = 2 -> [fixed |-> 0, names |-> 1, tail |-> "none"]
      [] t = 15 -> [fixed |-> 1, names |-> 1, tail |-> "none"]
      [] t = 33 -> [fixed |-> 3, names |-> 1, tail |-> "none"]
      [] t = 6 -> [fixed |-> 0, names |-> 2, tail |-> "numbers"]
      [] t = 46 -> [fixed |-> 7, names |-> 1, tail |-> "rest"]
      [] t = 47 -> [fixed |-> 0, names |-> 1, tail |-> "rest"]
      [] OTHER -> [fixed |-> 0, names |-> 0, tail |-> "rest"]

\* The length of a name as text.
RECURSIVE TextLen(_)
TextLen(name) == IF name = << >> THEN -1 ELSE 1 + Len(Head(name)) + TextLen(Tail(name))

-----------------------------------------------------------------------------
(* Reading.                                                                   *)

\* end is where reading goes on after the name: 0 before the first pointer.
RECURSIVE Walk(_, _, _, _, _)
Walk(msg, offset, name, end, depth) ==
    IF offset >= Len(msg) THEN Error
    ELSE LET b == msg[offset + 1]
             longer == Append(name, SubSeq(msg, offset + 2, offset + 1 + b))
         IN  CASE b = 0 -> [ok |-> TRUE, name |-> name, end |-> IF end = 0 THEN offset + 1 ELSE end]
               [] b = Pointer ->
                    IF offset + 1 >= Len(msg) \/ msg[offset + 2] >= offset \/ depth >= maxPointerDepth THEN Error
                    ELSE Walk(msg, msg[offset + 2], name, IF end = 0 THEN offset + 2 ELSE end, depth + 1)
               [] OTHER ->
                    IF b > maxLabelLength \/ offset + 1 + b > Len(msg) \/ TextLen(longer) > maxNameLength THEN Error
                    ELSE Walk(msg, offset + 1 + b, longer, end, depth)

DecodeName(msg, offset) == Walk(msg, offset, << >>, 0, 0)

\* n names from offset on.
RECURSIVE DecodeNames(_, _, _)
DecodeNames(msg, offset, n) ==
    LET d == DecodeName(msg, offset)
        others == DecodeNames(msg, d.end, n - 1)
    IN  IF n = 0 THEN [ok |-> TRUE, names |-> << >>, end |-> offset]
        ELSE IF ~d.ok THEN Error
        ELSE IF ~others.ok THEN Error
        ELSE [others EXCEPT !.names = <<d.name>> \o @]

RECURSIVE encodePlainName(_)
encodePlainName(name) == IF name = << >> THEN <<0>> ELSE <<Len(Head(name))>> \o Head(name) \o encodePlainName(Tail(name))

RECURSIVE Plain(_)
Plain(names) == IF names = << >> THEN << >> ELSE encodePlainName(Head(names)) \o Plain(Tail(names))

\* RDATA that stands by itself: names decompressed, or raw where it is not in order.
UnpackRData(msg, t, start, n) ==
    LET L == Layout(t)
        d == DecodeNames(msg, start + L.fixed, L.names)
        last == IF L.tail = "numbers" THEN d.end + 5 ELSE start + n
        fits == L.tail = "none" \/ (d.end <= start + n /\ last <= start + n)
    IN  IF L.names = 0 \/ n < L.fixed \/ ~d.ok \/ ~fits
        THEN SubSeq(msg, start + 1, start + n)
        ELSE SubSeq(msg, start + 1, start + L.fixed) \o Plain(d.names)
                 \o (IF L.tail = "none" THEN << >> ELSE SubSeq(msg, d.end + 1, last))

UnpackQuestion(msg, offset) ==
    LET d == DecodeName(msg, offset)
    IN  IF ~d.ok \/ d.end >= Len(msg) THEN Error
        ELSE [ok |-> TRUE, is |-> [name |-> d.name, type |-> msg[d.end + 1]], end |-> d.end + 1]

UnpackRR(msg, offset) ==
    LET d == DecodeName(msg, offset)
    IN  IF ~d.ok \/ d.end + 3 > Len(msg) \/ d.end + 3 + msg[d.end + 3] > Len(msg) THEN Error
        ELSE LET n == msg[d.end + 3]
             IN  [ok |-> TRUE, end |-> d.end + 3 + n,
                  is |-> [name |-> d.name, type |-> msg[d.end + 1], ttl |-> msg[d.end + 2],
                          rdata |-> UnpackRData(msg, msg[d.end + 1], d.end + 3, n)]]

\* n entries of a section, of questions or of records.
RECURSIVE Section(_, _, _, _)
Section(msg, offset, n, questions) ==
    LET e == IF questions THEN UnpackQuestion(msg, offset) ELSE UnpackRR(msg, offset)
        others == Section(msg, e.end, n - 1, questions)
    IN  IF n = 0 THEN [ok |-> TRUE, all |-> << >>, end |-> offset]
        ELSE IF ~e.ok THEN Error
        ELSE IF ~others.ok THEN Error
        ELSE [others EXCEPT !.all = <<e.is>> \o @]

\* The three sections of records follow each other and are one here.
Unpack(buf) ==
    IF Len(buf) < 2 THEN Error
    ELSE LET q == Section(buf, 2, buf[1], TRUE)
             r == Section(buf, q.end, buf[2], FALSE)
         IN  IF ~q.ok THEN Error
             ELSE IF ~r.ok THEN Error
             ELSE [ok |-> TRUE, is |-> [questions |-> q.all, records |-> r.all]]

-----------------------------------------------------------------------------
(* Writing.  A writer that has failed stays so: every error ends Pack.        *)

newWireWriter == [ok |-> TRUE, buf |-> << >>, compressed |-> << >>]

writeBytes(w, bs) ==
    IF w.ok /\ Len(w.buf) + Len(bs) <= BufferSize THEN [w EXCEPT !.buf = @ \o bs] ELSE [w EXCEPT !.ok = FALSE]

\* Pointers to offsets beyond fourteen bits.
Target_Wraps(w, suffix) == IF suffix \in DOMAIN w.compressed THEN w.compressed[suffix] % PointerSpace ELSE -1

\* Where the suffix was written, if a pointer reaches it.
Target(w, suffix) ==
    IF suffix \in DOMAIN w.compressed /\ w.compressed[suffix] < PointerSpace - 1 THEN w.compressed[suffix] ELSE -1

Remember(w, name) == [w EXCEPT !.compressed = (name :> Len(w.buf)) @@ @]

RECURSIVE EncodeName(_, _)
EncodeName(w, name) ==
    IF name = << >> THEN writeBytes(w, <<0>>)
    ELSE IF Target(w, name) >= 0 THEN writeBytes(w, <<Pointer, Target(w, name)>>)
    ELSE IF Len(name[1]) > maxLabelLength THEN [w EXCEPT !.ok = FALSE]
    ELSE EncodeName(writeBytes(Remember(w, name), <<Len(name[1])>> \o name[1]), Tail(name))

RECURSIVE EncodeNames(_, _)
EncodeNames(w, names) == IF names = << >> THEN w ELSE EncodeNames(EncodeName(w, Head(names)), Tail(names))

\* RDATA with its names compressed, or raw where it is not in order.
writeRData(w, rr) ==
    LET L == Layout(rr.type)
        d == DecodeNames(rr.rdata, L.fixed, L.names)
        names == EncodeNames(writeBytes(w, SubSeq(rr.rdata, 1, L.fixed)), d.names)
    IN  IF L.names = 0 \/ Len(rr.rdata) < L.fixed \/ ~d.ok THEN writeBytes(w, rr.rdata)
        ELSE IF L.tail = "none" THEN names
        ELSE writeBytes(names, SubSeq(rr.rdata, d.end + 1, Len(rr.rdata)))

\* RDLENGTH is filled in once the data is written.
packRData(w, rr) ==
    LET start == writeBytes(w, <<0>>)
        done == IF rr.rdata = << >> THEN start ELSE writeRData(start, rr)
    IN  IF done.ok THEN [done EXCEPT !.buf[Len(start.buf)] = Len(done.buf) - Len(start.buf)] ELSE done

RECURSIVE packQuestions(_, _)
packQuestions(w, qs) ==
    IF qs = << >> THEN w
    ELSE packQuestions(writeBytes(EncodeName(w, Head(qs).name), <<Head(qs).type>>), Tail(qs))

RECURSIVE packRRs(_, _)
packRRs(w, rrs) ==
    IF rrs = << >> THEN w
    ELSE LET rr == Head(rrs)
         IN  packRRs(packRData(writeBytes(EncodeName(w, rr.name), <<rr.type, rr.ttl>>), rr), Tail(rrs))

header(m) == <<Len(m.questions), Len(m.records)>>

Pack(m) == packRRs(packQuestions(writeBytes(newWireWriter, header(m)), m.questions), m.records)

-----------------------------------------------------------------------------
WireInit == wire = [of |-> "nothing", msg |-> Error, buf |-> << >>]
Send(m) == wire' = [of |-> "message", msg |-> m, buf |-> IF Pack(m).ok THEN Pack(m).buf ELSE << >>]
Receive(b) == wire' = [of |-> "bytes", msg |-> Unpack(b), buf |-> b]
WireNext == wire.of = "nothing" /\ ((\E m \in Packed : Send(m)) \/ (\E b \in Received : Receive(b)))

\* Whoever reads what Pack has written gets the same names and the same data,
\* however names share suffixes, wherever in the message they are, and whether
\* a pointer still reaches them (Pack, EncodeName, packRData, Unpack, UnpackRR).
\* In any bytes, what DecodeName reads as a name ends behind its start and
\* inside the message, keeps to the length limit, and is the same name when it
\* is written and read again (DecodeName, EncodeName, encodePlainName).
MessagesSurvive ==
    /\ wire.of = "message" /\ wire.buf # << >> => Unpack(wire.buf) = [ok |-> TRUE, is |-> wire.msg]
    /\ wire.of = "bytes" => \A offset \in 0 .. Len(wire.buf) :
         LET d == DecodeName(wire.buf, offset) IN d.ok =>
             /\ d.end \in offset + 1 .. Len(wire.buf)
             /\ d.name # << >> => TextLen(d.name) <= maxNameLength
             /\ DecodeName(encodePlainName(d.name), 0).name = d.name
             /\ DecodeName(EncodeName(newWireWriter, d.name).buf, 0).name = d.name
=============================================================================
