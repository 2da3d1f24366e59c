------------------------------- MODULE Codec --------------------------------
(***************************************************************************)
(* What the codecs of tc::Stream make of values, and of their bytes again: *)
(* values are written one after the other, with spaces and ends of lines   *)
(* as the caller likes, and read in the same order on another host.        *)
(***************************************************************************)
EXTENDS Naturals, Sequences, SequencesExt, FiniteSetsExt

CONSTANTS Codecs,     \* of "ascii", "native", "little", "big"
          Values,     \* [type, val]: a byte, a number, a sequence of bytes
          After(_),   \* what the caller writes after a value
          MaxValues,  \* bound
          Cuts        \* is the end of the data lost on the way?

NUL == 0  NL == 10  SP == 32

VARIABLES
    codec, writer, reader,    \* the codec, and which hosts are little endian
    data, values,             \* what was written
    pos, got,                 \* what was read
    len, eof                  \* of the last Encode or Decode
vars == <<codec, writer, reader, data, values, pos, got, len, eof>>
setup == <<codec, writer, reader>>

TypeOK ==
    /\ \A i \in DOMAIN data : data[i] \in 0 .. 255
    /\ values \in Seq(Values) /\ Len(got) <= Len(values)
    /\ pos \in 0 .. Len(data)
    /\ \A i \in DOMAIN got : got[i].type = values[i].type

Init ==
    /\ codec \in Codecs /\ writer \in BOOLEAN /\ reader \in BOOLEAN
    /\ codec = "native" => writer = reader
    /\ data = <<>> /\ values = <<>> /\ pos = 0 /\ got = <<>> /\ len = 0 /\ eof = FALSE
-----------------------------------------------------------------------------
(* Bytes of a number of two bytes on a host, as the codec wants them.      *)
Swapped(bytes, little) ==
    IF codec = "native" \/ little = (codec = "little") THEN bytes ELSE Reverse(bytes)

Memory(n, little) == IF little THEN <<n % 256, n \div 256>> ELSE <<n \div 256, n % 256>>
InMemory(bytes, little) == IF little THEN bytes[1] + 256 * bytes[2] ELSE bytes[2] + 256 * bytes[1]

NumberBytes(n) == Swapped(Memory(n, writer), writer)
BytesNumber(bytes) == InMemory(Swapped(bytes, reader), reader)

Digits(n) == IF n < 10 THEN <<48 + n>> ELSE <<48 + (n \div 10), 48 + (n % 10)>>
IsDigit(c) == c \in 48 .. 57
ToNumber(s) == FoldLeft(LAMBDA n, c : 10 * n + (c - 48), 0, s)

Encoded(v) ==
    CASE v.type = "char" -> <<v.val>>
      [] v.type = "bool" -> IF codec = "ascii" THEN <<IF v.val THEN 49 ELSE 48>>
                            ELSE <<IF v.val THEN 1 ELSE 0>>
      [] v.type = "number" -> IF codec = "ascii" THEN Digits(v.val) ELSE NumberBytes(v.val)
      [] v.type = "string" -> IF codec = "ascii" THEN v.val
                              ELSE NumberBytes(Len(v.val)) \o v.val

EncodeEndOfLine == IF codec = "ascii" THEN <<NL>> ELSE <<>>
EncodeSpace == IF codec = "ascii" THEN <<SP>> ELSE <<>>

Write(v) ==
    /\ Len(values) < MaxValues /\ got = <<>> /\ ~eof
    /\ \E separator \in After(v) :
        data' = data \o Encoded(v)
                     \o FlattenSeq([i \in DOMAIN separator |->
                            IF separator[i] = "endl" THEN EncodeEndOfLine ELSE EncodeSpace])
    /\ values' = Append(values, v) /\ len' = Len(Encoded(v))
    /\ UNCHANGED <<setup, pos, got, eof>>

Cut ==
    /\ Cuts /\ data # <<>> /\ pos = 0 /\ got = <<>> /\ ~eof
    /\ \E n \in 0 .. Len(data) - 1 : data' = SubSeq(data, 1, n)
    /\ eof' = TRUE  \* nothing more is written
    /\ UNCHANGED <<setup, values, pos, got, len>>
-----------------------------------------------------------------------------
iseol(c) == c = NL
isspace(c) == c \in {NL, SP}

(* Byte by byte: skips(c) in front, then up to and with the first that     *)
(* ends(c), or to the end of the data.                                     *)
FirstThat(p, from) ==
    Min({i \in from .. Len(data) : p[i]} \union {Len(data) + 1})

WordEndKept(last) == last - 1
WordEnd(last) == Min({last, Len(data)})

ReadNextValueString(skips(_), ends(_)) ==
    LET first == FirstThat([i \in DOMAIN data |-> ~skips(data[i])], pos + 1)
        last == FirstThat([i \in DOMAIN data |-> ends(data[i])], first + 1)
    IN  [val |-> SubSeq(data, first, last - 1),
         next |-> WordEnd(last), atEnd |-> last > Len(data)]

type == values[Len(got) + 1].type

Got(val, n, atEnd) ==
    /\ got' = Append(got, [type |-> type, val |-> val])
    /\ pos' = pos + n /\ len' = n /\ eof' = atEnd

GotNothing == len' = 0 /\ eof' = TRUE /\ UNCHANGED <<pos, got>>

Left == Len(data) - pos
At(n) == SubSeq(data, pos + 1, pos + n)
Reads == Len(got) < Len(values)

DecodeAscii ==
    /\ Reads /\ codec = "ascii" /\ type # "char"
    /\ LET word == IF type = "string" THEN ReadNextValueString(iseol, iseol)
                   ELSE ReadNextValueString(isspace, isspace)
           val == CASE type = "number" -> ToNumber(SelectSeq(word.val, IsDigit))
                    [] type = "bool" -> word.val = <<49>>
                    [] type = "string" -> word.val
       IN  Got(val, word.next - pos, word.atEnd)
    /\ UNCHANGED <<setup, data, values>>

DecodeByte ==
    /\ Reads /\ type \in {"char", "bool"} /\ (codec = "ascii" => type = "char")
    /\ IF Left = 0 THEN GotNothing
       ELSE Got(IF type = "bool" THEN At(1) = <<1>> ELSE At(1)[1], 1, FALSE)
    /\ UNCHANGED <<setup, data, values>>

DecodeNumber ==
    /\ Reads /\ type = "number" /\ codec # "ascii"
    /\ IF Left < 2 THEN GotNothing ELSE Got(BytesNumber(At(2)), 2, FALSE)
    /\ UNCHANGED <<setup, data, values>>

(* The string ends with the first byte that is 0.                          *)
CString(s) == SubSeq(s, 1, Min({i \in DOMAIN s : s[i] = NUL} \union {Len(s) + 1}) - 1)

(* Without the bytes of the length, the length is any number, and nothing  *)
(* is read.                                                                *)
DecodeString ==
    /\ Reads /\ type = "string" /\ codec # "ascii"
    /\ IF Left < 2 THEN GotNothing
       ELSE LET nBytes == BytesNumber(At(2))
            IN  IF Left - 2 < nBytes THEN GotNothing
                ELSE Got(CString(SubSeq(data, pos + 3, pos + 2 + nBytes)),
                         2 + nBytes, FALSE)
    /\ UNCHANGED <<setup, data, values>>

Next == (\E v \in Values : Write(v)) \/ Cut
        \/ DecodeAscii \/ DecodeByte \/ DecodeNumber \/ DecodeString

Spec == Init /\ [][Next]_vars
-----------------------------------------------------------------------------
(* TCStreamTest.cpp: "val == val_in": what is read is what was written, in *)
(* every order of types, and with a codec of a fixed byte order also on    *)
(* another host.  What lost its end is not taken for a value.              *)
RoundTrip == IsPrefix(got, values)

(* TCStreamTest.cpp: "stream->IsOk()": nothing that was written makes the  *)
(* reader run into the end, and the numbers of bytes that the codec tells  *)
(* lead it from value to value.                                            *)
EndsTogether == got # <<>> => (~eof /\ (got = values => pos = Len(data)))
=============================================================================
