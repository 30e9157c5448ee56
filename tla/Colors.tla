------------------------------- MODULE Colors -------------------------------
(***************************************************************************)
(* Colours of a plot, in four notations: a record, a list of three or      *)
(* four, a name, and hexadecimal digits.  An alpha is counted in tenths,   *)
(* a channel is a byte.                                                    *)
(*                                                                         *)
(* A string is a sequence of characters; "wide" takes two bytes of UTF-8,  *)
(* and a name is a string of one character.                                *)
(***************************************************************************)
EXTENDS Coords, SequencesExt

Color(r, g, b, a) == [r |-> r, g |-> g, b |-> b, a |-> a]

Names == [black |-> Color(0, 0, 0, 10),     blue   |-> Color(0, 0, 255, 10),
          cyan  |-> Color(0, 255, 255, 10), green  |-> Color(0, 255, 0, 10),
          red   |-> Color(255, 0, 0, 10),   magenta |-> Color(255, 0, 255, 10),
          white |-> Color(255, 255, 255, 10), yellow |-> Color(255, 255, 0, 10)]

ChannelOf(v) == IF v.t = "int" /\ v.num \in 0..2550 THEN {v.num \div 10} ELSE {}
AlphaOf(v) == IF IsNumber(v) THEN {AsFloat(v)} \cap (0..10) ELSE {}

-----------------------------------------------------------------------------
(* Without an alpha a colour is opaque.  An alpha that is none is an       *)
(* error, in a record as in a list; a list longer than four is cut.        *)
RecordColor(v) ==
    IF ~HasFields(v, {"r", "g", "b"}) THEN {}
    ELSE {Color(r, g, b, a) :
             r \in ChannelOf(v.fields.r), g \in ChannelOf(v.fields.g), b \in ChannelOf(v.fields.b),
             a \in IF "a" \notin DOMAIN v.fields \/ v.fields.a = Nothing THEN {10}
                   ELSE AlphaOf(v.fields.a)}

ListColor(v) ==
    IF Len(v.items) < 3 THEN {}
    ELSE {Color(r, g, b, a) : r \in ChannelOf(v.items[1]), g \in ChannelOf(v.items[2]),
                              b \in ChannelOf(v.items[3]),
                              a \in IF Len(v.items) = 3 THEN {10} ELSE AlphaOf(v.items[4])}

-----------------------------------------------------------------------------
(* Hexadecimal digits are cut out of the string by bytes. *)

Digits == <<"0", "1", "2", "3", "4", "5", "6", "7", "8", "9", "a", "b", "c", "d", "e", "f">>
IsDigit(char) == char \in ToSet(Digits)
DigitValue(char) == SelectInSeq(Digits, LAMBDA d : d = char) - 1

BytesOf(chars) ==
    FlattenSeq([i \in DOMAIN chars |->
                  IF chars[i] = "wide" THEN <<"wide", "tail">> ELSE <<chars[i]>>])

(* Cutting through a character is a panic. *)
CutsThrough(piece, next) == piece[1] = "tail" \/ next = "tail"

(* u8::from_str_radix takes a sign before the digits. *)
ByteOf(piece) ==
    CASE IsDigit(piece[1]) /\ IsDigit(piece[2]) ->
            {16 * DigitValue(piece[1]) + DigitValue(piece[2])}
      [] piece[1] = "+" /\ IsDigit(piece[2]) -> {DigitValue(piece[2])}
      [] OTHER -> {}

(* The pieces of six or three bytes; a single digit counts twice.          *)
RepeatedOnce(byte) == <<"0", byte>>    \* mutant: the short form is not doubled
Repeated(byte) == <<byte, byte>>
Pieces(bytes) == CASE Len(bytes) = 6 -> [i \in 1..3 |-> SubSeq(bytes, 2 * i - 1, 2 * i)]
                   [] Len(bytes) = 3 -> [i \in 1..3 |-> Repeated(bytes[i])]
                   [] OTHER          -> <<>>

(* One piece after the other: the first that is no byte ends it with an    *)
(* error, the first that cuts through a character with a panic.            *)
HexPanics(bytes) ==
    LET step == Len(bytes) \div 3
        after(i) == IF i * step < Len(bytes) THEN bytes[i * step + 1] ELSE "end"
    IN  \E pieces \in {Pieces(bytes)} : \E i \in DOMAIN pieces :
            /\ CutsThrough(pieces[i], after(i))
            /\ \A j \in 1..(i - 1) : ByteOf(pieces[j]) # {}

HexColor(bytes) ==
    LET read(pieces) == {Color(r, g, b, 10) : r \in ByteOf(pieces[1]), g \in ByteOf(pieces[2]),
                                              b \in ByteOf(pieces[3])}
    IN  IF Len(bytes) \in {3, 6} THEN read(Pieces(bytes)) ELSE {}

StringColor(chars) ==
    CASE Len(chars) = 1 /\ chars[1] \in DOMAIN Names -> {Names[chars[1]]}
      [] Len(chars) > 1 /\ chars[1] = "#" -> HexColor(BytesOf(Tail(chars)))
      [] OTHER -> {}

-----------------------------------------------------------------------------
ColorPanics(v) == v.t = "string" /\ Len(v.chars) > 1 /\ v.chars[1] = "#"
                    /\ HexPanics(BytesOf(Tail(v.chars)))
ColorOf(v) == CASE v.t = "record" -> RecordColor(v)
                [] v.t = "list"   -> ListColor(v)
                [] v.t = "string" -> StringColor(v.chars)
                [] OTHER          -> {}

(* A colour as the value a user sees of it. *)
ColorValue(c) == Record([r |-> IntValue(c.r), g |-> IntValue(c.g), b |-> IntValue(c.b),
                         a |-> FloatValue(c.a)])
=============================================================================
