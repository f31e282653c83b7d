------------------------------- MODULE CJson -------------------------------
(***************************************************************************)
(* The parser and the printer of thirdparty/cJSON/cJSON.c, as far as       *)
(* app_message.c and ota_version.c use them: cJSON_Parse, the lookup of a  *)
(* field and cJSON_Print with and without formatting.  Bytes are numbers.  *)
(* A text ends with its NUL, and position p is offset p - 1 of the parse   *)
(* buffer.  Memory is always there; numbers are integers (no fraction, no  *)
(* exponent).                                                              *)
(***************************************************************************)
EXTENDS HexDigits, SequencesExt, FiniteSetsExt

CONSTANTS NestingLimit,        (* CJSON_NESTING_LIMIT: 1000 *)
          default_buffer_size  (* of print: 256              *)

ASSUME CJsonAssumption == NestingLimit \in Nat /\ default_buffer_size \in Nat \ {0}

Quote == 34  Backslash == 92  Comma == 44  Colon == 58
Space == 32  Tab == 9  Newline == 10

null  == <<110, 117, 108, 108>>
true  == <<116, 114, 117, 101>>
false == <<102, 97, 108, 115, 101>>

(* A node.  child is a sequence of [string, item]; string is empty in arrays. *)
Item(type, int, str, child) ==
  [type |-> type, valueint |-> int, valuestring |-> str, child |-> child]

Literal(type) == Item(type, IF type = "True" THEN 1 ELSE 0, <<>>, <<>>)
Number(n) == Item("Number", n, <<>>, <<>>)
String(str) == Item("String", 0, str, <<>>)
Nothing == Item("Invalid", 0, <<>>, <<>>)

(* What C takes for a string: the bytes up to the first NUL. *)
CString(b) ==
  SubSeq(b, 1, Min({i \in DOMAIN b : b[i] = 0} \cup {Len(b) + 1}) - 1)

(* What a parse function returns: where the buffer is then, and its item. *)
Parsed(at, item) == [ok |-> TRUE, at |-> at, item |-> item]
Failed == [ok |-> FALSE, at |-> 0, item |-> Nothing]

------------------------------------------------------------------------------
(* Scanning *)

(* buffer_skip_whitespace: the last byte of the buffer is never skipped.     *)
RECURSIVE Skip(_, _)
Skip(s, p) == IF p < Len(s) /\ s[p] <= Space THEN Skip(s, p + 1) ELSE p

At(s, p, b) == p <= Len(s) /\ s[p] = b

Reads(s, p, word) ==
  p + Len(word) - 1 <= Len(s) /\ SubSeq(s, p, p + Len(word) - 1) = word

(* skip_utf8_bom *)
SkipBom(s) == IF Len(s) > 4 /\ Reads(s, 1, <<239, 187, 191>>) THEN 4 ELSE 1

Decimal(ds) == FoldLeft(LAMBDA n, d : 10 * n + d - 48, 0, ds)

RECURSIVE DigitsEnd(_, _)
DigitsEnd(s, p) == IF p <= Len(s) /\ s[p] \in Digits THEN DigitsEnd(s, p + 1) ELSE p

(* parse_number: strtod takes a sign and the digits behind it. *)
parse_number(s, p) ==
  LET first == IF s[p] = 45 THEN p + 1 ELSE p
      end == DigitsEnd(s, first)
      n == Decimal(SubSeq(s, first, end - 1))
  IN IF end = first THEN Failed
     ELSE Parsed(end, Number(IF first = p THEN n ELSE -n))

------------------------------------------------------------------------------
(* Strings *)

(* Whatever holds another byte is 0. *)
parse_hex4(s, p) ==
  LET Number16(h) == IF \E i \in DOMAIN h : h[i] < 0 THEN 0
                     ELSE FoldLeft(LAMBDA n, d : 16 * n + d, 0, h)
  IN Number16([i \in 1..4 |-> HexDigit(s[p + i - 1])])

(* The six bits of c that stand above k. *)
SixBits(c, k) == 128 + ((c \div k) % 64)

(* Mutant: one byte too few from 128 to 255. *)
Utf8Latin(c) ==
  IF c < 256 THEN <<c>>
  ELSE <<224 + (c \div 4096), SixBits(c, 64), SixBits(c, 1)>>

(* The end of utf16_literal_to_utf8. *)
Utf8(c) ==
  IF c < 128 THEN <<c>>
  ELSE IF c < 2048 THEN <<192 + (c \div 64), SixBits(c, 1)>>
  ELSE IF c < 65536 THEN <<224 + (c \div 4096), SixBits(c, 64), SixBits(c, 1)>>
  ELSE <<240 + (c \div 262144), SixBits(c, 4096), SixBits(c, 64), SixBits(c, 1)>>

(* The bytes one or two sequences \uXXXX stand for, and the length of them;  *)
(* length 0 is a failure.                                                    *)
utf16_literal_to_utf8(s, p, end) ==
  LET none == [length |-> 0, bytes |-> <<>>]
      Pair(first, second) ==
        IF second \notin 56320..57343 THEN none
        ELSE [length |-> 12,
              bytes |-> Utf8(65536 + (first - 55296) * 1024 + (second - 56320))]
      From(first) ==
        IF first \in 56320..57343 THEN none
        ELSE IF first \notin 55296..56319 THEN [length |-> 6, bytes |-> Utf8(first)]
        ELSE IF end - p < 12 \/ ~Reads(s, p + 6, <<Backslash, 117>>) THEN none
        ELSE Pair(first, parse_hex4(s, p + 8))
  IN IF end - p < 6 THEN none ELSE From(parse_hex4(s, p + 2))

(* The first pass of parse_string: the closing quote, 0 if there is none,    *)
(* and how many backslashes were skipped on the way.                         *)
RECURSIVE ClosingQuote(_, _, _)
ClosingQuote(s, p, skipped) ==
  IF p > Len(s) THEN [end |-> 0, skipped |-> skipped]
  ELSE IF s[p] = Quote THEN [end |-> p, skipped |-> skipped]
  ELSE IF s[p] = Backslash THEN ClosingQuote(s, p + 2, skipped + 1)
  ELSE ClosingQuote(s, p + 1, skipped)

(* What the letter after a backslash stands for. *)
EscapeOf(b) ==
  CASE b = 98 -> 8 [] b = 102 -> 12 [] b = 110 -> 10 [] b = 114 -> 13
    [] b = 116 -> 9 [] b \in {Quote, Backslash, 47} -> b [] OTHER -> -1

(* The second pass: the bytes from p to the closing quote, unescaped.        *)
RECURSIVE Unescape(_, _, _, _)
Unescape(s, p, end, out) ==
  LET fails == [ok |-> FALSE, out |-> out]
      Utf16(u) == IF u.length = 0 THEN fails
                  ELSE Unescape(s, p + u.length, end, out \o u.bytes)
  IN IF p >= end THEN [ok |-> TRUE, out |-> out]
     ELSE IF s[p] # Backslash THEN Unescape(s, p + 1, end, Append(out, s[p]))
     ELSE IF s[p + 1] = 117 THEN Utf16(utf16_literal_to_utf8(s, p, end))
     ELSE IF EscapeOf(s[p + 1]) = -1 THEN fails
     ELSE Unescape(s, p + 2, end, Append(out, EscapeOf(s[p + 1])))

(* The bytes parse_string allocates for the string that starts at p. *)
Allocated(s, p) ==
  LET quote == ClosingQuote(s, p + 1, 0) IN quote.end - p - quote.skipped + 1

parse_string(s, p) ==
  LET Unescaped(end, string) ==
        IF string.ok THEN Parsed(end + 1, String(CString(string.out))) ELSE Failed
      Until(end) ==
        IF end = 0 THEN Failed ELSE Unescaped(end, Unescape(s, p + 1, end, <<>>))
  IN IF At(s, p, Quote) THEN Until(ClosingQuote(s, p + 1, 0).end) ELSE Failed

------------------------------------------------------------------------------
(* Values *)

RECURSIVE parse_value(_, _, _), parse_elements(_, _, _, _), parse_members(_, _, _, _)

(* The elements from p on, each behind a '[' or a comma; at the end of the   *)
(* list, and only there, stands the bracket.                                 *)
parse_elements(s, p, depth, items) ==
  LET Behind(q, list) ==
        IF At(s, q, Comma) THEN parse_elements(s, q + 1, depth, list)
        ELSE IF At(s, q, 93) THEN Parsed(q + 1, Item("Array", 0, <<>>, list))
        ELSE Failed
      Element(value) ==
        IF ~value.ok THEN Failed
        ELSE Behind(Skip(s, value.at),
                    Append(items, [string |-> <<>>, item |-> value.item]))
  IN Element(parse_value(s, Skip(s, p), depth))

parse_array(s, p, depth) ==
  LET q == Skip(s, p + 1) IN
  IF depth >= NestingLimit THEN Failed
  ELSE IF At(s, q, 93) THEN Parsed(q + 1, Item("Array", 0, <<>>, <<>>))
  ELSE parse_elements(s, q, depth + 1, <<>>)

parse_members(s, p, depth, items) ==
  LET Behind(q, list) ==
        IF At(s, q, Comma) THEN parse_members(s, q + 1, depth, list)
        ELSE IF At(s, q, 125) THEN Parsed(q + 1, Item("Object", 0, <<>>, list))
        ELSE Failed
      Member(name, value) ==
        IF ~value.ok THEN Failed
        ELSE Behind(Skip(s, value.at), Append(items, [string |-> name, item |-> value.item]))
      Named(name, colon) ==
        IF ~name.ok \/ ~At(s, colon, Colon) THEN Failed
        ELSE Member(name.item.valuestring, parse_value(s, Skip(s, colon + 1), depth))
      First(name) == Named(name, Skip(s, name.at))
  IN First(parse_string(s, Skip(s, p)))

parse_object(s, p, depth) ==
  LET q == Skip(s, p + 1) IN
  IF depth >= NestingLimit THEN Failed
  ELSE IF At(s, q, 125) THEN Parsed(q + 1, Item("Object", 0, <<>>, <<>>))
  ELSE parse_members(s, q, depth + 1, <<>>)

parse_value(s, p, depth) ==
  CASE Reads(s, p, null)  -> Parsed(p + 4, Literal("NULL"))
    [] Reads(s, p, false) -> Parsed(p + 5, Literal("False"))
    [] Reads(s, p, true)  -> Parsed(p + 4, Literal("True"))
    [] At(s, p, Quote)    -> parse_string(s, p)
    [] At(s, p, 91)       -> parse_array(s, p, depth)
    [] At(s, p, 123)      -> parse_object(s, p, depth)
    [] p <= Len(s) /\ (s[p] = 45 \/ s[p] \in Digits) -> parse_number(s, p)
    [] OTHER -> Failed

(* What follows the value is not looked at. *)
cJSON_Parse(text) ==
  LET s == CString(text) \o <<0>> IN parse_value(s, Skip(s, SkipBom(s)), 0)

------------------------------------------------------------------------------
(* Fields *)

Lower(b) == IF b \in 65..90 THEN b + 32 ELSE b

SameName(a, b) == Len(a) = Len(b) /\ \A i \in DOMAIN a : Lower(a[i]) = Lower(b[i])

(* Mutant: the last one. *)
cJSON_GetObjectItemLast(item, name) ==
  LET fields == SelectSeq(item.child, LAMBDA c : SameName(c.string, name)) IN
  IF fields = <<>> THEN Nothing ELSE Last(fields).item

(* The first field of that name, whatever the case, or Nothing for NULL.     *)
cJSON_GetObjectItem(item, name) ==
  LET fields == SelectSeq(item.child, LAMBDA c : SameName(c.string, name)) IN
  IF fields = <<>> THEN Nothing ELSE Head(fields).item

------------------------------------------------------------------------------
(* Printing *)

(* The length of the print buffer after ensure was asked for needed bytes at *)
(* offset; 0 is its failure, when the offset has left the buffer.            *)
ensure(length, offset, needed) ==
  IF offset >= length THEN 0
  ELSE IF needed + offset + 1 <= length THEN length ELSE 2 * (needed + offset + 1)

(* A piece is what is written after one call of ensure: its text, the bytes  *)
(* ensure was asked for and the bytes written, with the NUL.                 *)
Piece(needed, text, nul) ==
  << [needed |-> needed, text |-> text, written |-> Len(text) + nul] >>

Number10[n \in Nat] ==
  IF n < 10 THEN <<48 + n>> ELSE Append(Number10[n \div 10], 48 + (n % 10))

print_number(n) ==
  LET text == IF n < 0 THEN <<45>> \o Number10[-n] ELSE Number10[n]
  IN Piece(Len(text) + 1, text, 1)

ShortEscapes == {Quote, Backslash, 8, 9, 10, 12, 13}

(* Mutant: a backslash stays as it is. *)
EscapedNoBackslash(b) ==
  IF b = Quote THEN <<Backslash, b>>
  ELSE IF b < 32 THEN <<Backslash, 117, 48, 48, HexChar(b \div 16), HexChar(b % 16)>>
  ELSE <<b>>

(* What one byte becomes. *)
Escaped(b) ==
  CASE b \in {Quote, Backslash} -> <<Backslash, b>>
    [] b = 8  -> <<Backslash, 98>>  [] b = 9  -> <<Backslash, 116>>
    [] b = 10 -> <<Backslash, 110>> [] b = 12 -> <<Backslash, 102>>
    [] b = 13 -> <<Backslash, 114>>
    [] b < 32 /\ b \notin ShortEscapes ->
         <<Backslash, 117, 48, 48, HexChar(b \div 16), HexChar(b % 16)>>
    [] OTHER -> <<b>>

(* Mutant: four more for \u00XX. *)
EscapeCharactersFour(b) ==
  IF b \in ShortEscapes THEN 1 ELSE IF b < 32 THEN 4 ELSE 0

(* escape_characters: how many more bytes than that a byte is counted for.   *)
EscapeCharacters(b) ==
  IF b \in ShortEscapes THEN 1 ELSE IF b < 32 THEN 5 ELSE 0

(* The closing quote stands where the counted length puts it.                *)
print_string_ptr(str) ==
  LET length == FoldLeft(LAMBDA n, b : n + 1 + EscapeCharacters(b), 0, str)
      body == FlattenSeq([i \in DOMAIN str |-> Escaped(str[i])])
      text == [i \in 1..(length + 2) |->
                 IF i \in {1, length + 2} THEN Quote
                 ELSE IF i - 1 <= Len(body) THEN body[i - 1] ELSE 0]
  IN << [needed |-> length + 3, text |-> text,
         written |-> Max({length + 3, Len(body) + 1})] >>

Tabs(n) == [i \in 1..n |-> Tab]

RECURSIVE print_value(_, _, _)

(* format: the formatted text has a space behind the comma. *)
print_array(item, depth, format) ==
  LET last == Len(item.child)
      comma == IF format THEN <<Comma, Space>> ELSE <<Comma>>
  IN Piece(1, <<91>>, 0)
     \o FlattenSeq([i \in 1..last |->
          print_value(item.child[i].item, depth + 1, format)
          \o IF i < last THEN Piece(Len(comma) + 1, comma, 1) ELSE <<>>])
     \o Piece(2, <<93>>, 1)

(* format: every member on a line of its own, behind as many tabs as it is   *)
(* deep.                                                                     *)
print_object(item, depth, format) ==
  LET last == Len(item.child)
      If(bytes) == IF format THEN bytes ELSE <<>>
      open == <<123>> \o If(<<Newline>>)
      colon == <<Colon>> \o If(<<Tab>>)
      end(i) == (IF i < last THEN <<Comma>> ELSE <<>>) \o If(<<Newline>>)
  IN Piece(Len(open) + 1, open, 0)
     \o FlattenSeq([i \in 1..last |->
             (IF format THEN Piece(depth + 1, Tabs(depth + 1), 0) ELSE <<>>)
          \o print_string_ptr(item.child[i].string)
          \o Piece(Len(colon), colon, 0)
          \o print_value(item.child[i].item, depth + 1, format)
          \o Piece(Len(end(i)) + 1, end(i), 1)])
     \o Piece(IF format THEN depth + 2 ELSE 2, If(Tabs(depth)) \o <<125>>, 1)

print_value(item, depth, format) ==
  CASE item.type = "NULL"   -> Piece(5, null, 1)
    [] item.type = "False"  -> Piece(6, false, 1)
    [] item.type = "True"   -> Piece(5, true, 1)
    [] item.type = "Number" -> print_number(item.valueint)
    [] item.type = "String" -> print_string_ptr(item.valuestring)
    [] item.type = "Array"  -> print_array(item, depth, format)
    [] item.type = "Object" -> print_object(item, depth, format)

(* The buffer after the pieces were written into it one behind the other,    *)
(* and whether each found room for all it writes.                            *)
print(pieces) ==
  LET Write(buffer, piece) ==
        LET length == ensure(buffer.length, buffer.offset, piece.needed)
        IN [length |-> length,
            offset |-> buffer.offset + Len(piece.text),
            fits   |-> buffer.fits /\ buffer.offset + piece.written <= length]
  IN FoldLeft(Write, [length |-> default_buffer_size, offset |-> 0, fits |-> TRUE], pieces)

Text(pieces) == FlattenSeq([i \in DOMAIN pieces |-> pieces[i].text])

cJSON_Print(item) == Text(print_value(item, 0, TRUE))
cJSON_PrintUnformatted(item) == Text(print_value(item, 0, FALSE))
============================================================================
