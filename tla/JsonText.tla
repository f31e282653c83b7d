------------------------------ MODULE JsonText ------------------------------
(***************************************************************************)
(* What a JSON text means, by its grammar: the reference for CJson.  Every *)
(* sequence of bytes has a set of items, with one member if the bytes are  *)
(* a JSON value and none otherwise; nothing here scans from left to right. *)
(* Strings are C strings, and every byte up to a space is white space, as  *)
(* in cJSON.                                                               *)
(***************************************************************************)
EXTENDS CJson

Between(s, i, j) == SubSeq(s, i, j)

(* s without the white space around it. *)
Trim(s) ==
  LET solid == {i \in DOMAIN s : s[i] > 32} IN
  IF solid = {} THEN <<>> ELSE Between(s, Min(solid), Max(solid))

(* Code point n, its bits six by six behind a first byte that tells how many *)
(* bytes follow it.                                                          *)
Encoding(n) ==
  LET more == Cardinality({k \in {128, 2048, 65536} : n >= k}) IN
  [i \in 1..(more + 1) |->
     IF i = 1 THEN <<0, 192, 224, 240>>[more + 1] + (n \div 64 ^ more)
     ELSE 128 + ((n \div 64 ^ (more + 1 - i)) % 64)]

(* The four digits at t[i] as a number. *)
Code(t, i) == FoldLeft(LAMBDA n, b : 16 * n + HexDigit(b), 0, Between(t, i, i + 3))

IsEscape(t, i) ==
  Reads(t, i, <<Backslash, 117>>) /\ \A k \in (i + 2)..(i + 5) : HexDigit(t[k]) >= 0

High == 55296..56319
Low == 56320..57343

(* What t stands for as one character of a string. *)
Character(t) ==
  CASE Len(t) = 1 -> {t} \ {<<Quote>>, <<Backslash>>}
    [] Len(t) = 2 -> IF t[1] = Backslash THEN {<<EscapeOf(t[2])>>} \ {<<-1>>} ELSE {}
    [] Len(t) = 6 -> IF IsEscape(t, 1) /\ Code(t, 3) \notin High \cup Low
                     THEN {Encoding(Code(t, 3))} ELSE {}
    [] Len(t) = 12 ->
         IF /\ IsEscape(t, 1) /\ Code(t, 3) \in High
            /\ IsEscape(t, 7) /\ Code(t, 9) \in Low
         THEN {Encoding(65536 + (Code(t, 3) % 1024) * 1024 + (Code(t, 9) % 1024))} ELSE {}

RECURSIVE Characters(_)
Characters(t) ==
  IF t = <<>> THEN {<<>>}
  ELSE UNION {{c \o rest : c \in Character(Between(t, 1, n)),
                           rest \in Characters(Between(t, n + 1, Len(t)))}
              : n \in {k \in {1, 2, 6, 12} : k <= Len(t) /\ Character(Between(t, 1, k)) # {}}}

(* s between a first and a last byte. *)
Enclosed(s, first, last) == Len(s) >= 2 /\ s[1] = first /\ s[Len(s)] = last
Inside(s) == Between(s, 2, Len(s) - 1)

Strings(s) ==
  IF Enclosed(s, Quote, Quote) THEN {CString(c) : c \in Characters(Inside(s))} ELSE {}

Numerals(t) == IF t # <<>> /\ \A i \in DOMAIN t : t[i] \in Digits THEN {Decimal(t)} ELSE {}

Numbers(s) ==
  Numerals(s) \cup (IF At(s, 1, 45) THEN {-n : n \in Numerals(Tail(s))} ELSE {})

RECURSIVE Values(_, _), Children(_, _, _)

(* The members (named) or elements s lists, parted by commas. *)
Children(s, depth, named) ==
  LET Child(t) ==
        IF named
        THEN UNION {{[string |-> k, item |-> v] :
                       k \in Strings(Trim(Between(t, 1, i - 1))),
                       v \in Values(Trim(Between(t, i + 1, Len(t))), depth)}
                    : i \in {j \in DOMAIN t : t[j] = Colon}}
        ELSE {[string |-> <<>>, item |-> v] : v \in Values(Trim(t), depth)}
  IN {<<c>> : c \in Child(s)}
     \cup UNION {{<<c>> \o l : c \in Child(Between(s, 1, i - 1)),
                               l \in Children(Between(s, i + 1, Len(s)), depth, named)}
                 : i \in {j \in DOMAIN s : s[j] = Comma}}

(* The values of s with at most depth arrays and objects around each other.  *)
Values(s, depth) ==
  {Literal(l[2]) : l \in {k \in {<<null, "NULL">>, <<false, "False">>, <<true, "True">>} :
                            k[1] = s}}
  \cup {String(t) : t \in Strings(s)}
  \cup {Number(n) : n \in Numbers(s)}
  \cup UNION {
    IF depth > 0 /\ Enclosed(s, b[1], b[2])
    THEN {Item(b[3], 0, <<>>, c) :
            c \in (IF Trim(Inside(s)) = <<>> THEN {<<>>} ELSE {})
                  \cup Children(Inside(s), depth - 1, b[3] = "Object")}
    ELSE {} : b \in {<<91, 93, "Array">>, <<123, 125, "Object">>}}

(* The values of a text, with a byte order mark in front or without.         *)
Meaning(text) ==
  Values(Trim(Between(text, SkipBom(Append(text, 0)), Len(text))), NestingLimit)
============================================================================
