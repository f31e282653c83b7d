------------------------------ MODULE HexDigits ------------------------------
(***************************************************************************)
(* Bytes and hexadecimal digits: app/app_common.c, and the digits of       *)
(* cJSON.c.  Digits are bytes, as in the texts they stand in.              *)
(***************************************************************************)
EXTENDS Integers, Sequences

Digits == 48..57

(* A byte nobody wrote. *)
Unknown == -1

HexChar(n) == IF n < 10 THEN 48 + n ELSE 87 + n

HexDigit(b) ==
  IF b \in Digits THEN b - 48
  ELSE IF b \in 65..70 THEN b - 55
  ELSE IF b \in 97..102 THEN b - 87 ELSE -1

(* Mutant: %2x for %02x. *)
app_common_chars2hexSpaced(chars, signed) ==
  [k \in 1..(2 * Len(chars)) |->
     LET b == chars[(k + 1) \div 2]
     IN IF signed /\ b > 127 THEN HexChar(15)
        ELSE IF k % 2 = 1 THEN (IF b < 16 THEN 32 ELSE HexChar(b \div 16))
        ELSE HexChar(b % 16)]

(* signed: whether char is, which the compiler decides.  sprintf then prints *)
(* eight digits for a negative char, the next one goes over the last six,    *)
(* and those behind the last byte are outside of the array.                  *)
app_common_chars2hex(chars, signed) ==
  [k \in 1..(2 * Len(chars)) |->
     LET b == chars[(k + 1) \div 2]
     IN HexChar(IF signed /\ b > 127 THEN 15 ELSE IF k % 2 = 1 THEN b \div 16 ELSE b % 16)]

(* What sscanf makes of anything but two digits is left open.                *)
app_common_hex2chars(hex) ==
  [i \in 1..(Len(hex) \div 2) |->
     LET high == HexDigit(hex[2 * i - 1])
         low == HexDigit(hex[2 * i])
     IN IF high >= 0 /\ low >= 0 THEN 16 * high + low ELSE Unknown]
==============================================================================
