--------------------------- MODULE MCMessageCodec ---------------------------
(***************************************************************************)
(* The codec over bounded inputs.  A behaviour grows one input, piece by   *)
(* piece: any bytes for cJSON_Parse ("text"), the inside of a string       *)
(* ("string"), a message as it comes from up_buffer ("message") and the    *)
(* members of an object the broker sends ("command").                      *)
(***************************************************************************)
EXTENDS MessageCodec

G == INSTANCE JsonText

VARIABLES kind, pieces, signed

vars == <<kind, pieces, signed>>

Quoted(b) == <<Quote>> \o b \o <<Quote>>

Member(name, value) == [name |-> name, value |-> value]

(* The digits 61, 62, ... of n bytes. *)
Hex(n) == [i \in 1..(2 * n) |-> IF i % 2 = 1 THEN 54 ELSE 48 + ((i \div 2) % 10)]

(* text: { } [ [[ ] , " space 1 - "m": null and the byte order mark.         *)
(* string: a " \ \u n, a control character, 00, 00e9, d83d and de00.         *)
Pieces == [
  text |-> {<<123>>, <<125>>, <<91>>, <<91, 91>>, <<93>>, <<Comma>>, <<Quote>>, <<Space>>, <<49>>,
            <<45>>, Quoted(<<109>>) \o <<Colon>>, null, <<239, 187, 191>>},
  string |-> {<<97>>, <<Quote>>, <<Backslash>>, <<Backslash, 117>>, <<110>>, <<31>>,
              <<48, 48>>, <<48, 48, 101, 57>>, <<100, 56, 51, 100>>, <<100, 101, 48, 48>>},
  message |-> {<<0>>, <<1>>, <<2>>, <<65>>, <<200>>},
  command |-> {Member(Name.conn_type, <<49>>), Member(Name.conn_type, <<51, 48, 48>>),
               Member(Name.conn_type, null),
               Member(Name.id, Quoted(Hex(2))), Member(<<73, 68>>, Quoted(Hex(1))),
               Member(Name.id, <<49>>),
               Member(Name.msg, Quoted(<<>>)), Member(Name.msg, Quoted(<<54, 103, 54>>)),
               Member(Name.msg, Quoted(Hex(5))), Member(Name.msg, Quoted(Hex(12))),
               Member(Name.msg, Quoted(Hex(13)))}]

MaxPieces == [text |-> 5, string |-> 5, message |-> 6, command |-> 4]

Init ==
  /\ kind \in DOMAIN Pieces
  /\ pieces = <<>>
  /\ signed \in BOOLEAN
  /\ kind # "message" => ~signed

Grow ==
  /\ Len(pieces) < MaxPieces[kind]
  /\ \E p \in Pieces[kind] : pieces' = Append(pieces, p)
  /\ UNCHANGED <<kind, signed>>

Spec == Init /\ [][Grow]_vars

bytes == FlattenSeq(pieces)

text ==
  CASE kind = "text"   -> bytes
    [] kind = "string" -> Quoted(bytes)
    [] kind = "command" ->
         <<123>> \o FlattenSeq([i \in DOMAIN pieces |->
                      (IF i > 1 THEN <<Comma>> ELSE <<>>)
                      \o Quoted(pieces[i].name) \o <<Colon>> \o pieces[i].value])
         \o <<125>>

(* Every \u has its four digits: what cJSON reads otherwise is no JSON.      *)
DigitsThere ==
  \A i \in DOMAIN text : Reads(text, i, <<Backslash, 117>>) =>
    i + 5 <= Len(text) /\ G!IsEscape(text, i)

(* cJSON_Parse (cJSON.c:1101) accepts every JSON text with the value the     *)
(* grammar gives it; and a text it accepts begins with a JSON value, the one *)
(* it returns, whatever stands behind it: no escape, surrogate pair, comma   *)
(* or bracket is taken for another.                                          *)
ParsesGrammar ==
  kind \in {"text", "string"} => \A parsed \in {cJSON_Parse(text)} :
    /\ \A v \in G!Meaning(text) : parsed.ok /\ parsed.item = v
    /\ parsed.ok /\ DigitsThere =>
         G!Meaning(SubSeq(text, 1, parsed.at - 1)) = {parsed.item}

(* What cJSON_Print and cJSON_PrintUnformatted (1258, 1263) write is read    *)
(* back by cJSON_Parse as the value that was printed.                        *)
PrintParses ==
  kind \in {"text", "string"} => \A parsed \in {cJSON_Parse(text)} :
    parsed.ok =>
      \A printed \in {cJSON_Print(parsed.item), cJSON_PrintUnformatted(parsed.item)} :
        cJSON_Parse(printed) = Parsed(Len(printed) + 1, parsed.item)

(* Nothing is written behind the memory that is there: by a print function   *)
(* behind what it passed to ensure, nor behind the buffer as ensure has      *)
(* grown it (445), by parse_string behind the length it counted and the NUL  *)
(* (779-826).                                                                *)
NoOverrun ==
  kind \in {"text", "string"} =>
    /\ \A parsed \in {cJSON_Parse(text)} : parsed.ok =>
         \A printed \in {print_value(parsed.item, 0, format) : format \in BOOLEAN} :
           print(printed).fits /\ \A p \in Range(printed) : p.written <= p.needed
    /\ \A p \in DOMAIN text : text[p] = Quote =>
         \A end \in {ClosingQuote(text, p + 1, 0).end} \ {0} :
           Len(Unescape(text, p + 1, end, <<>>).out) < Allocated(text, p)

(* A message that is complete comes back from its JSON text byte for byte,   *)
(* without what followed it; an incomplete one has no text                   *)
(* (app_message.c:17, 41, 53-81).  With a signed char every byte from 128 on *)
(* comes back as 255 (app_common.c:30).                                      *)
MessageRoundTrip ==
  kind = "message" =>
    LET need == 3 + bytes[2] + bytes[3]
        heard(i) == IF signed /\ i > 3 /\ bytes[i] > 127 THEN 255 ELSE bytes[i]
        json == app_message_chars2Json(bytes, signed)
    IN IF Len(bytes) < 3 THEN json = <<>>
       ELSE IF Len(bytes) < need THEN json = <<>>
       ELSE app_message_json2Chars(json, DataSize) =
              [result |-> "ok", chars |-> [i \in 1..need |-> heard(i)]]

(* The value of a field of the command: that of the first member which has   *)
(* its name in any case.                                                     *)
Field(name) ==
  LET is(i) == SameName(pieces[i].name, name)
      at == {i \in DOMAIN pieces : is(i)}
  IN IF at = {} THEN <<>> ELSE pieces[Min(at)].value

(* A command reaches the module as the frame of its first id and msg, byte   *)
(* for byte, if they are strings of digits of which two make the id and      *)
(* fewer than the array holds the msg; without one of the three fields, or   *)
(* without a string in id or msg, app dies (app_message.c:53-55,             *)
(* app_bt.c:77-105).                                                         *)
CommandIsFramed ==
  kind = "command" =>
    LET id == Field(Name.id)
        msg == Field(Name.msg)
        strings == \A v \in {id, msg} : v # <<>> /\ v[1] = Quote
    IN \A command \in {app_message_json2Chars(text, DataSize)} :
       \A frame \in {app_bt_preWrite(command.chars)} :
       /\ (command.result = "crash") <=> Field(Name.conn_type) = <<>> \/ ~strings
       /\ command.result = "short" => Len(id) + Len(msg) - 4 > 2 * (DataSize - 3)
       /\ command.result = "ok" /\ id = Quoted(Hex(2)) /\ Len(msg) > 3
            /\ msg # Quoted(<<54, 103, 54>>) =>
            /\ SubSeq(frame, 1, 10) = ATMesh \o <<97, 98>>
            /\ app_common_chars2hex(SubSeq(frame, 11, Len(frame) - 2), FALSE) = G!Inside(msg)
            /\ SubSeq(frame, Len(frame) - 1, Len(frame)) = <<13, 10>>
=============================================================================
