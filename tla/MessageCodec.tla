---------------------------- MODULE MessageCodec ----------------------------
(***************************************************************************)
(* The conversions of a message on its way through the gateway: the bytes  *)
(* conn_type, id_len, msg_len, id, msg of up_buffer and down_buffer, the   *)
(* JSON text of the broker (app_message.c, cJSON.c) and back.              *)
(***************************************************************************)
EXTENDS CJson, MessageBytes

Name == [conn_type |-> <<99, 111, 110, 110, 95, 116, 121, 112, 101>>,
         id |-> <<105, 100>>, msg |-> <<109, 115, 103>>]

Root(conn_type, idhex, msghex) ==
  Item("Object", 0, <<>>, << [string |-> Name.conn_type, item |-> Number(conn_type)],
                             [string |-> Name.id, item |-> String(idhex)],
                             [string |-> Name.msg, item |-> String(msghex)] >>)

(* The JSON text, or none if the message is not complete.                    *)
app_message_chars2Json(chars, signed) ==
  IF ~Complete(chars) THEN <<>>
  ELSE cJSON_PrintUnformatted(Root(chars[1], app_common_chars2hex(IdOf(chars), signed),
                                   app_common_chars2hex(MsgOf(chars), signed)))

(* "ok" with the bytes; "short" if they do not fit; "crash" where a null     *)
(* pointer is followed: no JSON, no such field, no string.                   *)
app_message_json2Chars(json, buffer_size) ==
  LET Fitting(chars) ==
        IF Len(chars) > buffer_size THEN [result |-> "short", chars |-> <<>>]
        ELSE [result |-> "ok", chars |-> chars]
      Chars(conn_type, id, msg) ==
        IF conn_type = Nothing \/ id.type # "String" \/ msg.type # "String"
        THEN [result |-> "crash", chars |-> <<>>]
        ELSE Fitting(Message(conn_type.valueint % 256,
                             app_common_hex2chars(id.valuestring),
                             app_common_hex2chars(msg.valuestring)))
      Fields(root) ==
        Chars(cJSON_GetObjectItem(root, Name.conn_type),
              cJSON_GetObjectItem(root, Name.id), cJSON_GetObjectItem(root, Name.msg))
  IN Fields(cJSON_Parse(json).item)
============================================================================
