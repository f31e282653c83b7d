----------------------------- MODULE MessageBytes -----------------------------
(***************************************************************************)
(* The bytes of a message, as up_buffer and down_buffer hold them and      *)
(* app_message.c takes them apart and puts them together, and the AT frame *)
(* that app_bt_preWrite makes of them for the bluetooth module.            *)
(***************************************************************************)
EXTENDS HexDigits

CONSTANT DataSize   (* of data_buffer in app_device.c: 125 *)

ASSUME DataSizeAssumption == DataSize \in 3..255

(* conn_type, id_len, msg_len, id, msg *)
Message(conn_type, id, msg) == <<conn_type, Len(id), Len(msg)>> \o id \o msg

(* Nothing is missing of the message at the start of chars. *)
Complete(chars) == Len(chars) >= 3 /\ Len(chars) >= 3 + chars[2] + chars[3]

IdOf(chars) == SubSeq(chars, 4, 3 + chars[2])

MsgOf(chars) == SubSeq(chars, 4 + chars[2], 3 + chars[2] + chars[3])

------------------------------------------------------------------------------
(* The AT frame *)

ATMesh == <<65, 84, 43, 77, 69, 83, 72, 0>>

(* Byte i of data_buffer, which was cleared before chars were read into it.  *)
DataByte(chars, i) ==
  IF i <= Len(chars) THEN chars[i] ELSE IF i <= DataSize THEN 0 ELSE Unknown

(* The frame, or none for less than six bytes.  The id is taken for two      *)
(* bytes whatever id_len says.                                               *)
app_bt_preWrite(chars) ==
  IF Len(chars) < 6 THEN <<>>
  ELSE ATMesh \o <<chars[4], chars[5]>>
              \o [i \in 1..chars[3] |-> DataByte(chars, 5 + i)]
              \o <<13, 10>>
===============================================================================
