------------------------------ MODULE ClientMsg ------------------------------
(***************************************************************************)
(* client/client.c: what the server makes of the bytes one read() returned. *)
(* A JSON text is a record of the facts the parser branches on:             *)
(*   json      it parses at all                                            *)
(*   typed     it has a numeric "msgtype", whose value is msgtype          *)
(*   sensor    it has a "sensor_data" object                               *)
(*   cfg       it has a "cfg" object                                       *)
(*   username, passwd   the strings of cfg; the empty sequence stands for a *)
(*                      key that is missing, not a string, or ""           *)
(*   cheat     its "cheat" object is absent, partial (a field is missing)  *)
(*             or full                                                     *)
(*   target    the "target_username" of a full one                         *)
(* Strings are sequences of characters, because they are cut to the size of *)
(* the fields of ele_client_devinfo_t.                                      *)
(***************************************************************************)
EXTENDS Integers, Sequences

CONSTANTS
  Chars,           \* the characters names and passwords are made of
  USER_NAME_SIZE   \* bytes of a name or password field, the NUL included

ASSUME FieldSizeAssumption == USER_NAME_SIZE \in Nat \ {0}

(* ele_msg_type_t: the values the server tells apart.                      *)
EMT_CLIENTMSG_SUCCESS == 0
EMT_CLIENTMSG_INFO    == 2
EMT_CLIENTMSG_CHEAT   == 3

Strings == Seq(Chars)

Docs == [json: BOOLEAN, typed: BOOLEAN, msgtype: Int, sensor: BOOLEAN,
         cfg: BOOLEAN, username: Strings, passwd: Strings,
         cheat: {"absent", "partial", "full"}, target: Strings]

(* strncpy into a field and a NUL at its last byte; first strcpy.           *)
FieldUncut(s) == s

Field(s) == IF Len(s) < USER_NAME_SIZE THEN s
                                       ELSE SubSeq(s, 1, USER_NAME_SIZE - 1)

(* A reference to a field of a partial "cheat" object dereferences NULL.   *)
ParserFaults(doc) == /\ doc.json /\ doc.typed
                     /\ doc.msgtype = EMT_CLIENTMSG_CHEAT
                     /\ doc.cheat = "partial"

(* client_analysis_infomsg: sensor data first, then the configuration.     *)
AnalysisInfoRet(doc) == IF ~doc.sensor THEN -1
                        ELSE IF ~doc.cfg THEN -2 ELSE 0

(* client_deserialize_from_json: the return code ...                       *)
DeserializeRet(doc) ==
  CASE ~doc.json  -> -2
    [] doc.json /\ ~doc.typed -> -3
    [] OTHER ->
       CASE doc.msgtype = EMT_CLIENTMSG_INFO ->
              IF AnalysisInfoRet(doc) # 0 THEN -4 ELSE doc.msgtype
         [] doc.msgtype = EMT_CLIENTMSG_CHEAT ->
              IF doc.cheat = "absent" THEN -5 ELSE doc.msgtype
         [] OTHER -> -6

(* client_analysis_cheatmsg: the name a chat message is for.               *)
Target(doc) ==
  IF /\ doc.json /\ doc.typed
     /\ doc.msgtype = EMT_CLIENTMSG_CHEAT /\ doc.cheat = "full"
    THEN Field(doc.target) ELSE << >>

(* ... and the ele_msg_t it fills. The caller zeroes the structure, so that *)
(* a text rejected early leaves the type EMT_CLIENTMSG_SUCCESS and a text   *)
(* rejected late leaves its own type with empty fields. The first form keeps *)
(* what was parsed before the rejection.                                    *)
DeserializeRegardless(doc) ==
  LET typed  == doc.json /\ doc.typed
      filled == typed /\ doc.msgtype = EMT_CLIENTMSG_INFO
  IN [msgtype  |-> IF typed THEN doc.msgtype ELSE EMT_CLIENTMSG_SUCCESS,
      username |-> IF filled THEN Field(doc.username) ELSE << >>,
      passwd   |-> IF filled THEN Field(doc.passwd) ELSE << >>,
      target   |-> Target(doc)]

Deserialize(doc) ==
  LET typed  == doc.json /\ doc.typed
      filled == /\ typed /\ doc.msgtype = EMT_CLIENTMSG_INFO
                /\ AnalysisInfoRet(doc) = 0
  IN [msgtype  |-> IF typed THEN doc.msgtype ELSE EMT_CLIENTMSG_SUCCESS,
      username |-> IF filled THEN Field(doc.username) ELSE << >>,
      passwd   |-> IF filled THEN Field(doc.passwd) ELSE << >>,
      target   |-> Target(doc)]

(* client_event_handler: 0, or -2 for every text the parser rejects.       *)
ClientEventHandler(doc) == IF DeserializeRet(doc) < 0 THEN -2 ELSE 0
==============================================================================
