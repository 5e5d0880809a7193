------------------------------- MODULE Protoc -------------------------------
(* The wire format of XChaty (XChatyUtilty/Protoc.h, msgType.h, baseMsg.h,    *)
(* UserModel.h).                                                              *)
(*                                                                            *)
(* A QDataStream writes the fields of a message one after the other, with no  *)
(* length or delimiter around the message.  A field is one cell here: the     *)
(* request type (one byte), a string, the text of a chat line, an integer.    *)
(* Strings other than the chat text are all alike.  A cell that a TCP read    *)
(* cut in two leaves a "frag" at the end of one chunk and at the start of the *)
(* next.                                                                      *)
EXTENDS Integers, Sequences

RequestType == {"REQ_LOGIN", "REQ_REGIST", "REQ_CHAT", "REQ_SEND_FILE",
                "REQ_DEFAULT", "REQ_HB"}

(* Chat texts are the positive integers.  NoText is the empty QString that a  *)
(* short read leaves, Garbled any string made of bytes that were not a text.  *)
NoText  == 0
Garbled == -1
Text    == Int

Cell == [kind : {"type", "str", "text", "int", "frag"},
         type : RequestType, text : Text]

TypeCell(t) == [kind |-> "type", type |-> t, text |-> NoText]
TextCell(n) == [kind |-> "text", type |-> "REQ_DEFAULT", text |-> n]
Other(k)    == [kind |-> k, type |-> "REQ_DEFAULT", text |-> NoText]
Frag        == Other("frag")

(* operator<< of chatyHead, ChatyMessage, ClientMessage and User: the type    *)
(* and the time, then the body that the type selects.                         *)
Body(type, text) ==
  CASE type \in {"REQ_LOGIN", "REQ_REGIST"}
         -> << Other("str"), Other("str"), Other("str") >>
    [] type = "REQ_CHAT"
         -> << Other("str"), TextCell(text), Other("int") >>
    [] OTHER -> << >>

Serrialize(type, text) == << TypeCell(type), Other("str") >> \o Body(type, text)

(* The types that the first byte of a chunk can be taken for.  A length is    *)
(* big-endian and short, the only room is 0: their first byte is 0, which is  *)
(* REQ_LOGIN.  The rest of a cut cell can begin with any byte.                *)
TypesRead(first) ==
  CASE first.kind = "type" -> {first.type}
    [] first.kind = "frag" -> RequestType
    [] OTHER               -> {"REQ_LOGIN"}

(* operator>> and DeSerrialize: a set, because a chunk that does not start    *)
(* with a message can decode as anything.  The decoder never looks past the   *)
(* first message and never reports that the stream ran out: a field that is   *)
(* not wholly there keeps its default.                                        *)
DeSerrialize(chunk) ==
  LET Result(type, text) ==
        [type |-> type,
         body |-> type \in {"REQ_LOGIN", "REQ_REGIST", "REQ_CHAT"},
         text |-> IF type = "REQ_CHAT" THEN text ELSE NoText]
  IN  IF chunk[1].kind = "type"
        THEN { Result(chunk[1].type,
                      IF Len(chunk) >= 4 THEN chunk[4].text ELSE NoText) }
        ELSE { Result(type, Garbled) : type \in TypesRead(chunk[1]) }
=============================================================================
