---------------------------- MODULE OscarMessage ----------------------------
(***************************************************************************)
(* liboscar's class Message: what pack() writes for each of the three      *)
(* channels, and what parse() makes of a message that the server relays.   *)
(* A message on the wire is a header and a sequence of TLVs; a TLV is a    *)
(* record with its type and the fields the code reads of it.               *)
(*                                                                         *)
(* A text is the number the application gave it, and its form: "latin"     *)
(* when ISO-8859-1 has all its characters, else "wide"; "garbled" is what  *)
(* remains of a wide text that was written with one byte a character.      *)
(***************************************************************************)
EXTENDS Naturals, Sequences, SequencesExt

MessageTypes ==
  <<"PLAIN", "CHAT", "FILEREQ", "URL", "AUTHREQ", "AUTHDENY", "AUTHOK", "SERVER", "ADDED",
    "WWP", "EEXPRESS", "CONTACTS", "PLUGIN", "AUTOAWAY", "AUTOBUSY", "AUTONA", "AUTODND",
    "AUTOFFC">>

TypeBytes == <<1, 2, 3, 4, 6, 7, 8, 9, 12, 13, 14, 19, 26, 232, 233, 234, 235, 236>>

typeToByte(type) == TypeBytes[SelectInSeq(MessageTypes, LAMBDA t : t = type)]

\* A byte of no type is read as TYPE_PLAIN.
byteToType(byte) ==
  LET i == SelectInSeq(TypeBytes, LAMBDA b : b = byte) IN
  IF i = 0 THEN "PLAIN" ELSE MessageTypes[i]

\* type >= TYPE_AUTOAWAY, in the order of the enumeration.
IsAuto(type) == type \in {"AUTOAWAY", "AUTOBUSY", "AUTONA", "AUTODND", "AUTOFFC"}

NoText == [nr |-> 0, form |-> "latin"]

\* Message::Message
NewMessage(to) ==
  [uin |-> to, format |-> 1, text |-> NoText, encoding |-> "ASCII", type |-> "PLAIN",
   cookie |-> 0, request |-> "REQUEST"]

-----------------------------------------------------------------------------
(* pack *)

Latin(text) == [text EXCEPT !.form = IF @ = "latin" THEN @ ELSE "garbled"]

packCh1(m) ==
  [type |-> 2, encoding |-> m.encoding,
   text |-> IF m.encoding = "UCS2BE" THEN m.text ELSE Latin(m.text)]

\* Every message of channel 2 has the capability of file transfers; only a request has
\* TLV 0x2711, of a file or of a message.
packCh2(m) ==
  [type |-> 5, request |-> m.request, capability |-> "file",
   inner |-> CASE m.request # "REQUEST" -> [of |-> "nothing"]
               [] m.request = "REQUEST" /\ m.type = "FILEREQ" -> [of |-> "file"]
               [] OTHER -> [of |-> "message", byte |-> typeToByte(m.type), text |-> Latin(m.text)]]

packCh4(m) == [type |-> 5, byte |-> typeToByte(m.type), text |-> Latin(m.text)]

\* All but the messages of file transfers ask the server to keep them for a user who is away.
pack(m) ==
  [cookie |-> m.cookie, format |-> m.format, storage |-> m.type # "FILEREQ",
   tlvs |-> <<CASE m.format = 1 -> packCh1(m) [] m.format = 2 -> packCh2(m)
                [] m.format = 4 -> packCh4(m)>>]

-----------------------------------------------------------------------------
(* parse, of a message from the user in the header that the server writes *)

\* TLVs before the one that is looked for are skipped.
Skip(tlvs, types) == tlvs[SelectInSeq(tlvs, LAMBDA t : t.type \in types)]

\* A TLV 4 says that the next one is an automatic answer.
parseCh1(m, tlvs) ==
  LET tlv == Skip(tlvs, {2}) IN
  [m EXCEPT !.type = IF Skip(tlvs, {2, 4}).type = 4 THEN "AUTOAWAY" ELSE "PLAIN",
            !.encoding = tlv.encoding, !.text = tlv.text]

\* Mutant: the capability of a request that has a message is not looked at.
parseCh2OfInner(m, tlvs) ==
  LET tlv == Skip(tlvs, {5})
      asked == [m EXCEPT !.request = tlv.request] IN
  IF tlv.inner.of = "message"
  THEN [asked EXCEPT !.type = byteToType(tlv.inner.byte), !.text = tlv.inner.text]
  ELSE [asked EXCEPT !.type = "FILEREQ"]

\* The capability decides how TLV 0x2711 is read: that of a file has no message.
parseCh2(m, tlvs) ==
  LET tlv == Skip(tlvs, {5})
      asked == [m EXCEPT !.request = tlv.request] IN
  IF tlv.capability = "file" THEN [asked EXCEPT !.type = "FILEREQ"]
  ELSE IF tlv.inner.of = "message"
       THEN [asked EXCEPT !.type = byteToType(tlv.inner.byte), !.text = tlv.inner.text]
       ELSE asked

\* The first TLV is taken for the message.
parseCh4(m, tlvs) ==
  [m EXCEPT !.type = byteToType(Head(tlvs).byte), !.text = Head(tlvs).text]

parse(wire, from) ==
  LET m == [NewMessage(from) EXCEPT !.cookie = wire.cookie, !.format = wire.format] IN
  CASE wire.format = 1 -> parseCh1(m, wire.tlvs)
    [] wire.format = 2 -> parseCh2(m, wire.tlvs)
    [] wire.format = 4 -> parseCh4(m, wire.tlvs)
=============================================================================
