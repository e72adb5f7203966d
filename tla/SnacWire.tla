------------------------------ MODULE SnacWire ------------------------------
(***************************************************************************)
(* The wire formats of liboscar: what class Buffer and the TLVs write and  *)
(* read, the SNACs that a client sends, and what each SNAC of the server   *)
(* is read as.  A buffer is a sequence of bytes; reading yields what was   *)
(* read and the rest.  A SNAC that is read is an entry: its name and the   *)
(* fields of it that the class keeps.                                      *)
(***************************************************************************)
EXTENDS Integers, Sequences, SequencesExt, Bitwise, OscarMessage, StatusTLV

(* Buffer: numbers, strings and cursors *)

Word(w) == <<w \div 256, w % 256>>
LWord(w) == <<w % 256, w \div 256>>

\* A double word is the pair of its words, the high one first.
DWord(d) == Word(d[1]) \o Word(d[2])
LDWord(d) == LWord(d[2]) \o LWord(d[1])

getWord(b) == b[1] * 256 + b[2]

Take(b, n) == SubSeq(b, 1, IF n < Len(b) THEN n ELSE Len(b))

\* advance
After(b, n) == SubSeq(b, n + 1, Len(b))

Got(what, rest) == [is |-> what, rest |-> rest]

\* What was read, taken for something else.
GotAs(As(_), r) == Got(As(r.is), r.rest)

\* n bytes behind a head.
Sized(b, head, n) == Got(SubSeq(b, head + 1, head + n), After(b, head + n))

\* Strings have a length of one byte, as UIN::parse reads them by default, or of a word; the
\* names that start with l are those of a little-endian buffer.  What is read has to be there: the
\* code compares with the size of the whole buffer only, not with what is left of it, and reads
\* on behind the end.  There a reader has no value, and TLC stops at one that gets there.
Read(kind, b) ==
  CASE kind = "byte" -> Got(b[1], After(b, 1))
    [] kind = "word" -> Got(getWord(b), After(b, 2))
    [] kind = "lword" -> Got(b[2] * 256 + b[1], After(b, 2))
    [] kind = "dword" -> Got(<<getWord(b), getWord(After(b, 2))>>, After(b, 4))
    [] kind = "ldword" -> Got(<<b[4] * 256 + b[3], b[2] * 256 + b[1]>>, After(b, 4))
    [] kind = "string1" -> Sized(b, 1, b[1])
    [] kind = "string2" -> Sized(b, 2, getWord(b))
    [] kind = "lstring2" -> Sized(b, 2, b[2] * 256 + b[1])

\* start after the steps 1 to n.
Repeat(Next(_, _), start, n) ==
  LET after[i \in 0..n] == IF i = 0 THEN start ELSE Next(after[i - 1], i) IN after[n]

\* One after the other: got is what was read before, with the rest.
ReadMore(got, r) == Got(Append(got.is, r.is), r.rest)

ReadAll(kinds, b) ==
  Repeat(LAMBDA got, i : ReadMore(got, Read(kinds[i], got.rest)), Got(<<>>, b), Len(kinds))

Fields(kinds, b) == ReadAll(kinds, b).is

\* UIN::appendUin
appendUin(uin) == <<Len(uin)>> \o uin

WordString(s) == Word(Len(s)) \o s

-----------------------------------------------------------------------------
(* TLVs *)

TLV(type, data) == Word(type) \o WordString(data)

parseTLV(b) ==
  GotAs(LAMBDA f : [type |-> f[1], data |-> f[2]], ReadAll(<<"word", "string2">>, b))

\* TLVs up to the end of b, in their order; a buffer of n bytes has at most n \div 4.
parseTLVs(b) ==
  Repeat(LAMBDA got, i : IF got.rest = <<>> THEN got ELSE ReadMore(got, parseTLV(got.rest)),
         Got(<<>>, b), Len(b) \div 4).is

\* TLVChain: the last TLV of a type counts.
Chain(tlvs) ==
  [t \in {tlvs[i].type : i \in DOMAIN tlvs} |->
     tlvs[SelectLastInSeq(tlvs, LAMBDA tlv : tlv.type = t)].data]

packStatus(s) == TLV(6, DWord(<<IF s = "OFFLINE" THEN 65535 ELSE 0, specPack(s)>>))

ErrorCodes ==
  <<"NO_ERROR", "MULTIPLE_LOGINS", "BAD_PASSWORD", "NON_EXISTANT_UIN", "TOO_MANY_CLIENTS",
    "RATE_EXCEEDED", "OLD_VERSION", "RECONNECTING_TOO_FAST", "CANT_REGISTER">>

packError(e) ==
  TLV(8, Word(<<0, 1, 4, 7, 21, 24, 27, 29, 30>>[SelectInSeq(ErrorCodes, LAMBDA c : c = e)]))

parseError(w) ==
  LET of == [NO_ERROR |-> {}, MULTIPLE_LOGINS |-> {1}, BAD_PASSWORD |-> {4, 5},
             NON_EXISTANT_UIN |-> {7, 8}, TOO_MANY_CLIENTS |-> {21, 22}, RATE_EXCEEDED |-> {24},
             OLD_VERSION |-> {27}, RECONNECTING_TOO_FAST |-> {29}, CANT_REGISTER |-> {30}]
      found == {e \in DOMAIN of : w \in of[e]}
  IN IF found = {} THEN "NO_ERROR" ELSE CHOOSE e \in found : TRUE

\* DirectConnectionTLV, with version 7 and cookie 0.  Nine fields and three time stamps follow
\* each other, without lengths.
packDirectConnection(ip, port, firewall) ==
  TLV(12, DWord(ip) \o Word(0) \o Word(port)
          \o <<CASE firewall = "FIREWALL" -> 1 [] firewall = "SOCKS_PROXY" -> 2 [] OTHER -> 4>>
          \o Word(7) \o DWord(<<0, 0>>) \o Word(0) \o Word(80) \o Word(0) \o Word(3)
          \o DWord(<<15272, 56239>>) \o DWord(<<15339, 21363>>) \o DWord(<<15339, 21090>>) \o Word(0))

DirectConnection(f) ==
  [ip |-> f[1], port |-> f[3],
   firewall |-> CASE f[4] = 1 -> "FIREWALL" [] f[4] = 2 -> "SOCKS_PROXY" [] OTHER -> "NORMAL"]

parseDirectConnection(b) ==
  LET r == ReadAll(<<"dword", "word", "word", "byte", "word", "dword", "word", "word", "word", "word">>, b)
  IN Got(DirectConnection(r.is), After(r.rest, 4 * r.is[10] + 2))

\* A capability has sixteen bytes.  A list has room for m_maxcap of them, at first ten.
packCapabilities(caps) == TLV(5, FlattenSeq(caps))

addCapability(caps, c) == IF Len(caps) = 10 THEN caps ELSE Append(caps, c)

parseCapabilities(b, len) ==
  LET num == len \div 16 IN
  Got(FoldLeft(addCapability, <<>>, [i \in 1..num |-> SubSeq(b, 16 * i - 15, 16 * i)]),
      After(b, 16 * num))

\* ContactAvatarTLV: only information about an icon is kept.
parseAvatar(b) ==
  GotAs(LAMBDA f : IF f[1] = 1 THEN f[3] ELSE <<>>, ReadAll(<<"word", "byte", "string1">>, b))

-----------------------------------------------------------------------------
(* UserInfo *)

\* One TLV of the list.  Those of a status, a direct connection and an icon are read by their
\* own classes, which take as many bytes as they know of, whatever the length says.
InfoTLV(u, type, len, b) ==
  CASE type = 1 -> Got(IF (getWord(b) \div 32) % 2 = 1 THEN [u EXCEPT !.status = "AWAY"] ELSE u,
                       After(b, len))
    [] type = 6 -> GotAs(LAMBDA f : [u EXCEPT !.status = parseStatus(f[2])], ReadAll(<<"word", "word">>, b))
    [] type = 12 -> GotAs(LAMBDA dc : [u EXCEPT !.dc = {dc}], parseDirectConnection(b))
    [] type = 13 -> GotAs(LAMBDA caps : [u EXCEPT !.caps = caps], parseCapabilities(b, len))
    [] type = 29 /\ len = 20 -> GotAs(LAMBDA icon : [u EXCEPT !.icon = icon], parseAvatar(b))
    [] OTHER -> Got(u, After(b, len))

ReadInfo(u, b) ==
  LET head == ReadAll(<<"word", "word">>, b) IN InfoTLV(u, head.is[1], head.is[2], head.rest)

parseUserInfo(b) ==
  LET head == ReadAll(<<"string1", "word", "word">>, b)
      u == [uin |-> head.is[1], status |-> "ONLINE", dc |-> {}, caps |-> <<>>, icon |-> <<>>]
  IN Repeat(LAMBDA got, i : ReadInfo(got.is, got.rest), Got(u, head.rest), head.is[3])

-----------------------------------------------------------------------------
(* Channel 1: the packets of the login *)

PasswordTable == <<243, 38, 129, 196, 57, 134, 219, 146, 113, 163, 185, 230, 83, 122, 149, 124>>

\* PasswordTLV: the password is mixed with the table, again and again.
Roast(password) == [i \in DOMAIN password |-> password[i] ^^ PasswordTable[((i - 1) % 16) + 1]]

Hello == DWord(<<0, 1>>)

\* LoginSt1Process.  Of the version only the first bytes: no one reads the client it claims to be.
CliLogin(uin, password) ==
  Hello \o TLV(1, uin) \o TLV(2, Roast(password)) \o TLV(3, <<73, 67, 81>>)
        \o TLV(22, Word(266)) \o TLV(23, Word(2)) \o TLV(24, Word(56)) \o TLV(25, Word(1))
        \o TLV(26, Word(3916)) \o TLV(20, DWord(<<0, 85>>)) \o TLV(15, Word(25966)) \o TLV(14, Word(30067))

\* LoginSt2Process
CliCookie(cookie) == Hello \o TLV(6, cookie)

-----------------------------------------------------------------------------
(* SNACs of the client.  The reference is a number that no one reads. *)

SNAC(family, command, data) == Word(family) \o Word(command) \o Word(0) \o DWord(<<0, 1>>) \o data

\* Pairs of a family and its version.
CliFamiliesSNAC ==
  SNAC(1, 23, FlattenSeq([i \in 1..10 |->
    DWord(<<<<1, 3>>, <<19, 2>>, <<2, 1>>, <<3, 1>>, <<21, 1>>, <<4, 1>>, <<6, 1>>, <<9, 1>>,
            <<10, 1>>, <<11, 1>>>>[i])]))

\* Each pair is followed by the version of a tool.
CliReadySNAC ==
  SNAC(1, 2, FlattenSeq([i \in 1..10 |->
    DWord(<<<<1, 3>>, <<19, 2>>, <<2, 1>>, <<3, 1>>, <<21, 1>>, <<4, 1>>, <<6, 1>>, <<9, 1>>,
            <<10, 1>>, <<11, 1>>>>[i])
    \o DWord(<<IF i <= 2 THEN 272 ELSE 257, 1147>>)]))

CliRatesRequestSNAC == SNAC(1, 6, <<>>)

\* What the set-up asks for: locations, buddies, messages, privacy and lists, in this order.
CliReqLocationSNAC == SNAC(2, 2, <<>>)
CliReqBuddySNAC == SNAC(3, 2, <<>>)
CliReqICBMSNAC == SNAC(4, 4, <<>>)
CliReqBOSSNAC == SNAC(9, 2, <<>>)
CliReqListsSNAC == SNAC(19, 2, <<>>)

\* The number of the items is written as a double word.
CliCheckRosterSNAC(timestamp, len) == SNAC(19, 5, DWord(timestamp) \o DWord(<<0, len>>))

\* The five classes of rates.
CliAckRatesSNAC == SNAC(1, 8, FlattenSeq([i \in 1..5 |-> Word(i)]))

CliSetStatusSNAC(status) ==
  SNAC(1, 30, packStatus(status) \o packError("NO_ERROR")
              \o packDirectConnection(<<0, 0>>, 0, "NORMAL"))

\* An away message is terminated by a 0, no message by nothing.
CliSetUserInfoSNAC(caps, awaymessage) ==
  SNAC(2, 4, TLV(4, IF awaymessage = <<>> THEN <<>> ELSE Append(awaymessage, 0))
             \o packCapabilities(caps))

CliReqUserInfoSNAC(uin, type) ==
  SNAC(2, 5, Word(CASE type = "SHORT_USER_INFO" -> 2 [] type = "AWAY_MESSAGE" -> 3
                    [] type = "CAPABILITIES" -> 4 [] OTHER -> 1) \o appendUin(uin))

\* On channel 1 always; the type is the number of the enumeration.
SrvCliTypingSNAC(uin, type) ==
  SNAC(4, 20, DWord(<<0, 0>>) \o DWord(<<0, 0>>) \o Word(1) \o appendUin(uin) \o Word(type))

CliSetICBMSNAC ==
  SNAC(4, 2, Word(0) \o DWord(<<0, 11>>) \o Word(8000) \o Word(999) \o Word(999) \o Word(0) \o Word(0))

\* Mutant: the reason is behind what ends the request.
CliAuthorizeLate(uin, granted, reason) ==
  SNAC(19, 26, appendUin(uin) \o <<IF granted THEN 1 ELSE 0>> \o Word(0) \o WordString(reason))

CliAuthorizeSNAC(uin, granted, reason) ==
  SNAC(19, 26, appendUin(uin) \o <<IF granted THEN 1 ELSE 0>> \o WordString(reason) \o Word(0))

\* uin is a number; type 60 asks for the messages, 62 deletes them.
CliMetaReqOfflineSNAC(uin, type) ==
  SNAC(21, 2, TLV(1, LWord(8) \o LDWord(uin) \o LWord(type) \o LWord(2)))

CliUploadIconSNAC(icon) == SNAC(16, 2, Word(1) \o WordString(icon))

-----------------------------------------------------------------------------
(* SNACs of the server: family 1 *)

SNACErrors ==
  <<"HEADER", "RATE_SERVER", "RATE_CLIENT", "OFFLINE", "SERVICE_NA", "SERVICE_UNDEF", "OBSOLETE",
    "UNSUP_SERVER", "UNSUP_CLIENT", "REFUSED_CLIENT", "REPLY_BIG", "RESPONSE_LOST", "REQ_DENIED",
    "SNAC", "RIGHTS", "BLOCKED", "EVIL_SENDER", "EVIL_RECIP", "RECIP_UNAVAILABLE", "NO_MATCH",
    "LIST_OVER", "REQ_AMBIGUOUS", "QUEUE_FULL", "IS_AOL">>

\* The sub-error is in a TLV, whose type and length are skipped.
SrvServiceErr(b) ==
  LET r == ReadAll(<<"word">>, b) IN
  <<"serviceError", SNACErrors[r.is[1]],
    IF r.rest = <<>> THEN "none" ELSE parseError(Fields(<<"word", "word", "word">>, r.rest)[3])>>

\* m_fam: the families have version 0 until the versions arrive.
SrvFamilies(b, fam) ==
  [f \in {getWord(After(b, 2 * i)) : i \in 0..(Len(b) \div 2 - 1)} |-> 0] @@ fam

SrvVersions(b, fam) ==
  LET at(i) == Fields(<<"word", "word">>, After(b, 4 * i)) IN
  FoldLeft(LAMBDA m, i : (at(i)[1] :> at(i)[2]) @@ m, fam,
           [i \in 1..(Len(b) \div 4) |-> i - 1])

\* ServerTLV: the name up to a colon (58), then four digits of the port.
parseServer(b) ==
  LET colon == SelectInSeq(b, LAMBDA by : by = 58) IN
  Got(<<Take(b, colon - 1), SubSeq(b, colon + 1, colon + 4)>>, After(b, colon + 4))

SrvMigrationReq(b) ==
  LET s == parseServer(After(b, 2)) IN
  [server |-> s.is[1], port |-> s.is[2], cookie |-> Fields(<<"word", "string2">>, s.rest)[2]]

\* A migration is told as receivedBOS, with an empty cookie instead of the one that was read.
ToldMigration(smr) == <<"receivedBOS", smr.server, smr.port, <<>>>>

\* The contents of the others are not read.
parseCh2Service(command, b, fam) ==
  CASE command = 1 -> <<SrvServiceErr(b)>>
    [] command = 3 -> <<<<"families">>>>
    [] command = 7 -> <<<<"rates">>>>
    [] command = 15 -> <<<<"replyInfo", parseUserInfo(b).is>>>>
    [] command = 18 -> <<ToldMigration(SrvMigrationReq(b))>>
    [] command = 24 -> <<<<"versions", SrvVersions(b, fam)>>>>
    [] OTHER -> <<>>

-----------------------------------------------------------------------------
(* Families 2, 3 and 4 *)

SrvLocationErr(b) ==
  LET r == ReadAll(<<"word">>, b) IN
  <<"locationError", SNACErrors[r.is[1]],
    IF r.rest = <<>> THEN "none" ELSE parseError(Fields(<<"word", "word", "word">>, r.rest)[3])>>

\* The second of the TLVs has the number of capabilities.
SrvReplyLocation(b) == <<"locationLimits", getWord(parseTLVs(b)[2].data)>>

\* readString(QString&): a text that is longer than the buffer is not read.
TextIn(b) == IF getWord(b) > Len(b) THEN <<>> ELSE Sized(b, 2, getWord(b)).is

\* TLVs 1, 3 and 5 say what was asked for; a profile is read with a length that it does not have.
UserInfoReply(u, tlvs) ==
  LET type == CASE 5 \in DOMAIN tlvs -> "CAPABILITIES" [] 3 \in DOMAIN tlvs -> "AWAY_MESSAGE"
                [] 1 \in DOMAIN tlvs -> "GENERAL_INFO" [] OTHER -> "SHORT_USER_INFO"
  IN <<"userInfo", u, type,
       IF type = "AWAY_MESSAGE" /\ 4 \in DOMAIN tlvs THEN tlvs[4]
       ELSE IF type = "GENERAL_INFO" /\ 2 \in DOMAIN tlvs THEN TextIn(tlvs[2])
       ELSE <<>>>>

SrvUserInfo(b) ==
  LET info == parseUserInfo(b) IN UserInfoReply(info.is, Chain(parseTLVs(info.rest)))

parseCh2Location(command, b) ==
  CASE command = 1 -> <<SrvLocationErr(b)>>
    [] command = 3 -> <<SrvReplyLocation(b)>>
    [] command = 6 -> <<SrvUserInfo(b)>>
    [] OTHER -> <<>>

\* The contacts it names are read and forgotten.
SrvContactErr(b) ==
  <<"contactError", CASE getWord(b) = 14 -> "EMPTY_UIN_LIST" [] getWord(b) = 20 -> "UIN_NOT_IN_LIST"
                      [] getWord(b) = 21 -> "CONTACT_LIST_FULL">>

SrvReplyBuddy(b) ==
  LET tlvs == parseTLVs(b) IN <<"BLMLimits", getWord(tlvs[1].data), getWord(tlvs[2].data)>>

SrvUserOnline(b) == <<"userOnline", parseUserInfo(b).is>>

SrvUserOffline(b) == <<"userOffline", parseUserInfo(b).is.uin>>

parseCh2Contact(command, b) ==
  CASE command = 1 -> <<SrvContactErr(b)>>
    [] command = 3 -> <<SrvReplyBuddy(b)>>
    [] command = 10 -> <<<<"refused", Fields(<<"string1">>, b)[1]>>>>
    [] command = 11 -> <<SrvUserOnline(b)>>
    [] command = 12 -> <<SrvUserOffline(b)>>
    [] OTHER -> <<>>

SrvICBMErr(b) ==
  <<"ICBMError", CASE getWord(b) = 4 -> "USER_OFFLINE" [] getWord(b) = 9 -> "CLIENT_NOT_SUPPORT_TYPE_2"
                   [] getWord(b) = 14 -> "MALFORMED_PACKET">>

\* The channel, the sender, how many messages are lost and why.
Missed(uin, lost) ==
  <<"missed", uin, lost[1],
    CASE lost[2] = 1 -> "MESSAGE_TOO_LARGE" [] lost[2] = 2 -> "MESSAGE_RATE_EXCEEDED"
      [] lost[2] = 3 -> "SENDER_TOO_EVIL" [] lost[2] = 4 -> "CLIENT_TOO_EVIL"
      [] OTHER -> "MESSAGE_INVALID">>

SrvMissedICBM(b) ==
  LET info == parseUserInfo(After(b, 2)) IN Missed(info.is.uin, Fields(<<"word", "word">>, info.rest))

SrvAckMsg(b) ==
  LET r == Fields(<<"dword", "dword", "word", "string1">>, b) IN <<"ackMsg", r[3], r[4]>>

\* An acknowledgement of the other client: on channel 2 it has the away message, after two parts
\* with a little-endian length, the type, the flags and four bytes that are skipped.
CliAckMsg(b) ==
  LET r == ReadAll(<<"dword", "dword", "word", "string1", "word">>, b)
      m == Fields(<<"lstring2", "lstring2", "byte", "byte", "dword", "lstring2">>, r.rest)
  IN IF r.is[3] = 2 THEN <<"awayMessage", r.is[4], byteToType(m[3]), Front(m[6])>>
     ELSE <<"awayMessage", r.is[4], "PLAIN", <<>>>>

\* Identifier and channel are skipped.  Of a notice that is too short nothing is read.
SrvCliTyping(b) ==
  LET r == IF Len(b) <= 12 THEN <<<<>>, "not initialized">>
           ELSE Fields(<<"string1", "word">>, After(b, 10))
  IN <<"typing", r[1], r[2]>>

parseCh2ICBM(command, b) ==
  CASE command = 1 -> <<SrvICBMErr(b)>>
    [] command = 5 -> <<<<"ICBMLimits">>>>
    [] command = 10 -> <<SrvMissedICBM(b)>>
    [] command = 11 -> <<CliAckMsg(b)>>
    [] command = 12 -> <<SrvAckMsg(b)>>
    [] command = 20 -> <<SrvCliTyping(b)>>
    [] OTHER -> <<>>

-----------------------------------------------------------------------------
(* Families 9, 11, 16, 19 and 21 *)

parseCh2BOS(command, b) == IF command = 3 THEN <<<<"PRMLimits">>>> ELSE <<>>

parseCh2Interval(command, b) == IF command = 2 THEN <<<<"interval", getWord(b)>>>> ELSE <<>>

SrvUploadAck(b) == <<"ownIconAck", Sized(After(b, 4), 1, b[5]).is>>

\* The icons of others are left out: requestIconFor frees its SNAC twice.
parseCh2SSBI(command, b) == IF command = 3 THEN <<SrvUploadAck(b)>> ELSE <<>>

\* SBLItem: the name, the numbers of group, item and type, and a chain with its length.
parseItem(b) ==
  GotAs(LAMBDA f : [name |-> f[1], group |-> f[2], id |-> f[3], type |-> f[4],
                    tlvs |-> Chain(parseTLVs(f[5]))],
        ReadAll(<<"string2", "word", "word", "word", "string2">>, b))

\* Roster::parse: a byte, the number of the items, the items.
parseRoster(b) ==
  LET head == ReadAll(<<"byte", "word">>, b) IN
  Repeat(LAMBDA got, i : ReadMore(got, parseItem(got.rest)), Got(<<>>, head.rest), head.is[2]).is

SrvUpdateAck(b) == <<"updateAck", getWord(b)>>

\* The word after the reason is not read further.
SrvAuthReq(b) == LET r == Fields(<<"string1", "string2">>, b) IN <<"authReq", r[1], r[2]>>

SrvAuthReply(b) ==
  LET r == Fields(<<"string1", "byte", "string2">>, b) IN <<"authReply", r[1], r[2] = 1, r[3]>>

SrvAddedYou(b) == <<"addedYou", Fields(<<"string1">>, b)[1]>>

\* ROSTEROK, behind which the parser looks for a list that is not there, is left out.
parseCh2Roster(command, b) ==
  CASE command = 3 -> <<<<"SSILimits", Chain(parseTLVs(b))>>>>
    [] command = 6 -> <<<<"roster", parseRoster(b)>>>>
    [] command = 14 -> <<SrvUpdateAck(b)>>
    [] command = 25 -> <<SrvAuthReq(b)>>
    [] command = 27 -> <<SrvAuthReply(b)>>
    [] command = 28 -> <<SrvAddedYou(b)>>
    [] OTHER -> <<>>

\* Types 65 and 66: a message that was kept, and the end of them.  Ten bytes are skipped; the
\* text ends with a 0 that is cut off.
SrvMetaReply(b) ==
  LET head == ReadAll(<<"lword", "lword">>, After(b, 10))
      m == Fields(<<"ldword", "lword", "byte", "byte", "byte", "byte", "byte", "byte", "lstring2">>,
                  head.rest)
  IN CASE head.is[1] = 65 -> <<"offlineMessage", m[1], byteToType(m[7]), Front(m[9])>>
       [] head.is[1] = 66 -> <<"endOfflineMessages">>
       [] OTHER -> <<"metaReply">>

parseCh2ICQ(command, b) ==
  CASE command = 1 -> <<<<"ICQError", getWord(b)>>>>
    [] command = 3 -> <<SrvMetaReply(b)>>
    [] OTHER -> <<>>

-----------------------------------------------------------------------------

\* A SNAC with the flags 0x8000 has unknown data in front, which two of the families skip.
IsExtra(flags) == flags = 32768

\* Mutant: the unknown data is not skipped.
SkipExtraNot(family, flags, b) == b

SkipExtra(family, flags, b) ==
  IF family \in {1, 19} /\ IsExtra(flags) THEN Read("string2", b).rest ELSE b

\* parseCh2: what a SNAC is read as, and m_fam after it.
parseFamily(family, command, b, fam) ==
  [read |-> CASE family = 1 -> parseCh2Service(command, b, fam)
              [] family = 2 -> parseCh2Location(command, b)
              [] family = 3 -> parseCh2Contact(command, b)
              [] family = 4 -> parseCh2ICBM(command, b)
              [] family = 9 -> parseCh2BOS(command, b)
              [] family = 11 -> parseCh2Interval(command, b)
              [] family = 16 -> parseCh2SSBI(command, b)
              [] family = 19 -> parseCh2Roster(command, b)
              [] family = 21 -> parseCh2ICQ(command, b)
              [] OTHER -> <<>>,
   fam |-> CASE family = 1 /\ command = 3 -> SrvFamilies(b, fam)
             [] family = 1 /\ command = 24 -> SrvVersions(b, fam)
             [] OTHER -> fam]

parseSNAC(snac, fam) ==
  LET head == ReadAll(<<"word", "word", "word", "dword">>, snac) IN
  parseFamily(head.is[1], head.is[2], SkipExtra(head.is[1], head.is[3], head.rest), fam)

\* One TLV of channel 4 with what is known from those before it.  Texts of two types are joined;
\* a server and an error are read by their own classes, and a word of type 19 has no other length.
ClosingTLV(c, type, len, b) ==
  CASE type \in {4, 11} -> GotAs(LAMBDA text : [c EXCEPT !.reason = @ \o text], Sized(b, 0, len))
    [] type = 5 -> GotAs(LAMBDA server : [c EXCEPT !.server = server], parseServer(b))
    [] type = 6 -> GotAs(LAMBDA text : [c EXCEPT !.cookie = @ \o text], Sized(b, 0, len))
    [] type \in {8, 9} -> Got([c EXCEPT !.error = parseError(getWord(b))], After(b, 2))
    [] type = 19 -> Got(c, After(b, 2))
    [] OTHER -> Got(c, After(b, len))

ReadClosing(c, b) ==
  LET head == ReadAll(<<"word", "word">>, b) IN ClosingTLV(c, head.is[1], head.is[2], head.rest)

\* parseCh4: without a server the connection is lost; with one it is where to go next.
Closing(c) == IF c.server[1] = <<>> THEN <<"serverDisconnected", c.reason, c.error>>
              ELSE <<"receivedBOS", c.server[1], c.server[2], c.cookie>>

parseClosing(b) ==
  Closing(Repeat(LAMBDA got, i : IF got.rest = <<>> THEN got ELSE ReadClosing(got.is, got.rest),
                 Got([reason |-> <<>>, server |-> <<<<>>, <<>>>>, cookie |-> <<>>, error |-> "NO_ERROR"], b),
                 Len(b) \div 4).is)

\* parseCh1
parseHello(b) == IF Read("dword", b).is = <<0, 1>> THEN <<<<"hello">>>> ELSE <<>>

\* OscarParser: one FLAP, by its channel.  Channel 5 is answered with nothing.
parseFLAP(flap, fam) ==
  CASE flap.ch = 1 -> [read |-> parseHello(flap.data), fam |-> fam]
    [] flap.ch = 2 -> parseSNAC(flap.data, fam)
    [] flap.ch = 4 -> [read |-> <<parseClosing(flap.data)>>, fam |-> fam]
    [] OTHER -> [read |-> <<>>, fam |-> fam]
=============================================================================
