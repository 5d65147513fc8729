------------------------------- MODULE Protocol -------------------------------
(***************************************************************************)
(* The codec of the chat (project/src/protocol.cpp): how the fields of a   *)
(* message become the text between two separators, and come back.          *)
(*                                                                         *)
(* A string is a sequence of characters.  A character is a TLA+ string:    *)
(* the two separators, the two texts that stand for them in a field, which *)
(* count as one character, the code of a message, or any other text that   *)
(* is never taken apart, such as the word of a command.  No escape can     *)
(* begin inside another, or be made by putting a separator or an escape    *)
(* next to something else, so a string is cut into these in one way only.  *)
(***************************************************************************)
EXTENDS Integers, SequencesExt

FieldSep == ";"          \* FIELD_SEP
MsgSep   == ":"          \* MSG_SEP, which is NET_SEP
EscField == "\\fsep"
EscMsg   == "\\msep"
Nul      == "NUL"        \* the byte that send writes behind a message
Space    == " "

-----------------------------------------------------------------------------
(* Strings.                                                                *)

\* Fault: the separator of messages is not replaced.
SanitizeFieldSep(s) == [i \in DOMAIN s |-> IF s[i] = FieldSep THEN EscField ELSE s[i]]

Sanitize(s) ==
  [i \in DOMAIN s |-> CASE s[i] = FieldSep -> EscField
                        [] s[i] = MsgSep   -> EscMsg
                        [] OTHER           -> s[i]]

Desanitize(s) ==
  [i \in DOMAIN s |-> CASE s[i] = EscField -> FieldSep
                        [] s[i] = EscMsg   -> MsgSep
                        [] OTHER           -> s[i]]

\* The tokens between delimiters, of one character more at a time; the empty
\* ones are dropped.
Split(s, delim) ==
  LET tokens[i \in 0..Len(s)] ==
        IF i = 0 THEN <<>>
        ELSE IF s[i] = delim THEN tokens[i - 1]
        ELSE IF i = 1 \/ s[i - 1] = delim THEN Append(tokens[i - 1], <<s[i]>>)
        ELSE [tokens[i - 1] EXCEPT ![Len(tokens[i - 1])] = Append(@, s[i])]
  IN  tokens[Len(s)]

\* The tokens from index pos on, counted from 0.
Join(tokens, delim, pos) ==
  LET str[i \in 0..Len(tokens)] ==
        IF i <= pos THEN <<>>
        ELSE IF i = pos + 1 THEN tokens[i]
        ELSE str[i - 1] \o <<delim>> \o tokens[i]
  IN  str[Len(tokens)]

-----------------------------------------------------------------------------
(* Messages.                                                               *)

AddField(str, field) == str \o Sanitize(field) \o <<FieldSep>>

HostToNetMsg(message, args) ==
  LET msg[i \in 0..Len(args)] ==
        IF i = 0 THEN <<message, FieldSep>> ELSE AddField(msg[i - 1], args[i])
  IN  Append(msg[Len(args)], MsgSep)

\* The code is the only byte of the first token, or the second one: a Nul may
\* have been left in front of it.
NetToHostHeader(str) ==
  LET tokens == Split(str, FieldSep)
  IN  IF tokens # <<>> /\ Len(tokens[1]) \in {1, 2} THEN Last(tokens[1]) ELSE "UNDEFINED"

NetToHostMsg(str) ==
  LET tokens == Split(str, FieldSep)
  IN  [i \in 1..Len(tokens) - 1 |-> Desanitize(tokens[i + 1])]

-----------------------------------------------------------------------------
(* The fields of each message.                                             *)

Message(src, dst, content, title) ==
  [src |-> src, dst |-> dst, content |-> content, title |-> title]

NoMessage == Message(<<>>, <<>>, <<>>, <<>>)

HostToNetRegister(name) == HostToNetMsg("REGISTER", <<name>>)

HostToNetSendMsg(msg) == HostToNetMsg("SEND_MSG", <<msg.src, msg.dst, msg.content>>)

HostToNetMsgIncoming(msg) == HostToNetMsg("MSG_INCOMING", <<msg.src, msg.dst, msg.content>>)

HostToNetJoinGroup(group) == HostToNetMsg("JOIN_GROUP", <<group>>)

HostToNetCreateGroup(group) == HostToNetMsg("CREATE_GROUP", <<group>>)

HostToNetSendGroup(group, content) == HostToNetMsg("SEND_GROUP", <<group, content>>)

\* A file that cannot be read, or is empty, makes no message.
HostToNetSendFile(src, dst, file, path) ==
  IF file = <<>> THEN <<>> ELSE HostToNetMsg("SEND_FILE", <<src, dst, file, path>>)

HostToNetFileIncoming(msg) ==
  HostToNetMsg("FILE_INCOMING", <<msg.src, msg.dst, msg.content, msg.title>>)

\* MSG_QUEUED, MSG_SENT, FILE_QUEUED and FILE_SENT, with the digits of the
\* message's identifier, which are read back as they were written.
HostToNetId(code, id) == HostToNetMsg(code, <<id>>)

HostToNetUsersList(table) == HostToNetMsg("USERS_LIST", <<table>>)

\* Fault: the field is read as it is.
NetToHostFieldRaw(str) ==
  LET tokens == Split(str, FieldSep) IN IF Len(tokens) < 2 THEN <<>> ELSE tokens[2]

\* netToHostRegister, netToHostCreateGroup and netToHostUsersList.
NetToHostField(str) ==
  LET args == NetToHostMsg(str) IN IF Len(args) < 1 THEN <<>> ELSE args[1]

NetToHostId(str) ==
  LET args == NetToHostMsg(str) IN IF Len(args) < 1 THEN <<"0">> ELSE args[1]

\* The field is desanitized a second time.
NetToHostJoinGroup(str) ==
  LET args == NetToHostMsg(str) IN IF Len(args) < 1 THEN <<>> ELSE Desanitize(args[1])

NetToHostSendMsg(str) ==
  LET args == NetToHostMsg(str)
  IN  IF Len(args) < 3 THEN NoMessage ELSE Message(args[1], args[2], args[3], <<>>)

NetToHostSendGroup(str) ==
  LET args == NetToHostMsg(str)
  IN  IF Len(args) < 2 THEN [group |-> <<>>, content |-> <<>>]
      ELSE [group |-> args[1], content |-> args[2]]

NetToHostSendFile(str) ==
  LET args == NetToHostMsg(str)
  IN  IF Len(args) < 4 THEN NoMessage ELSE Message(args[1], args[2], args[3], args[4])
=============================================================================
