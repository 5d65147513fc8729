------------------------------- MODULE Commands -------------------------------
(***************************************************************************)
(* What a command of the chat comes to: the client's command line          *)
(* (project/src/client.cpp) is turned into a request, the server           *)
(* (project/src/server.cpp) takes it apart and answers, a message that it  *)
(* queues is forwarded to the client of another user, and both clients     *)
(* show what they get.  All of it goes through the codec of Protocol.      *)
(*                                                                         *)
(* One command is followed at a time; what interleaves is in ChatServer    *)
(* and ChatSession.  What the registry answers is in ChatServer: here it   *)
(* is any answer of the request.                                           *)
(***************************************************************************)
EXTENDS Protocol

CONSTANTS
  Lines,      \* the lines a user may type
  Names,      \* the names clients are started with
  Member,     \* another member of a group, as the server knows it
  LowerOf,    \* the lower case of the characters that have one
  FileAt      \* the content of each file that can be read

ASSUME CommandsAssumption ==
  /\ Lines \subseteq Seq(STRING) /\ Names \subseteq Seq(STRING)
  /\ Member \in Seq(STRING) /\ Member # <<>>
  /\ \A path \in DOMAIN FileAt : FileAt[path] \in Seq(STRING)

VARIABLES
  name,         \* the name in the client's arguments
  registered,   \* the name of the User object that the worker got
  pc,           \* where the client's main thread is
  line,         \* the last line typed
  up,           \* the request on its way to the server, or <<>>
  taken,        \* the request as handle understands it
  answered,     \* the answer as the server means it
  down,         \* the answer on its way to the client, or <<>>
  shown,        \* the answer as the client shows it
  queued,       \* the message the request has queued, or NoMessage
  forward,      \* the message on its way to its destination, or <<>>
  notice,       \* the news for its source that it was sent, or <<>>
  displayed,    \* the message as the destination shows it
  noticed       \* the news as the source shows it

clientVars == <<name, pc, line, shown>>
serverVars == <<registered, taken, answered, queued>>
messageVars == <<forward, notice, displayed, noticed>>
vars == <<clientVars, serverVars, up, down, messageVars>>

-----------------------------------------------------------------------------
(* The command line.                                                       *)

Trim(s) ==
  LET solid == {i \in DOMAIN s : s[i] # Space}
  IN  IF solid = {} THEN <<>> ELSE SubSeq(s, Min(solid), Max(solid))

Lower(s) == [i \in DOMAIN s |-> IF s[i] \in DOMAIN LowerOf THEN LowerOf[s[i]] ELSE s[i]]

FileToStr(path) == IF path \in DOMAIN FileAt THEN FileAt[path] ELSE <<>>

\* The request of a command, or <<>> when it is not a command.
CmdToNetMsg(cmd, user) ==
  LET tokens == Split(cmd, Space)
      n      == Len(tokens)
      arg1   == IF n = 0 THEN <<>> ELSE Lower(tokens[1])
      arg3   == Join(tokens, Space, 2)
  IN
  CASE n = 1 /\ arg1 = <<"exit">>     -> HostToNetMsg("EXIT", <<>>)
    [] n = 1 /\ arg1 = <<"who">>      -> HostToNetMsg("WHO", <<>>)
    [] n = 2 /\ arg1 = <<"joing">>    -> HostToNetJoinGroup(tokens[2])
    [] n = 2 /\ arg1 = <<"createg">>  -> HostToNetCreateGroup(tokens[2])
    [] n >= 3 /\ arg1 = <<"sendmsg">> -> HostToNetSendMsg(Message(user, tokens[2], arg3, <<>>))
    [] n >= 3 /\ arg1 = <<"sendg">>   -> HostToNetSendGroup(tokens[2], arg3)
    [] n >= 3 /\ arg1 = <<"sendf">>   -> HostToNetSendFile(user, tokens[2], FileToStr(arg3), arg3)
    [] OTHER                          -> <<>>

-----------------------------------------------------------------------------
(* What the receiver makes of a frame: it ends at the first separator, and *)
(* the byte behind the frame before it may be in front (see NetReceiver).  *)

Content(frame, lead) ==
  lead \o SubSeq(frame, 1, SelectInSeq(frame, LAMBDA c : c = MsgSep) - 1)

Leads == {<<>>, <<Nul>>}

-----------------------------------------------------------------------------
(* The server's side of a request.                                         *)

Request(code, msg) == [code |-> code, msg |-> msg]
InvalidRequest == Request("INVALID_REQUEST_ERR", NoMessage)
NoRequest == Request("", NoMessage)

\* The cases of handle, up to the registry.  A request without the field that
\* is looked at first is invalid.
Take(str) ==
  LET header == NetToHostHeader(str)
      valid(msg, field) == IF field = <<>> THEN InvalidRequest ELSE Request(header, msg)
      mail   == NetToHostSendMsg(str)
      file   == NetToHostSendFile(str)
      create == NetToHostField(str)
      join   == NetToHostJoinGroup(str)
      group  == NetToHostSendGroup(str)
  IN
  CASE header \in {"EXIT", "WHO"} -> Request(header, NoMessage)
    [] header = "SEND_MSG"        -> valid(mail, mail.src)
    [] header = "SEND_FILE"       -> valid(file, file.src)
    [] header = "CREATE_GROUP"    -> valid(Message(registered, create, <<>>, <<>>), create)
    [] header = "JOIN_GROUP"      -> valid(Message(registered, join, <<>>, <<>>), join)
    [] header = "SEND_GROUP"      ->
         valid(Message(registered, group.group, group.content, <<>>), group.group)
    [] OTHER                      -> InvalidRequest

\* The name of the user that registerUser returns when there is none.
Unregistered == HostToNetMsg("INVALID_REQUEST_ERR", <<>>)

AnswersTo(code) ==
  CASE code = "EXIT"         -> {"OK"}
    [] code = "WHO"          -> {"USERS_LIST"}
    [] code = "SEND_MSG"     -> {"NO_MSG_DST_ERR", "MSG_EXISTS", "MSG_QUEUED"}
    [] code = "SEND_FILE"    -> {"NO_MSG_DST_ERR", "MSG_EXISTS", "FILE_QUEUED"}
    [] code = "CREATE_GROUP" -> {"GROUP_EXISTS", "GROUP_CREATED"}
    [] code = "JOIN_GROUP"   -> {"NO_GROUP_ERR", "USER_ALREADY_IN_GROUP", "USER_ADDED_TO_GROUP"}
    [] code = "SEND_GROUP"   -> {"NO_GROUP_ERR", "NOT_IN_GROUP_ERR"}
                                \cup (IF registered = Unregistered THEN {} ELSE {"MSG_QUEUED"})
    [] OTHER                 -> {"INVALID_REQUEST_ERR"}

\* The users' names are in the table, and none of them is Unregistered.
Table == <<"table">> \o (IF registered = Unregistered THEN <<>> ELSE registered)

\* The answers that carry the identifier of the message they are about.
WithId == {"MSG_QUEUED", "MSG_SENT", "FILE_QUEUED", "FILE_SENT"}
Id == <<"#">>

Answer(code) ==
  [code |-> code, text |-> CASE code = "USERS_LIST" -> Table
                             [] code \in WithId     -> Id
                             [] OTHER               -> <<>>]
NoAnswer == [code |-> "", text |-> <<>>]

HostToNetAnswer(answer) ==
  CASE answer.code = "USERS_LIST" -> HostToNetUsersList(answer.text)
    [] answer.code \in WithId     -> HostToNetId(answer.code, answer.text)
    [] OTHER                      -> HostToNetMsg(answer.code, <<>>)

\* What the client's handle shows of an answer.
NetToHostAnswer(str) ==
  LET header == NetToHostHeader(str)
  IN  [code |-> header, text |-> CASE header = "USERS_LIST" -> NetToHostField(str)
                                   [] header \in WithId     -> NetToHostId(str)
                                   [] OTHER                 -> <<>>]

-----------------------------------------------------------------------------
Nothing == [src |-> <<>>, text |-> <<>>, saved |-> <<>>]

\* The part of a path behind the last slash, of either kind.
Base(path) == SubSeq(path, SelectLastInSeq(path, LAMBDA c : c \in {"/", "\\"}) + 1, Len(path))

\* What the client's handle makes of MSG_INCOMING and FILE_INCOMING: a text is
\* displayed, a file is saved under the last part of its path.
Display(str) ==
  LET mail == NetToHostSendMsg(str)
      file == NetToHostSendFile(str)
  IN
  CASE NetToHostHeader(str) = "MSG_INCOMING"  ->
         [src |-> mail.src, text |-> mail.content, saved |-> <<>>]
    [] NetToHostHeader(str) = "FILE_INCOMING" ->
         [src |-> file.src, text |-> file.content, saved |-> Base(file.title)]
    [] OTHER -> Nothing

Init ==
  /\ name \in Names /\ registered = <<>> /\ pc = "start" /\ line = <<>>
  /\ up = <<>> /\ taken = NoRequest /\ answered = NoAnswer /\ down = <<>>
  /\ shown = NoAnswer /\ queued = NoMessage /\ forward = <<>> /\ notice = <<>>
  /\ displayed = Nothing /\ noticed = NoAnswer

-----------------------------------------------------------------------------
(* Registration.                                                           *)

Register ==
  /\ pc = "start"
  /\ pc' = "register"
  /\ up' = HostToNetRegister(name)
  /\ UNCHANGED <<name, line, shown, serverVars, down, messageVars>>

\* A name that is empty is invalid; the client is greeted all the same.
RegisterUser(lead) ==
  LET str  == Content(up, lead)
      user == NetToHostField(str)
  IN
  /\ pc = "register" /\ up # <<>>
  /\ registered' = IF NetToHostHeader(str) = "REGISTER" /\ user # <<>> THEN user
                   ELSE Unregistered
  /\ up' = <<>>
  /\ answered' = Answer("OK")
  /\ down' = HostToNetAnswer(Answer("OK"))
  /\ UNCHANGED <<clientVars, taken, queued, messageVars>>

Registered ==
  /\ pc = "register" /\ down # <<>>
  /\ pc' = "prompt"
  /\ down' = <<>>
  /\ shown' = NetToHostAnswer(Content(down, <<>>))
  /\ UNCHANGED <<name, line, serverVars, up, messageVars>>

-----------------------------------------------------------------------------
(* A command.                                                              *)

\* The next line is followed when the last one has come to its end.
Type(l) ==
  /\ pc = "prompt" /\ queued = NoMessage /\ notice = <<>>
  /\ line' = l
  /\ taken' = NoRequest /\ answered' = NoAnswer /\ shown' = NoAnswer
  /\ displayed' = Nothing /\ noticed' = NoAnswer
  /\ UNCHANGED <<name, registered, queued, down, forward, notice>>

IsHelp(l) == Lower(l) = <<"help">>

\* help is answered by the client, and so is a line that is not a command.
Refuse(l) ==
  /\ IsHelp(l) \/ CmdToNetMsg(l, name) = <<>>
  /\ Type(l)
  /\ UNCHANGED <<pc, up>>

\* Fault: the line is compared as it is.
EndsLoopUntrimmed(l) == Lower(l) = <<"exit">>

\* The loop over the lines ends when the request was exit.
EndsLoop(l) == Lower(Trim(l)) = <<"exit">>

Ask(l) ==
  /\ ~IsHelp(l) /\ CmdToNetMsg(l, name) # <<>>
  /\ Type(l)
  /\ up' = CmdToNetMsg(l, name)
  /\ pc' = IF EndsLoop(l) THEN "leaving" ELSE "asked"

\* Every other member of a group gets a message of its own.
Queued(request, code) ==
  IF code \notin {"MSG_QUEUED", "FILE_QUEUED"} THEN NoMessage
  ELSE IF request.code = "SEND_GROUP" THEN [request.msg EXCEPT !.dst = Member]
  ELSE request.msg

Handle(lead, code) ==
  LET request == Take(Content(up, lead)) IN
  /\ pc \in {"asked", "leaving"} /\ up # <<>>
  /\ code \in AnswersTo(request.code)
  /\ up' = <<>>
  /\ taken' = request
  /\ queued' = Queued(request, code)
  /\ answered' = Answer(code)
  /\ down' = HostToNetAnswer(Answer(code))
  /\ UNCHANGED <<clientVars, registered, messageVars>>

\* A client that left its loop is over when its observer sees that the server
\* has closed, which it does when it took EXIT; else it waits for good.
ShowAnswer(lead) ==
  /\ pc \in {"asked", "leaving"} /\ down # <<>>
  /\ down' = <<>>
  /\ shown' = NetToHostAnswer(Content(down, lead))
  /\ pc' = CASE pc = "asked" -> "prompt"
             [] pc = "leaving" -> IF taken.code = "EXIT" THEN "over" ELSE "leaving"
  /\ UNCHANGED <<name, line, serverVars, up, messageVars>>

-----------------------------------------------------------------------------
(* Forwarding, by the messages loop.                                       *)

NotSending == queued # NoMessage /\ forward = <<>> /\ notice = <<>>

\* Fault: a file is forwarded as a text.
ForwardAsText ==
  /\ NotSending
  /\ forward' = HostToNetMsgIncoming(queued)
  /\ notice' = HostToNetAnswer(Answer("MSG_SENT"))
  /\ UNCHANGED <<clientVars, serverVars, up, down, displayed, noticed>>

\* The message is written to its destination, and the news to its source.
Forward ==
  /\ NotSending
  /\ LET is_file == queued.title # <<>> IN
       /\ forward' = IF is_file THEN HostToNetFileIncoming(queued) ELSE HostToNetMsgIncoming(queued)
       /\ notice' = HostToNetAnswer(Answer(IF is_file THEN "FILE_SENT" ELSE "MSG_SENT"))
  /\ UNCHANGED <<clientVars, serverVars, up, down, displayed, noticed>>

ShowIncoming(lead) ==
  /\ forward # <<>>
  /\ displayed' = Display(Content(forward, lead))
  /\ forward' = <<>>
  /\ queued' = NoMessage
  /\ UNCHANGED <<clientVars, registered, taken, answered, up, down, notice, noticed>>

\* The source's observer, before or after the answer to the request.
ShowNotice(lead) ==
  /\ notice # <<>>
  /\ noticed' = NetToHostAnswer(Content(notice, lead))
  /\ notice' = <<>>
  /\ UNCHANGED <<clientVars, serverVars, up, down, forward, displayed>>

-----------------------------------------------------------------------------
Codes == UNION {AnswersTo(c) : c \in {"EXIT", "WHO", "SEND_MSG", "SEND_FILE", "CREATE_GROUP",
                                      "JOIN_GROUP", "SEND_GROUP", "INVALID_REQUEST_ERR"}}

Next ==
  \/ Register \/ Registered \/ Forward
  \/ \E lead \in Leads :
       \/ RegisterUser(lead) \/ ShowAnswer(lead) \/ ShowIncoming(lead) \/ ShowNotice(lead)
       \/ \E code \in Codes : Handle(lead, code)
  \/ \E l \in Lines : Refuse(l) \/ Ask(l)

Spec == Init /\ [][Next]_vars

-----------------------------------------------------------------------------
(* Properties.                                                             *)

\* What a line asks for, from the words in it.  In a field, a separator's
\* escape that was typed stands for the separator.
Meaning(l) ==
  LET w    == Split(l, Space)
      verb == Lower(w[1])[1]
      of   == [sendmsg |-> "SEND_MSG", sendg |-> "SEND_GROUP", sendf |-> "SEND_FILE",
               joing |-> "JOIN_GROUP", createg |-> "CREATE_GROUP", who |-> "WHO", exit |-> "EXIT"]
      rest == Join(w, Space, 2)
      from == IF verb \in {"who", "exit"} THEN <<>>
              ELSE IF name = <<>> THEN Unregistered ELSE Desanitize(name)
      to   == IF Len(w) > 1 THEN Desanitize(w[2]) ELSE <<>>
  IN
  IF verb \in {"sendmsg", "sendf"} /\ name = <<>> THEN InvalidRequest
  ELSE Request(of[verb],
         IF verb = "sendf" THEN Message(from, to, Desanitize(FileAt[rest]), Desanitize(rest))
         ELSE Message(from, to, Desanitize(rest), <<>>))

\* The server takes every request for what the user typed, whatever characters
\* are in the fields and whatever is left in front of the message: no field
\* moves into the place of another, and none is cut.
TakenAsMeant == taken # NoRequest => taken = Meaning(line)

\* What ChatServer takes for granted of a client: the source of a message is
\* the name its sender is registered with, although the two are sent in
\* messages of their own and never compared; and no request names a group
\* with a space in it, such as " online".
RequestsAreOwn ==
  /\ taken.msg.src # <<>> => taken.msg.src = registered
  /\ taken.code \in {"CREATE_GROUP", "JOIN_GROUP", "SEND_GROUP"} =>
       Space \notin ToSet(taken.msg.dst)

\* The client stops reading commands exactly when the request that it sent
\* makes the server end the session: two tests of the same line, written
\* differently, agree.
LeavesIffExit == taken # NoRequest => (pc \in {"leaving", "over"} <=> taken.code = "EXIT")

\* Both clients show what the server means: its answer with the users' names,
\* the message as its sender's worker took it, and the news that a message
\* or a file, whichever it was, has been sent.
ShownAsSent ==
  /\ shown # NoAnswer /\ answered # NoAnswer => shown = answered
  /\ displayed # Nothing =>
       displayed = [src |-> taken.msg.src, text |-> taken.msg.content,
                    saved |-> Base(taken.msg.title)]
  /\ noticed # NoAnswer =>
       noticed = Answer(IF taken.code = "SEND_FILE" THEN "FILE_SENT" ELSE "MSG_SENT")
=============================================================================
