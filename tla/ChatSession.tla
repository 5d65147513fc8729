----------------------------- MODULE ChatSession ------------------------------
(***************************************************************************)
(* One session of the chat, from both ends: the client with its observer   *)
(* thread (project/src/client.cpp), the worker that serves it and the      *)
(* messages loop that may write to it (project/src/server.cpp), and        *)
(* between them a connection that is read through a NetReceiver at either  *)
(* end (Receiver).                                                         *)
(*                                                                         *)
(* What the requests and the answers say is left out: requests are         *)
(* numbered by the client, what the server writes is numbered by the       *)
(* server.  Both ends live, and commands that build no request are left    *)
(* out.                                                                    *)
(***************************************************************************)
EXTENDS Integers, Sequences

CONSTANTS
  MaxRequests,     \* bound on the requests between REGISTER and EXIT
  MaxIncoming      \* bound on what the messages loop writes

ASSUME ChatSessionAssumption == MaxRequests \in Nat /\ MaxIncoming \in Nat

VARIABLES
  patient,     \* the user waits for the server to take each request
  client,      \* where the main thread of the client is
  observer,    \* where its observer thread is
  asked,       \* how many requests were sent, REGISTER and EXIT included
  shown,       \* what handle has shown of what the server wrote
  worker,      \* where the worker is
  handled,     \* the requests it has handled
  online,      \* the user is in the online group
  written,     \* how many times the server has written to the connection
  incoming,    \* how many of them were the messages loop's
  up, upHeld, upContent,           \* the client's stream, as the worker reads it
  down, downHeld, downContent      \* the server's stream, as the client reads it

clientVars == <<client, observer, asked, shown>>
serverVars == <<worker, handled, online, written, incoming>>
upVars == <<up, upHeld, upContent>>
downVars == <<down, downHeld, downContent>>
vars == <<patient, clientVars, serverVars, upVars, downVars>>

-----------------------------------------------------------------------------
Numbered(kind, n) == [kind |-> kind, no |-> n]

Requests == [kind : {"REGISTER", "request", "EXIT"}, no : 1..MaxRequests + 2]
\* A torn message has lost its beginning.
Writes == [kind : {"OK", "answer", "incoming", "torn"}, no : 1..MaxRequests + MaxIncoming + 2]

Up == INSTANCE Receiver WITH
  Message <- Requests, channel <- up, held <- upHeld, content <- upContent

Down == INSTANCE Receiver WITH
  Message <- Writes, channel <- down, held <- downHeld, content <- downContent

TypeOK ==
  /\ patient \in BOOLEAN
  /\ client \in {"register", "wait", "run", "leaving", "over"}
  /\ observer \in {"off", "on", "done"}
  /\ asked \in 0..MaxRequests + 2
  /\ shown \in Seq(Writes)
  /\ worker \in {"register", "greet", "recv", "answer", "unregister", "close", "gone"}
  /\ handled \in Seq(Requests)
  /\ online \in BOOLEAN
  /\ written \in 0..MaxRequests + MaxIncoming + 2
  /\ incoming \in 0..MaxIncoming
  /\ up \in Seq(Requests) /\ upHeld \in Seq(Requests) /\ upContent \in Seq(Requests)
  /\ down \in Seq(Writes) /\ downHeld \in Seq(Writes) /\ downContent \in Seq(Writes)

Init ==
  /\ patient \in BOOLEAN
  /\ client = "register" /\ observer = "off" /\ asked = 0 /\ shown = <<>>
  /\ worker = "register" /\ handled = <<>> /\ online = FALSE
  /\ written = 0 /\ incoming = 0
  /\ Up!Init /\ Down!Init

-----------------------------------------------------------------------------
(* The client.                                                             *)

Ask(kind) ==
  /\ asked' = asked + 1
  /\ Up!Send(Numbered(kind, asked + 1))

\* handle takes the content for the message that is in front of it, and shows
\* nothing of a message that it does not know.
Show(k) ==
  /\ Down!Recv(k)
  /\ shown' = IF Head(downContent').kind = "torn" THEN shown
              ELSE Append(shown, Head(downContent'))

Register ==
  /\ client = "register"
  /\ client' = "wait"
  /\ Ask("REGISTER")
  /\ UNCHANGED <<patient, observer, shown, serverVars, downVars>>

\* registerUser takes the first content for its answer, shows it and goes on:
\* none of what the server writes in a session is an error.  Its receiver is
\* gone when it returns, with what was held in it: whole messages, and the
\* beginning of the next if a part of it was received.
Registered(k, torn) ==
  LET rest == SubSeq(down, k + 1, Len(down)) IN
  /\ client = "wait"
  /\ downContent' = <<Head(down)>>
  /\ torn => rest # <<>>
  /\ down' = IF torn THEN [rest EXCEPT ![1].kind = "torn"] ELSE rest
  /\ downHeld' = <<>>
  /\ shown' = Append(shown, Head(down))
  /\ client' = "run"
  /\ observer' = "on"
  /\ UNCHANGED <<patient, asked, serverVars, upVars>>

\* A user that is patient lets the worker take a request before the next.
MayAsk == patient => up = <<>> /\ upHeld = <<>>

Command ==
  /\ client = "run"
  /\ asked <= MaxRequests
  /\ MayAsk
  /\ Ask("request")
  /\ UNCHANGED <<patient, client, observer, shown, serverVars, downVars>>

Exit ==
  /\ client = "run"
  /\ MayAsk
  /\ client' = "leaving"
  /\ Ask("EXIT")
  /\ UNCHANGED <<patient, observer, shown, serverVars, downVars>>

Observe(k) ==
  /\ observer = "on"
  /\ Show(k)
  /\ UNCHANGED <<patient, client, observer, asked, serverVars, upVars>>

\* The end of the stream; what is held is never looked at.
ObserveEof ==
  /\ observer = "on"
  /\ down = <<>> /\ worker = "gone"
  /\ observer' = "done"
  /\ UNCHANGED <<patient, client, asked, shown, serverVars, upVars, downVars>>

\* Fault: the client does not wait for its observer.
LeaveAtOnce ==
  /\ client = "leaving"
  /\ client' = "over"
  /\ UNCHANGED <<patient, observer, asked, shown, serverVars, upVars, downVars>>

\* The client joins its observer and closes the connection.
Leave ==
  /\ client = "leaving"
  /\ observer = "done"
  /\ client' = "over"
  /\ UNCHANGED <<patient, observer, asked, shown, serverVars, upVars, downVars>>

-----------------------------------------------------------------------------
(* The server.                                                             *)

Write(kind) ==
  /\ written' = written + 1
  /\ Down!Send(Numbered(kind, written + 1))

Current == handled[Len(handled)]

Take(k) ==
  /\ Up!Recv(k)
  /\ handled' = Append(handled, Head(upContent'))

\* registerUser: REGISTER is received, and the user gets online.
TakeRegister(k) ==
  /\ worker = "register"
  /\ Take(k)
  /\ worker' = "greet"
  /\ online' = TRUE
  /\ UNCHANGED <<patient, clientVars, written, incoming, downVars>>

Greet ==
  /\ worker = "greet"
  /\ worker' = "recv"
  /\ Write("OK")
  /\ UNCHANGED <<patient, clientVars, handled, online, incoming, upVars>>

TakeRequest(k) ==
  /\ worker = "recv"
  /\ Take(k)
  /\ worker' = "answer"
  /\ UNCHANGED <<patient, clientVars, online, written, incoming, downVars>>

\* Fault: the worker goes on after EXIT.
AnswerExitIgnored ==
  /\ worker = "answer"
  /\ worker' = "recv"
  /\ Write(IF Current.kind = "EXIT" THEN "OK" ELSE "answer")
  /\ UNCHANGED <<patient, clientVars, handled, online, incoming, upVars>>

\* EXIT is answered OK and ends the session.
Answer ==
  LET exit == Current.kind = "EXIT" IN
  /\ worker = "answer"
  /\ worker' = IF exit THEN "unregister" ELSE "recv"
  /\ Write(IF exit THEN "OK" ELSE "answer")
  /\ UNCHANGED <<patient, clientVars, handled, online, incoming, upVars>>

Unregister ==
  /\ worker = "unregister"
  /\ worker' = "close"
  /\ online' = FALSE
  /\ UNCHANGED <<patient, clientVars, handled, written, incoming, upVars, downVars>>

Close ==
  /\ worker = "close"
  /\ worker' = "gone"
  /\ UNCHANGED <<patient, clientVars, handled, online, written, incoming, upVars,
                 downVars>>

\* Fault: the message is not deleted when it was delivered.
DeliverAgain ==
  /\ online
  /\ incoming < MaxIncoming
  /\ Write("incoming")
  /\ UNCHANGED <<patient, clientVars, worker, handled, online, incoming, upVars>>

\* Fault: the loop writes whether the user is online or not.
DeliverOffline ==
  /\ incoming < MaxIncoming
  /\ incoming' = incoming + 1
  /\ Write("incoming")
  /\ UNCHANGED <<patient, clientVars, worker, handled, online, upVars>>

\* The messages loop writes a message, or MSG_SENT, to a user that is online.
Deliver ==
  /\ online
  /\ incoming < MaxIncoming
  /\ incoming' = incoming + 1
  /\ Write("incoming")
  /\ UNCHANGED <<patient, clientVars, worker, handled, online, upVars>>

-----------------------------------------------------------------------------
Reception ==
  \/ \E k \in 1..Len(down) : Observe(k) \/ \E torn \in BOOLEAN : Registered(k, torn)
  \/ ObserveEof \/ Leave

ClientStep == Register \/ Command \/ Exit \/ Reception

WorkerStep ==
  \/ \E k \in 1..Len(up) : TakeRegister(k) \/ TakeRequest(k)
  \/ Greet \/ Answer \/ Unregister \/ Close

Next == ClientStep \/ WorkerStep \/ Deliver

Spec == Init /\ [][Next]_vars

\* Both programs run.  Nothing makes the user type, and nothing makes others
\* send it messages.
FairSpec == Spec /\ WF_vars(Register \/ Reception) /\ WF_vars(WorkerStep)

-----------------------------------------------------------------------------
(* Properties.                                                             *)

Increasing(s) == \A i, j \in DOMAIN s : i < j => s[i].no < s[j].no

\* However they are cut and held back, requests are handled and answers are
\* shown in the order they were sent, and none of them twice.
InOrder == Increasing(handled) /\ Increasing(shown)

\* The client closes the connection after the server: no send of the server
\* fails because a client has left with exit, and when the client has left,
\* EXIT is what the server handled last.
ServerClosesFirst ==
  client = "over" => worker = "gone" /\ Current.kind = "EXIT"

\* After the server has closed, nothing is written to the connection.
NothingAfterClose == [][worker = "gone" => UNCHANGED written]_vars

\* A patient user that says exit leaves.
PatientLeaves == patient /\ client = "leaving" ~> client = "over"

-----------------------------------------------------------------------------
(* What the client's help says and the code does not keep.                 *)

\* client.cpp:55, the help on "exit" says that it "exits chat".
ExitsChat == client = "leaving" ~> client = "over"
=============================================================================
