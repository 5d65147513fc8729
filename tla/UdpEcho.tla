-------------------------------- MODULE UdpEcho --------------------------------
(***************************************************************************)
(* The UDP clients of the exercises (trab_6/client_udp.c, its connected    *)
(* variant client_udp_connected.c, and the UDP half of                     *)
(* trab_7/client_tcp_udp.c) and the network between them and an echo       *)
(* server.  A client sends a line and takes the next datagram for the      *)
(* answer, however long it takes; the network loses, copies and delays     *)
(* datagrams, and other programs send some of their own.                   *)
(*                                                                         *)
(* What a server does with a datagram is Echo; when it does it is up to    *)
(* the module of the server.                                               *)
(***************************************************************************)
EXTENDS Naturals, Bags, FiniteSetsExt

CONSTANTS
  Clients,    \* the UDP clients
  Connected,  \* those that have connected their socket
  MaxLines,   \* bound: how many lines the users of UDP type in all
  MaxFaults   \* bound: how many datagrams are lost, copied or sent by others

ASSUME UdpAssumption == Connected \subseteq Clients /\ {MaxLines, MaxFaults} \subseteq Nat

VARIABLES
  udp,       \* where each client is; one that has left is one that stays at its prompt
  asked,     \* how many lines it has sent
  answer,    \* the datagram that it took for the answer to the last one
  requests,  \* the datagrams that wait at the server's port, as a bag
  answers,   \* the datagrams on their way to the clients, as a bag
  lost,      \* the clients that lost a datagram to the network
  extra,     \* the clients that were sent one they had not asked for
  faults     \* how many faults there were

netVars == <<requests, answers, lost, extra, faults>>
udpVars == <<udp, asked, answer, netVars>>

\* A datagram holds a client's line; dst is where it goes.
Datagram(c, line, dst) == [of |-> c, line |-> line, dst |-> dst]

\* A datagram that is not from the server.
Stray(c) == Datagram("other", 0, c)

NoDatagram == Datagram("none", 0, "none")

One(datagram) == SetToBag({datagram})

Total(count, S) == MapThenSumSet(LAMBDA c : count[c], S)

UdpInit ==
  /\ udp = [c \in Clients |-> "prompt"]
  /\ asked = [c \in Clients |-> 0]
  /\ answer = [c \in Clients |-> NoDatagram]
  /\ requests = EmptyBag /\ answers = EmptyBag
  /\ lost = {} /\ extra = {} /\ faults = 0

-----------------------------------------------------------------------------
(* Clients.                                                                *)

Fault == faults < MaxFaults /\ faults' = faults + 1

\* The line arrives at the server's port, or is lost on its way.
Ask(c) ==
  /\ udp[c] = "prompt" /\ Total(asked, Clients) < MaxLines
  /\ udp' = [udp EXCEPT ![c] = "waiting"]
  /\ asked' = [asked EXCEPT ![c] = @ + 1]
  /\ \/ /\ requests' = requests (+) One(Datagram(c, asked'[c], c))
        /\ UNCHANGED <<lost, faults>>
     \/ /\ Fault
        /\ lost' = lost \cup {c}
        /\ UNCHANGED requests
  /\ UNCHANGED <<answer, answers, extra>>

\* Whatever comes ends the wait.  Of a datagram that is not from the server
\* only its address is shown, in a warning.
Receive(c, datagram) ==
  /\ udp[c] = "waiting" /\ BagIn(datagram, answers) /\ datagram.dst = c
  /\ udp' = [udp EXCEPT ![c] = "prompt"]
  /\ answer' = [answer EXCEPT ![c] = datagram]
  /\ answers' = answers (-) One(datagram)
  /\ UNCHANGED <<asked, requests, lost, extra, faults>>

-----------------------------------------------------------------------------
(* The network.                                                            *)

\* An answer is lost.
Lose(datagram) ==
  /\ Fault
  /\ BagIn(datagram, answers)
  /\ answers' = answers (-) One(datagram)
  /\ lost' = lost \cup {datagram.dst}
  /\ UNCHANGED <<udp, asked, answer, requests, extra>>

\* A line arrives twice.
Copy(datagram) ==
  /\ Fault
  /\ BagIn(datagram, requests)
  /\ requests' = requests (+) One(datagram)
  /\ extra' = extra \cup {datagram.dst}
  /\ UNCHANGED <<udp, asked, answer, answers, lost>>

\* Another program sends to a client; the kernel keeps it from a socket that
\* is connected to the server.
Intrude(c) ==
  /\ Fault
  /\ c \notin Connected
  /\ answers' = answers (+) One(Stray(c))
  /\ extra' = extra \cup {c}
  /\ UNCHANGED <<udp, asked, answer, requests, lost>>

\* Nobody has the port: the news of it reaches the client whose socket is
\* connected, as an error of its next call.
Refuse(datagram) ==
  /\ BagIn(datagram, requests)
  /\ requests' = requests (-) One(datagram)
  /\ IF datagram.dst \in Connected
     THEN udp' = [udp EXCEPT ![datagram.dst] = "gone"] /\ UNCHANGED lost
     ELSE lost' = lost \cup {datagram.dst} /\ UNCHANGED udp
  /\ UNCHANGED <<asked, answer, answers, extra, faults>>

-----------------------------------------------------------------------------
(* The server takes a datagram and sends its text back to where it came    *)
(* from.                                                                   *)

Echo(datagram) ==
  /\ BagIn(datagram, requests)
  /\ requests' = requests (-) One(datagram)
  /\ answers' = answers (+) One(datagram)
  /\ UNCHANGED <<udp, asked, answer, lost, extra, faults>>

UdpClient(c) == Ask(c) \/ \E datagram \in DOMAIN answers : Receive(c, datagram)

Network ==
  \/ \E datagram \in DOMAIN answers : Lose(datagram)
  \/ \E datagram \in DOMAIN requests : Copy(datagram)
  \/ \E c \in Clients : Intrude(c)

-----------------------------------------------------------------------------
(* Properties.                                                             *)

\* Unless a datagram was copied or sent by another program, the text a client
\* shows as the answer to a line is that line, although nothing in a datagram
\* says what it answers.
UdpInStep ==
  \A c \in Clients : udp[c] = "prompt" /\ asked[c] > 0 /\ c \notin extra =>
                       answer[c] = Datagram(c, asked[c], c)
=============================================================================
