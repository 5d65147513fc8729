------------------------------- MODULE Mailbox --------------------------------
(***************************************************************************)
(* What the chat server promises of the messages it has queued, without    *)
(* threads, sockets or registry: a message stays in the store until it is  *)
(* handed over, that happens once, and only while both the user it is from *)
(* and the user it is for have a session.                                  *)
(***************************************************************************)
CONSTANTS
  Users,        \* who can have a session
  Letters,      \* what can be queued
  From,         \* the user each letter is from
  To,           \* the user each letter is for
  Key           \* no two queued letters have the same key

VARIABLES
  sessions,     \* the users that have a session
  store         \* the letters that are queued

mailboxVars == <<sessions, store>>

-----------------------------------------------------------------------------
Init == sessions = {} /\ store = {}

Login(u) == sessions' = sessions \cup {u} /\ UNCHANGED store

Logout(u) == sessions' = sessions \ {u} /\ UNCHANGED store

\* One request may queue several letters (a message to a group).
Queue ==
  /\ store \subseteq store'
  /\ store' \subseteq Letters
  /\ \A k, l \in store' : Key[k] = Key[l] => k = l
  /\ UNCHANGED sessions

Deliver(m) ==
  /\ m \in store
  /\ {From[m], To[m]} \subseteq sessions
  /\ store' = store \ {m}
  /\ UNCHANGED sessions

Next ==
  \/ \E u \in Users : Login(u) \/ Logout(u)
  \/ Queue
  \/ \E m \in store : Deliver(m)

Spec == Init /\ [][Next]_mailboxVars
=============================================================================
