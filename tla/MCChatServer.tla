---------------------------- MODULE MCChatServer ------------------------------
(* Small instances of ChatServer for TLC. *)
EXTENDS ChatServer, TLC

CONSTANTS c1, c2, c3, c4, ann, bob, club

\* Two clients of the same name, one of another name, and one without a name.
MCNameOf == [c \in Conns |-> CASE c = c3 -> bob [] c = c4 -> Unregistered [] OTHER -> ann]

\* No definition tells the two clients of the same name apart.
Twins == Permutations({c1, c2})
=============================================================================
