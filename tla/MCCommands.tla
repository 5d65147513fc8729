------------------------------ MODULE MCCommands ------------------------------
EXTENDS Commands

\* Every command with its words as they are meant, and lines that are nearly
\* commands: a word too many or too few, capitals, spaces anywhere, and
\* separators and their escapes in every field.
MCLines ==
  { <<"exit">>, <<" ", "EXIT", " ">>, <<"exit", " ", "a">>, <<"Who">>, <<"who", " ", "a">>,
    <<>>, <<" ">>, <<"help">>, <<" ", "help">>, <<"other", " ", "a", " ", "a">>,
    <<"joing", " ", "a">>, <<"joing", " ", "a", ":", EscMsg>>, <<"joing", " ", "a", " ", "a">>,
    <<"createg", " ", ";", "a">>, <<"createg">>,
    <<"sendmsg", " ", "a">>, <<"SENDMSG", " ", " ", "a", ";", " ", "a", " ", " ", ":", " ">>,
    <<"sendmsg", " ", "a", " ", EscField, "a">>, <<"sendmsg", " ", ";", " ", ";">>,
    <<"sendg", " ", "a", " ", "a", " ", "exit">>, <<"sendg", " ", ":", " ", ";", ":">>,
    <<"sendf", " ", "a", " ", "f">>, <<"sendf", " ", "a", ":", " ", "/", "f", " ", "a", "/", ";", "f">>,
    <<"sendf", " ", "a", " ", "a", "\\", "f">>,
    <<"sendf", " ", "a", " ", "nofile">>, <<"sendf", " ", "a">> }

MCNames == { <<>>, <<"a">>, <<"a", ";">>, <<EscMsg, "a">>, <<"a", " ", "b">> }

MCMember == <<"m", ":">>

MCLowerOf == [c \in {"EXIT", "Who", "SENDMSG"} |->
                CASE c = "EXIT" -> "exit" [] c = "Who" -> "who" [] c = "SENDMSG" -> "sendmsg"]

\* The file "nofile" cannot be read.
MCFileAt ==
  (<<"f">> :> <<"a", ";", EscField, "\n", ":">>)
    @@ (<<"/", "f", " ", "a", "/", ";", "f">> :> <<" ">>)
    @@ (<<"a", "\\", "f">> :> <<";">>)
=============================================================================
