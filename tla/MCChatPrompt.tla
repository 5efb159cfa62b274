---------------------------- MODULE MCChatPrompt ----------------------------
(* A small instance of ChatPrompt. *)
EXTENDS ChatPrompt

Letters == {"a", " ", "\\"}
Controls == {"tab", "^H", "^A", "^B", "^F", "^U", "^K", "^W", "^P", "^N", "^L"}
Arrows == {"[A", "[B", "[C", "[3~", "[F", "[15~"}
Entries == {<<>>, <<<<"a">>, <<"a", " ", "a">>>>}
=============================================================================
