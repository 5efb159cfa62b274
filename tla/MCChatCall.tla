----------------------------- MODULE MCChatCall -----------------------------
EXTENDS ChatCall

Answer == <<"thought", "text", "call", "call">>
=============================================================================
