---------------------------- MODULE MCChatSystem ----------------------------
(* Instances of ChatSystem for TLC. *)
EXTENDS ChatSystem, TLC

CONSTANTS s1, s2

MCName == s1 :> <<"ann">> @@ s2 :> <<"bob">>
MCRoomArg == s1 :> <<"den">> @@ s2 :> <<"den">>

\* A join, a leave, quit, the empty line, and a text without and one with colons.
MCLine == {<<"/join", " ", "den">>, <<"/leave">>, <<"/quit">>, <<>>, <<"hi">>,
           <<"a", ":", "b", ":", "c", ":", "d">>}

\* The rooms that can be asked for.
MCRoomName == {<<"den">>}
MCUserName == {<<"ann">>, <<"bob">>}

\* Who is started as what.
MCPair == {s1 :> "sender" @@ s2 :> "receiver"}
=============================================================================
