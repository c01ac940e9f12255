--------------------------- MODULE MCAgentRuntime ---------------------------
(* Instances of AgentRuntime for TLC. *)
EXTENDS AgentRuntime

Space == Typed(<<"sp">>)
Mail == Typed(<<"acme", "@", "host">>)
Link == Typed(<<"http", "acme", "@", "host">>)
Address == Typed(<<"0x", "digits", "hexes">>)
Key == Typed(<<"sk">>)
Firm == Typed(<<"acme", "sp", "corp">>)
Wide == Typed(<<"wide", "wide", "acme">>)

Typable == {Link \o Space \o Address, Wide}
Noted == {Key \o Space \o Firm}
Hidden == {Firm}
Instructions == {Mail \o Space \o Firm}
Given == <<Typed(<<"acme">>)>>

SplitHashes == {Entry("API_KEY", Key)}
=============================================================================
