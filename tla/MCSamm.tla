------------------------------- MODULE MCSamm -------------------------------
(* Samm for TLC: one host with its ping and one check that waits for it.     *)
EXTENDS Samm

OneHostChecks   == [i \in {"web"} |-> <<"ping", "cpu">>]
OneHostAttempts == << <<"web", "ping">>, <<"web", "cpu">> >>
WebPing         == [i \in {"web"} |-> "ping"]
TwoPings        == [a \in Attempt |-> IF IsUpCheck(a) THEN 2 ELSE 1]
=============================================================================
