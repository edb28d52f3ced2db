----------------------------- MODULE MCCollector -----------------------------
(* Collector for TLC: an up check with the metrics of ping, and a plain      *)
(* check with one metric.                                                    *)
EXTENDS Collector

PingAndCpu == <<"web.ping", "web.cpu">>
PingMetrics == <<"is_alive", "rtt">>
OneMetric == [a \in Attempt |-> IF a = "web.ping" THEN PingMetrics ELSE <<"load">>]
=============================================================================
