------------------------------- MODULE MCNode -------------------------------
(* Model values, small functions and sequences for the run of Node. *)
EXTENDS Node, TLC

CONSTANTS a, b

Step(version, rewrite) == [from |-> version - 1, to |-> version, rewrite |-> rewrite]
MCTables == <<"log", "reg">>
MCRegistry == "log" :> <<Step(1, FALSE)>> @@ "reg" :> <<Step(1, TRUE), Step(2, TRUE)>>
MCOptions == {[max_records |-> 1, max_bytes |-> 7], [max_records |-> 2, max_bytes |-> 14],
              [max_records |-> 2, max_bytes |-> 3]}
MCOffers == {<<a, b>>, <<b>>}
MCKeys == 1 .. 6
MCSizeOf == <<1, 1, 2, 1, 2, 3>>
MCJson == "a" :> <<7>> @@ "b" :> <<8, 8>> @@ "c" :> <<9, 9, 9>> @@ "d" :> <<6>>
\* "b" carries a value of one cell, and "a" the byte of a format.
MCPayload == [Json |-> MCJson, Bincode |-> [MCJson EXCEPT !["a"] = <<2>>]]
MCChecked == "a" :> 1 @@ "b" :> 1 @@ "c" :> 3 @@ "d" :> 1

\* Settings of the named layers, with every one of the values.
Given(layers, field, values) == {[layer |-> l, field |-> field, value |-> v] : l \in layers, v \in values}
EveryLayer == {"cli", "env", "file"}
MCModeSettings ==
    UNION {Given(EveryLayer, "mode", {"static", "bootstrap", "mdns"}), Given(EveryLayer, "seeds", {1}), Given(EveryLayer, "instance_name", {1}),
           Given({"env"}, "instance_name", {0}), Given({"env", "file"}, "max_instances", {2}), Given({"cli"}, "listen", {1})}
MCCapacitySettings ==
    UNION {Given({"cli", "file"}, "mode", {"static", "bootstrap"}), Given({"env"}, "seeds", {1}), Given({"env", "file"}, "retry_initial", {0, 3}),
           Given({"env", "file"}, "retry_max", {1, 3}), Given({"env"}, "max_candidates", {1, 5}), Given({"file"}, "max_candidates", {3}),
           Given({"cli", "file"}, "peers", {2, 5}), Given({"cli"}, "listen", {1})}
MCTlsSettings ==
    UNION {Given({"env"}, "listen", {1}), Given(EveryLayer, "cert", {1}), Given({"cli", "file"}, "key", {1}), Given(EveryLayer, "ca", {1}),
           Given(EveryLayer, "allowed_peers", {1}), Given({"cli", "file"}, "allowed_peers", {0}), Given(EveryLayer, "insecure", {1}),
           Given({"env"}, "insecure", {0}), Given({"env"}, "cert", {0})}
MCSyncSettings ==
    UNION {Given(EveryLayer, "listen", {1}), Given({"cli"}, "sync_only", {1}), Given({"cli", "env"}, "ca", {1}),
           Given({"cli"}, "allowed_peers", {1}), Given({"env"}, "insecure", {0, 1}), Given({"cli", "file"}, "peers", {0, 1}),
           Given({"file"}, "serialization_format", {1}), Given({"file"}, "queued_ops_limit", {0, 1}),
           Given({"file"}, "reconnect_initial_delay", {3}), Given({"file"}, "reconnect_max_delay", {1, 3})}
MCSettingGroups == {MCModeSettings, MCCapacitySettings, MCTlsSettings, MCSyncSettings}
=============================================================================
