-------------------------------- MODULE MCAgent -------------------------------
(* Every source; exporters and clients where the source is simple.  Many   *)
(* query documents with the simplest configuration, and many               *)
(* configurations with two simple queries.                                 *)
EXTENDS Agent

Conf(s, e, n, w) == [source |-> s, exporters |-> e, requests |-> n, windows |-> w]

MCSetup == {Conf("pcap", {"otlp"}, 0, 2), Conf("pcap", {"gateway"}, 0, 0),
            Conf("pcap", {}, 2, 0), Conf("single", {}, 0, 0), Conf("fanout", {}, 0, 0),
            Conf("ebpf", {}, 0, 0), Conf("fallback", {}, 0, 0)}

(* epsilon 0.5, 0.0163, 0.001 and 0.0001, with delta 0.01; the last row has *)
(* a delta that is too small.                                              *)
MCAccuracy ==
  [loose  |-> [width |-> 6, depth |-> 5, capacity |-> 2, precision |-> 3, k |-> 5],
   hll    |-> [width |-> 167, depth |-> 5, capacity |-> 62, precision |-> 12, k |-> 142],
   tight  |-> [width |-> 27183, depth |-> 5, capacity |-> 10000, precision |-> 27, k |-> 23000],
   unsure |-> [width |-> 2719, depth |-> 0, capacity |-> 1000, precision |-> 21, k |-> 2300]]

Talkers == [name |-> "talkers", size |-> 2, slide |-> 1, group |-> <<"srcIp">>, filter |-> TRUE,
            measure |-> "heavy_hitters", field |-> "bytes", limit |-> 10, q |-> 50,
            error |-> "hll", lt |-> FALSE, series |-> 10, memory |-> <<>>]

Documents ==
  [name : {"a"}, size : {2}, slide : {1, 2}, group : {<<>>, <<"srcIp">>}, filter : {TRUE},
   measure : {"count", "sum", "heavy_hitters", "distinct", "entropy", "quantile"},
   field : {"bytes", "dstIp"}, limit : {10}, q : {50}, error : DOMAIN MCAccuracy,
   lt : BOOLEAN, series : {10, 1000, 70000}, memory : {<<>>, <<MiB>>, <<4 * MiB>>}]
  \cup {[Talkers EXCEPT !.name = "none"], [Talkers EXCEPT !.slide = 0],
        [Talkers EXCEPT !.size = 3, !.slide = 2], [Talkers EXCEPT !.size = 1, !.slide = 2],
        [Talkers EXCEPT !.group = <<"srcIp", "srcIp">>], [Talkers EXCEPT !.group = <<"what">>],
        [Talkers EXCEPT !.filter = FALSE], [Talkers EXCEPT !.measure = "what"],
        [Talkers EXCEPT !.field = "none"],
        [Talkers EXCEPT !.limit = 0], [Talkers EXCEPT !.error = "zero"],
        [Talkers EXCEPT !.series = 0], [Talkers EXCEPT !.limit = 100000],
        [Talkers EXCEPT !.group = <<"srcIp", "dstIp", "dstPort">>],
        [Talkers EXCEPT !.group = <<>>, !.measure = "quantile", !.q = 101]}

Source(kind, block, count, retire, buffer) ==
  [kind |-> kind, named |-> TRUE, block |-> block, count |-> count, retire |-> retire,
   buffer |-> buffer]

Unpinned == [given |-> FALSE, capture |-> <<>>, runtime |-> <<>>]

Simple == [queries |-> <<Talkers, [Talkers EXCEPT !.name = "others", !.measure = "count"]>>,
           shards |-> 2, batch |-> 4096, strategy |-> "flow", memory |-> 256 * MiB,
           node |-> "a", exporters |-> {}, http |-> TRUE, cpus |-> Unpinned,
           source |-> Source("pcap", MiB, 64, 64, 16 * MiB)]

Sources ==
  {Simple.source} \cup
  {Source(kind, block, count, 64, 0) : kind \in {"single", "hash", "rxQueue"},
                                       block \in {KiB, 3 * 32 * KiB, MiB},
                                       count \in {0, 64, 600}} \cup
  {Source("single", MiB, 64, 0, 0), [Source("single", MiB, 64, 64, 0) EXCEPT !.named = FALSE]}
  \cup {Source(kind, 0, 0, 0, buffer) : kind \in {"ebpf", "fallback"},
                                        buffer \in {KiB, 16 * MiB}}

Lists == {<<0>>, <<0, 1>>, <<1, 1>>, <<1, 1024>>}

MCConfig ==
  {[Simple EXCEPT !.queries = <<d>>] : d \in Documents} \cup
  {[Simple EXCEPT !.source = s, !.shards = n, !.cpus = c, !.strategy = y] :
     s \in Sources, n \in {1, 2},
     c \in {Unpinned} \cup [given : {TRUE}, capture : Lists, runtime : Lists],
     y \in {"flow", "roundRobin"}} \cup
  {[Simple EXCEPT !.exporters = e, !.http = h, !.node = n] :
     e \in {{"otlp"}, {"gateway"}}, h \in BOOLEAN, n \in {"none", "blank", "a"}} \cup
  {[Simple EXCEPT !.queries = <<>>], [Simple EXCEPT !.batch = 0],
   [Simple EXCEPT !.shards = 0],
   [Simple EXCEPT !.queries = <<Talkers, Talkers>>],
   [Simple EXCEPT !.memory = KiB], [Simple EXCEPT !.memory = MiB]}

(* One source and one client: enough for what a failing source leads to. *)
OneFile == {Conf("pcap", {}, 1, 0)}

OneConfig == {Simple}
===============================================================================
