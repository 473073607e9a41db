----------------------------- MODULE MCVerdict -----------------------------
(* A small world of names, trails and traffic for the verdict path.        *)
EXTENDS HttpPath

late  == <<"late", "com">>
plat  == <<"plat", "net">>
evil  == <<"evil", "plat", "net">>
deep  == <<"a", "evil", "plat", "net">>
fine  == <<"ok", "plat", "net">>
ns    == <<"ns1", "susp", "com">>
susp  == <<"susp", "com">>
dyn   == <<"www", "dyn", "com">>
onion == <<"abc", "onion", "ws">>
gate  == <<"late", "com", "ip-adress", "com">>
brand == <<"xn--brand", "com">>
wild  == <<"w", "wild", "com">>
ask   == <<"ask", "com">>
alias == <<"alias", "com">>
host  == <<"93", "1", "1", "1">>
z1    == <<"p1", "zone", "com">>
z2    == <<"p2", "zone", "com">>
z3    == <<"p3", "zone", "com">>
zbad  == <<"bad", "zone", "com">>
n1    == <<"q1", "gone", "com">>
n2    == <<"q2", "gone", "com">>
dga   == <<"xqzvkj", "com">>

NameList == <<late, plat, evil, deep, fine, ns, susp, dyn, onion, gate, brand, wild, ask,
              alias, host, z1, z2, z3, zbad, n1, n2, dga>>

\* Late and dyn share a hash; all names meet in two doorkeeper slots.
MCHashOf ==
  [q \in Range(NameList) |->
     IF q = dyn THEN 1 ELSE CHOOSE i \in DOMAIN NameList : NameList[i] = q]

Table(pairs) == [k \in {p[1] : p \in pairs} |-> (CHOOSE p \in pairs : p[1] = k)[2]]

FirstTrails ==
  [exact |-> Table({<<evil, "malware">>, <<susp, "suspicious">>, <<<<"dyn", "com">>, "dynamic">>,
                    <<<<"abc", "onion">>, "malware">>, <<ask, "ipinfo">>, <<alias, "ipinfo">>,
                    <<zbad, "malware">>}),
   wild |-> Table({<<wild, "malware">>}),
   ips |-> Table({<<<<"sink">>, "sinkhole">>, <<<<"c2", 53>>, "malware">>}),
   urls |-> Table({<<fine \o <<"kit">>, "malware">>, <<<<"gate.php">>, "malware">>})]

MCTrailSets ==
  <<FirstTrails,
    [FirstTrails EXCEPT !.exact = Table({<<late, "malware">>, <<evil, "malware">>,
                                         <<ask, "malware">>, <<alias, "ipinfo">>})]>>

MCWhitelist == {plat}

MCImpersonators == {brand}

Query(q, f, d) ==
  [kind |-> "dns", flags |-> "query", name |-> q, src |-> "lan", dst |-> "resolver",
   flow |-> f, digest |-> d, type |-> "checked", targets |-> <<>>, answer |-> "none"]

Reply(q, flags, type, targets, ip) ==
  [kind |-> "dns", flags |-> flags, name |-> q, src |-> "resolver", dst |-> "lan",
   flow |-> "back", digest |-> flags, type |-> type, targets |-> targets, answer |-> ip]

Sni(q) == [kind |-> "sni", name |-> q]

Request(h, form, target, checks) ==
  [kind |-> "http", src |-> "lan", dst |-> "web", hasHost |-> TRUE, host |-> h, form |-> form,
   target |-> target, checks |-> checks, iot |-> FALSE, probe |-> FALSE,
   codeExecution |-> FALSE, oddAgent |-> FALSE, whitelistedPath |-> FALSE,
   pathFinding |-> "none", bodyFinding |-> FALSE, download |-> FALSE, oddFile |-> FALSE]

Page(p) == [kind |-> "response", page |-> p, oddType |-> p = "plain"]

ToPublic(reply) == [reply EXCEPT !.dst = "peer"]

Traffic(traffic, maxPackets, maxTime, maxViews) ==
  [traffic |-> traffic, maxPackets |-> maxPackets, maxTime |-> maxTime, maxViews |-> maxViews]

\* Names that come back, on a cache of two, two of them with one hash.
Recurring == Traffic({Sni(late), Sni(dyn), Sni(gate), Sni(n1)}, 7, 0, 2)

\* The precedence rules, each shape of name twice.
Shapes == Traffic({Query(deep, "f", "d1"), Query(fine, "f", "d2"), Query(ns, "f", "d2"),
                   Sni(onion), Sni(brand), Sni(wild), Sni(host), Sni(evil)}, 3, 0, 2)

\* A listed name behind an alias, asked for before and after.
Chains == Traffic({Query(ask, "f", "d1"), Sni(brand),
                   Reply(ask, "ok", "checked", <<dyn, alias>>, "sink"),
                   [Reply(ask, "okPlain", "unchecked", <<brand, alias>>, "none")
                      EXCEPT !.digest = "six"],
                   Reply(late, "ok", "checked", <<brand, evil>>, "sink")}, 4, 1, 2)

\* A listed name behind an alias of one that was clean before the reload.
Reloaded == Traffic({Query(late, "f", "d1"), Sni(gate), Sni(n1),
                     Reply(late, "ok", "checked", <<evil>>, "none")}, 9, 0, 2)

\* A flood of subdomains of one zone, one of them listed.
Flood == Traffic({Query(z1, "f", "d1"), Query(z2, "f", "d2"), Query(zbad, "f", "d3")}, 6, 6, 1)

\* Names that do not exist, and datagrams that are passed over.
Missing == Traffic({ToPublic(Reply(n1, "nx", "checked", <<>>, "none")),
                    ToPublic([Reply(n2, "nx", "checked", <<>>, "none") EXCEPT !.digest = "two"]),
                    Reply(dga, "nx", "checked", <<>>, "none"),
                    Reply(susp, "nx", "checked", <<>>, "none"),
                    Reply(ask, "failure", "checked", <<>>, "none"),
                    [Query(ask, "f", "cut") EXCEPT !.type = "cut"],
                    [Query(ask, "f", "ptr") EXCEPT !.type = "unchecked"]}, 5, 1, 1)

Web == Traffic({Request(late, "slash", <<>>, <<"x", "gate.php">>),
                Request(fine, "absolute", fine, <<"kit">>),
                [Request(late, "absolute", brand, <<>>) EXCEPT !.probe = TRUE],
                [Request(dyn, "connect", late, <<>>) EXCEPT !.oddAgent = TRUE, !.download = TRUE],
                [Request(host, "slash", <<>>, <<>>) EXCEPT !.iot = TRUE],
                [Request(fine, "slash", <<>>, <<>>) EXCEPT !.pathFinding = "leakage"],
                [Request(host, "other", <<>>, <<>>) EXCEPT !.hasHost = FALSE, !.bodyFinding = TRUE],
                [Request(late, "embedded", evil, <<>>) EXCEPT !.dst = "sink"],
                Page("sinkhole"), Page("plain")}, 3, 0, 2)

MCOffers == {Recurring, Shapes, Chains, Reloaded, Flood, Missing, Web}

StaleOffers == {Recurring}

=============================================================================
