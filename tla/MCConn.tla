------------------------------- MODULE MCConn -------------------------------
(* Instances of module Conn.                                               *)
EXTENDS Conn

CONSTANTS c1, c2, a, b

MCConns == {c1, c2}
MCKeys == {a, b}

TheScript(first, second) == (c1 :> first) @@ (c2 :> second)

(* Both clients have sent everything; or the first sends unit by unit.     *)
Calm(first, second) == Scenario(FALSE, TheScript(first, second), MCConns, 0, {}, 0, 0)
Slowly(first, second) == Scenario(FALSE, TheScript(first, second), {c2}, 0, {}, 0, 0)

(* Text requests.                                                          *)
T(cmd) == [Text EXCEPT !.cmd = cmd]
TK(cmd, key) == [Text EXCEPT !.cmd = cmd, !.keys = <<key>>]
TS(cmd, key, data) == [Text EXCEPT !.cmd = cmd, !.keys = <<key>>, !.data = data]
TSub(cmd, sub) == [Text EXCEPT !.cmd = cmd, !.sub = sub]
Bad(r) == [r EXCEPT !.ok = FALSE]
NoReply(r) == [r EXCEPT !.noreply = TRUE]

(* Binary requests; BE declares its extras in the header, BX sends them    *)
(* and declares none, the only kind of SET that is accepted.               *)
B(cmd) == [Binary EXCEPT !.cmd = cmd]
BK(cmd, key) == [Binary EXCEPT !.cmd = cmd, !.keys = <<key>>]
BV(cmd, key, data) == [BK(cmd, key) EXCEPT !.data = data]
BE(cmd, key) == [BK(cmd, key) EXCEPT !.ext = 1, !.extlen = 1]
BX(cmd, key, data) == [BV(cmd, key, data) EXCEPT !.ext = 1]

(* A gets and a cas on one connection while the other changes the counter  *)
(* in place, by a longer text, or deletes and adds it.                     *)
CasRaces ==
    {Calm(<<TS("set", a, <<9>>), TK("gets", a), TS("cas", a, <<1>>)>>, other) :
        other \in {<<TK("incr", a), TK("decr", a)>>,
                   <<TK("decr", a), TK("delete", a)>>,
                   <<TS("append", a, <<5>>)>>,
                   <<BE("incr", a), BE("decrq", a), B("noop")>>}}

(* A multiget that the client is slow to read.                             *)
SlowGet ==
    {Scenario(FALSE, TheScript(<<TS("set", a, <<1, 0>>),
                                 [T("gets") EXCEPT !.keys = <<a, b, a>>]>>, other), MCConns, 1, {}, 0, 0) :
        other \in {<<TK("decr", a), TK("delete", a)>>,
                   <<TS("prepend", a, <<1>>), TS("replace", a, <<2>>)>>,
                   <<BE("gat", a), BE("decr", a)>>}}

(* Flushes between stores, within and across seconds.                      *)
Flushes ==
    {Scenario(FALSE, TheScript(<<TS("set", a, <<9>>), T("flush_all"), TK("get", a)>>, other),
              MCConns, 0, {}, 2, 0) :
        other \in {<<TS("add", a, <<1>>), TK("incr", a)>>,
                   <<BE("incr", a), B("flush"), BE("incr", a)>>,
                   <<[TS("set", a, <<3>>) EXCEPT !.exptime = 1], [TK("touch", a) EXCEPT !.exptime = 2]>>}}

(* Requests that are refused, with data to throw away.                     *)
Refusals ==
    {Calm(<<TS("set", a, <<1>>), [TS("set", a, <<2>>) EXCEPT !.toolarge = TRUE], TK("get", a)>>,
          <<TS("add", b, <<1>>), [TS("set", b, <<2>>) EXCEPT !.crlf = FALSE], TK("get", b)>>),
     Calm(<<TS("set", a, <<1>>), [TS("set", a, <<2>>) EXCEPT !.toolarge = TRUE], TK("get", a)>>,
          <<[BV("append", a, <<2>>) EXCEPT !.toolarge = TRUE], B("noop"),
            [BX("setq", a, <<4>>) EXCEPT !.toolarge = TRUE], B("noop")>>),
     Calm(<<NoReply(TS("set", a, <<1>>)), NoReply([TS("set", a, <<2>>) EXCEPT !.crlf = FALSE]), TK("get", a)>>,
          <<TS("add", b, <<1>>), NoReply([TS("set", a, <<2>>) EXCEPT !.toolarge = TRUE]), T("version")>>)}

(* Memory runs out while replies hold items.                               *)
NoMemory ==
    {Scenario(FALSE, TheScript(<<TS("set", a, <<1>>), [T("get") EXCEPT !.keys = <<a, b>>]>>,
                               <<TS("set", b, <<2>>), TS("append", b, <<3>>),
                                 TS("set", a, <<4>>)>>), MCConns, 1, {}, 0, 0),
     Scenario(FALSE, TheScript(<<TS("set", a, <<1>>), [T("get") EXCEPT !.keys = <<a, b, a>>], T("version")>>,
                               <<TS("set", b, <<2>>), NoReply(TK("delete", a))>>), MCConns, 0, {}, 0, 2)}

(* The client hangs up in the middle of something.                         *)
HangsUp ==
    {Scenario(FALSE, TheScript(<<TS("set", a, <<1>>), TK("get", a), T("stats")>>, <<TK("get", a)>>),
              MCConns, 1, {c1, c2}, 0, 0),
     Scenario(FALSE, TheScript(<<BV("append", a, <<1>>), BE("incr", a), B("stat"), BK("get", a)>>, <<>>),
              {}, 1, {c1}, 0, 0)}

(* The binary commands, one connection at a time with a text client beside.*)
BinaryScripts ==
    {<<BE("incr", a), BK("getq", a), BK("getkq", b), BK("deleteq", a), B("quitq")>>,
     <<BE("incr", a), BK("getk", a), [BK("delete", a) EXCEPT !.cas = TRUE], BX("add", a, <<1>>), B("quit")>>,
     <<B("quit")>>,
     <<BE("incr", a), BK("get", a), [BE("incr", a) EXCEPT !.cas = TRUE],
       [BX("set", a, <<2>>) EXCEPT !.cas = TRUE], BK("get", a)>>,
     <<[BE("decr", a) EXCEPT !.exptime = NoCreate], BV("prepend", a, <<1>>), BE("touch", a),
       BE("gatkq", a), [B("flushq") EXCEPT !.ext = 1, !.extlen = 1], B("version")>>,
     <<B("stat"), [BK("stat", a) EXCEPT !.sub = "items"], [BK("stat", a) EXCEPT !.sub = "reset"],
       [BK("stat", a) EXCEPT !.sub = "detail dump"], [BK("stat", a) EXCEPT !.sub = "unknown"]>>,
     <<B("sasl_list_mechs"), BV("sasl_auth", a, <<1>>), BV("unknown", a, <<1>>),
       [BE("set", a) EXCEPT !.data = <<1>>], B("noop")>>,
     <<Bad(B("noop")), B("noop")>>, <<[BK("get", a) EXCEPT !.longkey = TRUE]>>,
     <<BK("noop", a)>>, <<BK("get", a), TK("get", a)>>}

Binaries == {Slowly(s, <<TS("set", a, <<7>>)>>) : s \in BinaryScripts}

(* The text commands that leave the cache alone, and malformed ones.       *)
TextScripts ==
    {<<T("stats"), TSub("stats", "items"), TSub("stats", "detail dump"), TSub("stats", "unknown")>>,
     <<TSub("stats", "reset"), TSub("stats", "detail on"), TSub("stats", "detail"),
       TSub("stats", "cachedump"), Bad(T("stats"))>>,
     <<NoReply(T("verbosity")), T("slabs reassign"), T("slabs automove"), T("cache_memlimit")>>,
     <<T("lru"), T("extstore"), T("shutdown"), NoReply(Bad(T("lru"))), T("version")>>,
     <<TSub("lru_crawler", "crawl"), TSub("lru_crawler", "sleep"), TSub("lru_crawler", "enable"),
       Bad(T("lru_crawler")), TSub("lru_crawler", "metadump")>>,
     <<Bad(T("watch")), T("watch")>>, <<T("http"), T("version")>>,
     <<[T("unknown") EXCEPT !.long = TRUE], T("version")>>,
     <<[T("get") EXCEPT !.long = TRUE, !.keys = <<a>>], T("quit")>>,
     <<[T("get") EXCEPT !.keys = <<a, b>>, !.longkey = TRUE], Bad(TK("gat", a)), TK("gats", a)>>,
     <<Bad(T("flush_all")), Bad(TK("incr", a)), Bad(TK("delete", a)), Bad(TK("touch", a)),
       Bad(TS("set", a, <<1>>)), B("noop")>>}

Texts == {Slowly(s, <<TS("set", a, <<Other>>), NoReply(TK("delete", a)), NoReply(TK("incr", a))>>) :
            s \in TextScripts}

(* SASL: attempts that succeed, go on or fail, and another attempt after   *)
(* success.                                                                *)
Sasl ==
    {Scenario(TRUE, TheScript(<<BV("sasl_auth", a, <<1>>), BE("incr", a),
                                BV("sasl_step", a, <<1>>), BK("get", a)>>,
                              <<B("version"), B("sasl_list_mechs"), BE("incr", a)>>), MCConns, 0, {}, 0, 0),
     Scenario(TRUE, TheScript(<<[BV("sasl_auth", a, <<1>>) EXCEPT !.longkey = TRUE], B("noop")>>,
                              <<BK("get", a)>>), {c2}, 0, {}, 0, 0)}

(* Buffers that cannot grow.                                               *)
NoGrowth ==
    {Scenario(FALSE, TheScript(s, <<>>), {}, 0, {}, 0, 2) :
        s \in {<<TS("set", a, <<1>>), T("stats"), T("version")>>,
               <<[BK("stat", a) EXCEPT !.sub = "detail dump"], B("stat"), B("noop")>>}}

MCScenarios ==
    CasRaces \cup SlowGet \cup Flushes \cup Refusals \cup NoMemory \cup HangsUp
    \cup Binaries \cup Texts \cup Sasl \cup NoGrowth

(* Pipelined requests, yields, a full send buffer and a client that hangs  *)
(* up.                                                                     *)
LiveScenarios ==
    {Scenario(FALSE, TheScript(<<TS("set", a, <<1>>), TK("get", a), T("version")>>, <<TK("delete", a)>>),
              {c1}, 1, {c2}, 0, 0),
     Scenario(FALSE, TheScript(<<BE("incr", a), BK("getq", a), B("noop")>>,
                               <<[TS("set", a, <<1>>) EXCEPT !.toolarge = TRUE], T("stats")>>),
              {c1}, 0, {}, 0, 0)}

(* Requests after which the server is not where its client is: a refused   *)
(* store command that asked for no reply, a malformed one, a binary SET.   *)
SwallowScenarios ==
    {Slowly(<<NoReply([TS("set", a, <<1>>) EXCEPT !.toolarge = TRUE]), T("version")>>, <<>>)}

BadLineScenarios == {Slowly(<<Bad(TS("set", a, <<1>>)), T("version")>>, <<>>)}

BinarySetScenarios == {Slowly(<<BX("set", a, <<1>>), B("noop"), B("noop")>>, <<>>)}

(* incr of an empty value, and a get whose END finds no room.              *)
EmptyScenarios == {Calm(<<TS("set", a, <<>>), TK("incr", a)>>, <<>>)}

LeakScenarios ==
    {Scenario(FALSE, TheScript(<<TS("set", a, <<1>>), TK("get", a), TK("get", a)>>, <<>>),
              MCConns, 0, {}, 0, 1)}

(* A get that finds no room for the rest of its answer, while its item is  *)
(* deleted.                                                                *)
PartialScenarios ==
    {Scenario(FALSE, TheScript(<<TS("set", a, <<1>>), TK("get", a)>>, <<TK("delete", a)>>),
              MCConns, 0, {}, 0, 1)}
=============================================================================
