-------------------------------- MODULE Conn --------------------------------
(***************************************************************************)
(* Connections and the commands they carry: drive_machine and the handlers *)
(* of the text and the binary protocol in src/thread/memcached.c, over the *)
(* cache of module Store.  Every connection is driven by a worker of its   *)
(* own; a step is one turn of the loop of drive_machine, and a handler     *)
(* that takes the item lock more than once is cut at the places where it   *)
(* does not hold it.                                                       *)
(*                                                                         *)
(* A client sends the requests of its script one after the other without   *)
(* waiting for answers.  A request travels as units, each with the number  *)
(* of its request and its part:                                            *)
(*   text    line [more] eol [data] crlf        (data of a store command)  *)
(*   binary  hdr hdr2 [ext] [key] [val]         (a unit of extras: 8 bytes)*)
(* Lengths (rlbytes, sbytes, the lengths in a header) count units.  A unit *)
(* may arrive on its own, so lines and headers arrive in parts.            *)
(*                                                                         *)
(* A handler maps the connection c and the cache db, together s, to the    *)
(* set of what it may leave behind.                                        *)
(***************************************************************************)
EXTENDS Store, TLC

CONSTANTS
    Conns,          \* connections
    Scenarios,      \* what the clients do, and how often what may go wrong
    ReqsPerEvent,   \* settings.reqs_per_event
    RSize,          \* units the input buffer holds before it grows
    LineMax,        \* a longer unfinished line must be a get
    StatsInit       \* first size of the buffer for statistics

ASSUME ConnAssumption ==
    /\ ReqsPerEvent \in Nat \ {0} /\ RSize \in Nat \ {0} /\ LineMax \in Nat \ {0}
    /\ StatsInit \in Nat \ {0}

VARIABLES
    cn,     \* the connections
    db,     \* the cache
    env     \* the scenario, the clients and the clock

vars == <<cn, db, env>>

-----------------------------------------------------------------------------
(* Requests.                                                               *)

(* A scenario: settings.sasl, the requests of each client, which clients   *)
(* have sent all of them at the start, how often a client lets the send    *)
(* buffer fill up or a read event comes for nothing, which clients may     *)
(* hang up, how many seconds may pass, how many reallocations may fail per *)
(* connection.                                                             *)
Scenario(sasl, script, arrived, stalls, hangups, ticks, fails) ==
    [sasl |-> sasl, script |-> script, arrived |-> arrived, stalls |-> stalls,
     hangups |-> hangups, ticks |-> ticks, fails |-> fails]

StoreComms == {"add", "set", "replace", "append", "prepend", "cas"}

(* What most requests have in common.  ext units of extras are sent and    *)
(* counted in the length of the body; extlen is what the header says of    *)
(* them.                                                                   *)
Text == [proto |-> "ascii", cmd |-> "version", keys |-> <<>>, data |-> <<>>,
         noreply |-> FALSE, ok |-> TRUE, longkey |-> FALSE, toolarge |-> FALSE,
         crlf |-> TRUE, long |-> FALSE, sub |-> "", delta |-> 1, initial |-> 0, exptime |-> 0,
         ext |-> 0, extlen |-> 0, cas |-> FALSE]

Binary == [Text EXCEPT !.proto = "binary", !.cmd = "noop"]

B2N(b) == IF b THEN 1 ELSE 0
If(b, seq) == IF b THEN seq ELSE <<>>

keylen(r) == B2N(r.keys # <<>>)
vlen(r) == B2N(r.data # <<>>)
bodylen(r) == r.ext + keylen(r) + vlen(r)

Parts(r) ==
    IF r.proto = "ascii"
    THEN <<"line">> \o If(r.long, <<"more">>) \o <<"eol">>
         \o If(r.cmd \in StoreComms,
               If(r.data # <<>>, <<"data">>) \o <<IF r.crlf THEN "crlf" ELSE "junk">>)
    ELSE <<"hdr", "hdr2">> \o If(r.ext = 1, <<"ext">>) \o If(r.keys # <<>>, <<"key">>)
         \o If(r.data # <<>>, <<"val">>)

Units(n, r) == [j \in 1..Len(Parts(r)) |-> [n |-> n, part |-> Parts(r)[j]]]

UnitsOf(script) ==
    FoldLeft(LAMBDA acc, n : acc \o Units(n, script[n]), <<>>,
             [n \in 1..Len(script) |-> n])

Starts(u) == u.part \in {"line", "hdr"}
HasNewline(u) == u.part \in {"eol", "crlf"}

-----------------------------------------------------------------------------
(* A connection.                                                           *)

conn_states == {"conn_new_cmd", "conn_waiting", "conn_read", "conn_parse_cmd",
                "conn_write", "conn_nread", "conn_swallow", "conn_closing",
                "conn_mwrite", "conn_closed", "conn_watch"}

bin_substates == {"bin_no_state", "bin_reading_set_header", "bin_read_set_value",
                  "bin_reading_get_key", "bin_reading_stat", "bin_reading_del_header",
                  "bin_reading_incr_header", "bin_read_flush_exptime",
                  "bin_reading_sasl_auth", "bin_reading_sasl_auth_data",
                  "bin_reading_touch_key"}

(* Besides the fields of struct conn: script and n (the request at hand),  *)
(* todo and local (where a handler stands that let go of the item lock,    *)
(* and the item it holds), running and nreqs (the variables of             *)
(* drive_machine), seen (the last CAS and value a gets returned), replied  *)
(* (the requests answered so far), refused (the store requests refused for *)
(* their size or for want of memory).                                      *)
NewConn(script, sasl, fails) ==
    [state |-> "conn_new_cmd", substate |-> "bin_no_state",
     protocol |-> IF sasl THEN "binary" ELSE "negotiating",
     noreply |-> FALSE, cmd |-> "", authenticated |-> FALSE,
     rbuf |-> <<>>, rlbytes |-> 0, sbytes |-> 0,
     item |-> None, ilist |-> <<>>, suffixes |-> 0,
     iov |-> <<>>, wbuf |-> <<>>, write_and_go |-> "conn_new_cmd",
     write_and_free |-> FALSE, stats |-> [size |-> 0, offset |-> 0],
     ev |-> "READ", running |-> FALSE, nreqs |-> 0,
     script |-> script, n |-> 0, left |-> <<>>, todo |-> "", local |-> None,
     seen |-> [cas |-> 0, key |-> None, data |-> <<>>], replied |-> <<>>,
     refused |-> {}, fails |-> fails]

Req(c) == c.script[c.n]
Key(c) == Head(Req(c).keys)
S(c, d) == [c |-> c, db |-> d]

(* A piece of a reply.  One that points into an item is read when it is    *)
(* sent; data is what the item held when the reply was composed.           *)
Piece(c, kind, slot, data) == [n |-> c.n, kind |-> kind, slot |-> slot, data |-> data]

conn_set_state(c, state) == [c EXCEPT !.state = state]

add_msghdr(c) == [c EXCEPT !.iov = <<>>]

add_iov(c, piece) == [c EXCEPT !.iov = Append(@, piece)]

(* realloc may fail; the number of times is bounded.                       *)
ensure_iov_space(c) == {TRUE} \cup {FALSE : f \in 1..c.fails}

out_string_KeepsNoreply(c, str) ==
    IF c.noreply THEN conn_set_state(c, "conn_new_cmd")
    ELSE conn_set_state([add_msghdr(c) EXCEPT !.wbuf = <<Piece(c, str, None, <<>>)>>,
                                              !.write_and_go = "conn_new_cmd"],
                        "conn_write")

out_string(c, str) ==
    IF c.noreply
    THEN conn_set_state([c EXCEPT !.noreply = FALSE], "conn_new_cmd")
    ELSE conn_set_state([add_msghdr(c) EXCEPT !.wbuf = <<Piece(c, str, None, <<>>)>>,
                                              !.write_and_go = "conn_new_cmd"],
                        "conn_write")

add_bin_header(c, err, slot, data) ==
    add_iov(add_msghdr(c), Piece(c, err, slot, data))

write_bin_error(c, err, swallow) ==
    LET w == conn_set_state(add_bin_header(c, err, None, <<>>), "conn_mwrite")
    IN  IF swallow > 0
        THEN [w EXCEPT !.sbytes = swallow, !.write_and_go = "conn_swallow"]
        ELSE [w EXCEPT !.write_and_go = "conn_new_cmd"]

write_bin_response(c, kind) ==
    IF ~c.noreply \/ c.cmd \in {"get", "getk"}
    THEN conn_set_state([add_bin_header(c, kind, None, <<>>)
                            EXCEPT !.write_and_go = "conn_new_cmd"], "conn_mwrite")
    ELSE conn_set_state(c, "conn_new_cmd")

out_of_memory(c, str) ==
    IF c.protocol = "binary" THEN write_bin_error(c, "ENOMEM", 0) ELSE out_string(c, str)

-----------------------------------------------------------------------------
(* Giving up what a connection holds.                                      *)

conn_release_items_ItemOnly(s) ==
    IF s.c.item = None THEN S([s.c EXCEPT !.ilist = <<>>], s.db)
    ELSE S([s.c EXCEPT !.item = None, !.ilist = <<>>], item_remove(s.db, s.c.item))

conn_release_items(s) ==
    LET held == If(s.c.item # None, <<s.c.item>>) \o s.c.ilist
    IN  S([s.c EXCEPT !.item = None, !.ilist = <<>>, !.suffixes = 0],
          FoldLeft(item_remove, s.db, held))

conn_cleanup(s) ==
    LET r == conn_release_items(s) IN S([r.c EXCEPT !.write_and_free = FALSE], r.db)

conn_close(s) ==
    LET r == conn_cleanup(s)
    IN  S([conn_set_state(r.c, "conn_closed") EXCEPT !.ev = "NONE", !.rbuf = <<>>,
                                                     !.iov = <<>>, !.wbuf = <<>>], r.db)

reset_cmd_handler(s) ==
    LET cleared == [s.c EXCEPT !.cmd = "", !.substate = "bin_no_state", !.item = None]
        d  == IF s.c.item = None THEN s.db ELSE item_remove(s.db, s.c.item)
    IN  S(conn_set_state(cleared, IF cleared.rbuf # <<>> THEN "conn_parse_cmd"
                                               ELSE "conn_waiting"), d)

-----------------------------------------------------------------------------
(* Statistics are collected in a buffer that grows by doubling.            *)

grow_stats_buf(c, needed) ==
    LET fresh  == c.stats.size = 0
        base   == IF fresh THEN StatsInit ELSE c.stats.size
        offset == IF fresh THEN 0 ELSE c.stats.offset
        nsize  == Min({base * 2 ^ j : j \in B2N(fresh)..6} \cap {m \in 1..1000 : m >= offset + needed})
        same   == [c EXCEPT !.stats.offset = offset]
    IN  IF nsize = c.stats.size THEN {[ok |-> TRUE, c |-> same]}
        ELSE {[ok |-> TRUE, c |-> [same EXCEPT !.stats.size = nsize]]}
             \cup {[ok |-> FALSE, c |-> [same EXCEPT !.fails = @ - 1]] : f \in 1..c.fails}

append_bin_stats(c, len) == [c EXCEPT !.stats.offset = @ + len]

append_ascii_stats(c, len) == [c EXCEPT !.stats.offset = @ + len]

append_stats(c, len) ==
    {IF ~g.ok THEN g.c
     ELSE IF c.protocol = "binary" THEN append_bin_stats(g.c, len)
     ELSE append_ascii_stats(g.c, len)
        : g \in grow_stats_buf(c, len)}

(* Two lines of statistics stand for what the sources of them append.      *)
StatLines == <<2, 3>>

Appended(cs, len) == UNION {append_stats(c, len) : c \in cs}

server_stats(c) == FoldLeft(Appended, {c}, StatLines)

write_and_free(c) ==
    conn_set_state([c EXCEPT !.write_and_free = TRUE, !.stats.size = 0,
                             !.wbuf = <<Piece(c, "STATS", None, <<>>)>>,
                             !.write_and_go = "conn_new_cmd"], "conn_write")

SendStats(c) ==
    IF c.stats.size = 0 THEN out_of_memory(c, "SERVER_ERROR") ELSE write_and_free(c)

(* "stats detail on|off|dump"                                              *)
process_stats_detail(c, r) ==
    CASE r.sub \in {"detail on", "detail off"} -> {out_string(c, "OK")}
      [] r.sub = "detail dump" -> {write_and_free(c), out_of_memory(c, "SERVER_ERROR")}
      [] OTHER -> {out_string(c, "CLIENT_ERROR")}

(* Subcommands the server does not know are asked of get_stats.            *)
process_stat(c, r) ==
    CASE ~r.ok -> {out_string(c, "CLIENT_ERROR")}
      [] r.sub = "reset" -> {out_string(c, "RESET")}
      [] r.sub \in {"detail", "detail on", "detail off", "detail dump"} -> process_stats_detail(c, r)
      [] r.sub = "cachedump" -> {write_and_free(c), out_of_memory(c, "SERVER_ERROR")}
      [] r.sub \in {"", "settings", "conns", "extstore"} ->
            {SendStats(a) : a \in Appended(server_stats(c), 1)}
      [] r.sub \in {"items", "slabs"} -> {SendStats(a) : a \in server_stats(c)}
      [] OTHER -> {out_string(c, "ERROR")}

process_bin_stat(c, r) ==
    CASE r.sub \in {"", "settings", "reset", "detail on", "detail off"} ->
            {SendStats(a) : a \in UNION {append_stats(b, 1) : b \in
                IF r.sub \in {"", "settings"} THEN server_stats(c) ELSE {c}}}
      [] r.sub = "detail dump" ->
            {SendStats(a) : a \in Appended(append_stats(c, 3), 1)}
            \cup {out_of_memory(c, "SERVER_ERROR")}
      [] r.sub \in {"items", "slabs"} -> {SendStats(a) : a \in server_stats(c)}
      [] OTHER -> {write_bin_error(c, "KEY_ENOENT", 0)}

-----------------------------------------------------------------------------
(* The text protocol.                                                      *)

set_noreply_maybe(c, r) == [c EXCEPT !.noreply = @ \/ r.noreply]

(* Only the first lookup; GetKey goes on with the keys of the line.        *)
process_get_command(s, r) ==
    {S(IF r.cmd \in {"gat", "gats"} /\ ~r.ok THEN out_string(s.c, "CLIENT_ERROR")
       ELSE [s.c EXCEPT !.todo = "get", !.left = r.keys, !.ilist = <<>>, !.suffixes = 0], s.db)}

(* A failed SET must not leave the old value behind: the item is looked    *)
(* for here and unlinked in a step of its own.                             *)
PurgeStale(s, k) ==
    LET g == item_get(s.db, k)
    IN  S(IF g.it = None THEN s.c ELSE [s.c EXCEPT !.todo = "purge", !.local = g.it], g.db)

RefusedData_NoSwallow(c, len) == out_of_memory(c, "SERVER_ERROR")

(* Answers, and throws away the data that follows.                         *)
RefusedData(c, len) ==
    [out_of_memory(c, "SERVER_ERROR") EXCEPT !.write_and_go = "conn_swallow", !.sbytes = len,
                                             !.refused = @ \cup {c.n}]

(* vlen counts the CRLF.                                                   *)
process_update_command(s, r) ==
    LET c    == set_noreply_maybe(s.c, r)
        len  == vlen(r) + 1
        cas  == IF r.cmd = "cas" THEN c.seen.cas ELSE 0
        Refused(d) == IF r.cmd = "set" THEN PurgeStale(S(RefusedData(c, len), d), Key(c))
                      ELSE S(RefusedData(c, len), d)
    IN  IF r.longkey \/ ~r.ok THEN {S(out_string(c, "CLIENT_ERROR"), s.db)}
        ELSE IF r.toolarge THEN {Refused(s.db)}
        ELSE {IF a.it = None THEN Refused(a.db)
              ELSE S(conn_set_state([c EXCEPT !.item = a.it, !.rlbytes = len, !.cmd = r.cmd],
                                    "conn_nread"),
                     [a.db EXCEPT !.item[a.it].cas = cas])
                : a \in item_alloc(s.db, Key(c), <<>>, realtime(s.db, r.exptime))}

process_touch_command(s, r) ==
    LET c == set_noreply_maybe(s.c, r)
        g == item_touch(s.db, Key(c), realtime(s.db, r.exptime))
    IN  {IF r.longkey \/ ~r.ok THEN S(out_string(c, "CLIENT_ERROR"), s.db)
         ELSE IF g.it = None THEN S(out_string(c, "NOT_FOUND"), g.db)
         ELSE S(out_string(c, "TOUCHED"), item_remove(g.db, g.it))}

process_arithmetic_command(s, r) ==
    LET c == set_noreply_maybe(s.c, r)
    IN  IF r.longkey \/ ~r.ok THEN {S(out_string(c, "CLIENT_ERROR"), s.db)}
        ELSE {S(CASE a.ret = "OK" -> out_string(c, "NUMBER")
                  [] a.ret = "NON_NUMERIC" -> out_string(c, "CLIENT_ERROR")
                  [] a.ret = "EOM" -> out_of_memory(c, "SERVER_ERROR")
                  [] a.ret = "NOT_FOUND" -> out_string(c, "NOT_FOUND"), a.db)
                : a \in add_delta(s.db, Key(c), r.cmd = "incr", r.delta, 0)}

(* Looks the item up; DeleteItem unlinks it.                               *)
process_delete_command(s, r) ==
    LET c == set_noreply_maybe(s.c, r)
        g == item_get(s.db, Key(c))
    IN  {IF r.longkey \/ ~r.ok THEN S(out_string(c, "CLIENT_ERROR"), s.db)
         ELSE IF g.it = None THEN S(out_string(c, "NOT_FOUND"), g.db)
         ELSE S([c EXCEPT !.todo = "delete", !.local = g.it], g.db)}

process_flush_all(s, r) ==
    LET c == set_noreply_maybe(s.c, r)
    IN  {IF ~r.ok THEN S(out_string(c, "CLIENT_ERROR"), s.db)
         ELSE S(out_string(c, "OK"), FlushAll(s.db, r.exptime))}

(* Commands that change a setting and answer.                              *)
process_verbosity_command(c, r) == {out_string(set_noreply_maybe(c, r), "OK")}

process_slabs_automove_command(c, r) ==
    {out_string(set_noreply_maybe(c, r), IF r.ok THEN "OK" ELSE "ERROR")}

process_memlimit_command(c, r) ==
    {out_string(set_noreply_maybe(c, r), str) :
        str \in IF r.ok THEN {"OK", "MEMLIMIT_ADJUST_FAILED"} ELSE {"ERROR"}}

process_lru_command(c, r) ==
    {out_string(set_noreply_maybe(c, r), IF r.ok THEN "OK" ELSE "ERROR")}

process_extstore_command(c, r) ==
    {out_string(set_noreply_maybe(c, r), IF r.ok THEN "OK" ELSE "ERROR")}

process_slabs_reassign(c, r) ==
    {out_string(c, str) : str \in
        IF r.ok THEN {"OK", "BUSY", "BADCLASS", "NOSPARE", "SAME"} ELSE {"CLIENT_ERROR"}}

(* A watcher leaves its worker for the logger thread, and the client of a  *)
(* metadump for the crawler; the answer of the latter is not sent by this  *)
(* loop any more.                                                          *)
process_watch_command(c, r) ==
    IF ~r.ok THEN {out_string(set_noreply_maybe(c, r), "ERROR")}
    ELSE {out_string(c, "WATCHER_TOO_MANY"), out_string(c, "WATCHER_FAILED"),
          [conn_set_state(c, "conn_watch") EXCEPT !.ev = "NONE"]}

process_lru_crawler(c, r) ==
    CASE ~r.ok -> {out_string(c, "CLIENT_ERROR")}
      [] r.sub = "metadump" ->
            {[conn_set_state(out_string(c, "OK"), "conn_watch") EXCEPT !.ev = "NONE"]}
            \cup {out_string(c, str) : str \in {"BUSY", "BADCLASS", "NOTSTARTED", "ERROR"}}
      [] r.sub = "crawl" ->
            {out_string(c, str) : str \in {"OK", "BUSY", "BADCLASS", "NOTSTARTED", "ERROR"}}
      [] r.sub \in {"tocrawl", "sleep"} -> {out_string(c, "OK")}
      [] OTHER -> {out_string(c, "OK"), out_string(c, "ERROR")}

(* Commands that leave the cache alone.                                    *)
process_other_command(c, r) ==
    CASE r.cmd = "stats" -> process_stat(c, r)
      [] r.cmd = "version" -> {out_string(c, "VERSION")}
      [] r.cmd = "quit" -> {conn_set_state(c, "conn_closing")}
      [] r.cmd = "shutdown" -> {out_string(c, "ERROR")}
      [] r.cmd = "slabs reassign" -> process_slabs_reassign(c, r)
      [] r.cmd = "slabs automove" -> process_slabs_automove_command(c, r)
      [] r.cmd = "lru_crawler" -> process_lru_crawler(c, r)
      [] r.cmd = "watch" -> process_watch_command(c, r)
      [] r.cmd = "cache_memlimit" -> process_memlimit_command(c, r)
      [] r.cmd = "verbosity" -> process_verbosity_command(c, r)
      [] r.cmd = "lru" -> process_lru_command(c, r)
      [] r.cmd = "extstore" -> process_extstore_command(c, r)
      [] r.cmd = "http" -> {conn_set_state(c, "conn_closing")}
      [] OTHER -> {out_string(c, "ERROR")}

process_command(s0) ==
    LET s == S(add_msghdr(s0.c), s0.db)
        r == Req(s.c)
    IN  CASE r.cmd \in {"get", "gets", "gat", "gats"} -> process_get_command(s, r)
          [] r.cmd \in StoreComms -> process_update_command(s, r)
          [] r.cmd \in {"incr", "decr"} -> process_arithmetic_command(s, r)
          [] r.cmd = "delete" -> process_delete_command(s, r)
          [] r.cmd = "touch" -> process_touch_command(s, r)
          [] r.cmd = "flush_all" -> process_flush_all(s, r)
          [] OTHER -> {S(c, s.db) : c \in process_other_command(s.c, r)}

(* The data block of a store command has been read into the item.          *)
complete_nread_ascii(s) ==
    LET c == s.c
        i == c.item
        d == [s.db EXCEPT !.item[i].data = Req(c).data]
        Done(e, str) == S([out_string(c, str) EXCEPT !.item = None], item_remove(e, i))
    IN  IF ~Req(c).crlf THEN {Done(d, "CLIENT_ERROR")}
        ELSE {IF o.ret = "HUNG" THEN S([c EXCEPT !.todo = "hung"], o.db)
              ELSE Done(o.db, o.ret)
                : o \in store_item(d, i, c.cmd)}

-----------------------------------------------------------------------------
(* The binary protocol.                                                    *)

(* A quiet command is the loud one with noreply set.                       *)
QuietCmds == [getq |-> "get", getkq |-> "getk", setq |-> "set", addq |-> "add",
              replaceq |-> "replace", deleteq |-> "delete", incrq |-> "incr",
              decrq |-> "decr", quitq |-> "quit", flushq |-> "flush",
              appendq |-> "append", prependq |-> "prepend", gatq |-> "gat",
              gatkq |-> "gatk"]
Quiet(r) == r.proto = "binary" /\ r.cmd \in DOMAIN QuietCmds
Loud(cmd) == IF cmd \in DOMAIN QuietCmds THEN QuietCmds[cmd] ELSE cmd

(* The CAS a request carries is the one its client saw last.               *)
CasOf(c) == IF Req(c).cas THEN c.seen.cas ELSE 0

(* An expiration of 0xffffffff: do not create what is not there.           *)
NoCreate == -1

Seen(c, d, i) ==
    [c EXCEPT !.seen = [cas |-> d.item[i].cas, key |-> d.item[i].key,
                        data |-> d.item[i].data]]

write_bin_miss_response(c) ==
    conn_set_state([add_bin_header(c, "KEY_ENOENT", None, <<>>)
                        EXCEPT !.write_and_go = "conn_new_cmd"], "conn_mwrite")

(* On a hit the item is kept until the reply has been sent.                *)
process_bin_get_or_touch(s, r) ==
    LET c == s.c
        g == IF c.cmd \in {"touch", "gat", "gatk"}
             THEN item_touch(s.db, Key(c), realtime(s.db, r.exptime))
             ELSE item_get(s.db, Key(c))
        h == add_bin_header(c, IF c.cmd = "touch" THEN "OK" ELSE "VALUE", g.it,
                            g.db.item[g.it].data)
    IN  {IF g.it # None
         THEN S(Seen(conn_set_state([h EXCEPT !.item = g.it,
                                              !.write_and_go = "conn_new_cmd"],
                                    "conn_mwrite"), g.db, g.it), g.db)
         ELSE IF c.noreply THEN S(conn_set_state(c, "conn_new_cmd"), g.db)
         ELSE S(write_bin_miss_response(c), g.db)}

(* When the counter does not exist, IncrAdd creates it.                    *)
complete_incr_bin(s, r) ==
    {S(CASE a.ret = "OK" -> write_bin_response(s.c, "NUMBER")
         [] a.ret = "NON_NUMERIC" -> write_bin_error(s.c, "DELTA_BADVAL", 0)
         [] a.ret = "EOM" -> out_of_memory(s.c, "SERVER_ERROR")
         [] a.ret = "CAS_MISMATCH" -> write_bin_error(s.c, "KEY_EEXISTS", 0)
         [] a.ret = "NOT_FOUND" ->
                IF r.exptime = NoCreate THEN write_bin_error(s.c, "KEY_ENOENT", 0)
                ELSE [s.c EXCEPT !.todo = "incr_add"], a.db)
        : a \in add_delta(s.db, Key(s.c), s.c.cmd = "incr", r.delta, CasOf(s.c))}

(* The initial value of an incr is its data.                               *)
IncrAddWorlds(s) ==
    LET c == [s.c EXCEPT !.todo = ""]
        r == Req(c)
    IN  UNION {IF a.it = None THEN {S(out_of_memory(c, "SERVER_ERROR"), a.db)}
               ELSE {S(IF o.ret = "STORED" THEN write_bin_response(c, "NUMBER")
                       ELSE write_bin_error(c, "NOT_STORED", 0),
                       item_remove(o.db, a.it))
                        : o \in store_item(a.db, a.it, "add")}
                 : a \in item_alloc(s.db, Key(c), Decimal(r.initial),
                                    realtime(s.db, r.exptime))}

(* What a SET, ADD or REPLACE reads for its value ends with the beginning  *)
(* of what follows the request.                                            *)
ValueRead(r) == r.data \o If(Loud(r.cmd) \in {"set", "add", "replace"}, <<Other>>)

(* The value has been read into the item.                                  *)
complete_update_bin(s) ==
    LET c == s.c
        d == [s.db EXCEPT !.item[c.item].data = ValueRead(Req(c))]
        Reply(ret) ==
            CASE ret = "STORED" -> write_bin_response(c, "STORED")
              [] ret = "EXISTS" -> write_bin_error(c, "KEY_EEXISTS", 0)
              [] ret = "NOT_FOUND" -> write_bin_error(c, "KEY_ENOENT", 0)
              [] OTHER -> write_bin_error(c, IF c.cmd = "add" THEN "KEY_EEXISTS"
                                             ELSE IF c.cmd = "replace" THEN "KEY_ENOENT"
                                             ELSE "NOT_STORED", 0)
    IN  {IF o.ret = "HUNG" THEN S([c EXCEPT !.todo = "hung"], o.db)
         ELSE S([Reply(o.ret) EXCEPT !.item = None], item_remove(o.db, c.item))
            : o \in store_item(d, c.item, c.cmd)}

ReadValue(c, i, cmd, len) ==
    conn_set_state([c EXCEPT !.item = i, !.rlbytes = len, !.cmd = cmd,
                             !.substate = "bin_read_set_value"], "conn_nread")

(* A value that finds no room is answered and then swallowed.              *)
RefusedValue(c, r, len) ==
    [write_bin_error(c, IF r.toolarge THEN "E2BIG" ELSE "ENOMEM", 0)
        EXCEPT !.sbytes = len, !.write_and_go = "conn_swallow", !.refused = @ \cup {c.n}]

(* The header says that there are no extras: they are taken for a part of  *)
(* the value, although they have been read with the key.                   *)
process_bin_update(s, r) ==
    LET c   == s.c
        len == bodylen(r) - keylen(r) - r.extlen
    IN  {IF a.it = None
         THEN LET w == S(RefusedValue(c, r, len), a.db)
              IN  IF c.cmd = "set" THEN PurgeStale(w, Key(c)) ELSE w
         ELSE S(ReadValue(c, a.it, IF CasOf(c) # 0 THEN "cas" ELSE c.cmd, len),
                [a.db EXCEPT !.item[a.it].cas = CasOf(c)])
            : a \in IF r.toolarge THEN {[it |-> None, db |-> s.db]}
                    ELSE item_alloc(s.db, Key(c), <<>>, realtime(s.db, r.exptime))}

process_bin_append_prepend(s, r) ==
    LET c   == s.c
        len == bodylen(r) - keylen(r)
    IN  {IF a.it = None THEN S(RefusedValue(c, r, len), a.db)
         ELSE S(ReadValue(c, a.it, c.cmd, len),
                [a.db EXCEPT !.item[a.it].cas = CasOf(c)])
            : a \in IF r.toolarge THEN {[it |-> None, db |-> s.db]}
                    ELSE item_alloc(s.db, Key(c), <<>>, 0)}

process_bin_flush(s, r) ==
    {S(write_bin_response(s.c, "OK"),
       FlushAll(s.db, IF r.extlen = 1 THEN r.exptime ELSE 0))}

(* Looks the item up and compares the CAS; DeleteItem unlinks it.          *)
process_bin_delete(s) ==
    LET c == s.c
        g == item_get(s.db, Key(c))
    IN  {IF g.it = None THEN S(write_bin_error(c, "KEY_ENOENT", 0), g.db)
         ELSE IF CasOf(c) \in {0, g.db.item[g.it].cas}
         THEN S([c EXCEPT !.todo = "delete", !.local = g.it], g.db)
         ELSE S(write_bin_error(c, "KEY_EEXISTS", 0), item_remove(g.db, g.it))}

(* Room for the extras and the key; growing the buffer may fail.           *)
bin_read_key(c, next_substate, extra) ==
    LET len == keylen(Req(c)) + extra
    IN  {conn_set_state([c EXCEPT !.substate = next_substate, !.rlbytes = len], "conn_nread")}
        \cup {conn_set_state([c EXCEPT !.fails = @ - 1], "conn_closing")
                : f \in IF len > RSize THEN 1..c.fails ELSE {}}

handle_binary_protocol_error(c) ==
    [write_bin_error(c, "EINVAL", 0) EXCEPT !.write_and_go = "conn_closing"]

(* SASL: what the library decides is not known here.                       *)
init_sasl_conn(c) == [c EXCEPT !.authenticated = FALSE]

bin_list_sasl_mechs(c, sasl) ==
    IF ~sasl THEN {write_bin_error(c, "UNKNOWN_COMMAND", bodylen(Req(c)) - keylen(Req(c)))}
    ELSE {write_bin_error(init_sasl_conn(c), "AUTH_ERROR", 0),
          write_bin_response(init_sasl_conn(c), "MECHS")}

process_bin_sasl_auth(s, r, sasl) ==
    LET len == bodylen(r) - keylen(r)
        Swallowed(err) == [write_bin_error(s.c, err, len) EXCEPT !.write_and_go = "conn_swallow"]
    IN  IF ~sasl THEN {S(write_bin_error(s.c, "UNKNOWN_COMMAND", len), s.db)}
        ELSE IF r.longkey THEN {S(Swallowed("EINVAL"), s.db)}
        ELSE {IF a.it = None THEN S(Swallowed("ENOMEM"), a.db)
              ELSE S([ReadValue(s.c, a.it, s.c.cmd, len)
                        EXCEPT !.substate = "bin_reading_sasl_auth_data"], a.db)
                : a \in item_alloc(s.db, Key(s.c), <<>>, 0)}

(* The item was never linked, so that item_unlink leaves it to             *)
(* reset_cmd_handler or conn_release_items.                                *)
process_bin_complete_sasl_auth(s) ==
    LET c == init_sasl_conn(s.c)
    IN  {S(w, item_unlink(s.db, c.item)) : w \in
            {write_bin_response([c EXCEPT !.authenticated = TRUE], "AUTHENTICATED"),
             conn_set_state([add_bin_header(c, "AUTH_CONTINUE", None, <<>>)
                                EXCEPT !.write_and_go = "conn_new_cmd"], "conn_mwrite"),
             write_bin_error(c, "AUTH_ERROR", 0)}}

authenticated_Always(c) == TRUE

authenticated(c) ==
    c.cmd \in {"sasl_list_mechs", "sasl_auth", "sasl_step", "version"} \/ c.authenticated

(* The commands that are answered from the header alone.                   *)
BareCommand(c, sasl) ==
    CASE c.cmd = "version" -> {write_bin_response(c, "VERSION")}
      [] c.cmd = "noop" -> {write_bin_response(c, "OK")}
      [] c.cmd = "sasl_list_mechs" -> bin_list_sasl_mechs(c, sasl)
      [] c.cmd = "quit" ->
            IF c.noreply THEN {conn_set_state(c, "conn_closing")}
            ELSE {[write_bin_response(c, "OK") EXCEPT !.write_and_go = "conn_closing"]}

(* What else the header must say, and what is read next.                   *)
BinCommand(c, r, sasl) ==
    LET bare == r.extlen = 0 /\ keylen(r) = 0 /\ bodylen(r) = 0
        Read(cond, next_substate, extra) ==
            IF cond THEN bin_read_key(c, next_substate, extra)
            ELSE {handle_binary_protocol_error(c)}
    IN  CASE c.cmd \in {"version", "noop", "sasl_list_mechs", "quit"} ->
                IF bare THEN BareCommand(c, sasl) ELSE {handle_binary_protocol_error(c)}
          [] c.cmd = "flush" ->
                Read(keylen(r) = 0 /\ bodylen(r) = r.extlen, "bin_read_flush_exptime", r.extlen)
          [] c.cmd \in {"set", "add", "replace"} ->
                Read(r.extlen = 0 /\ keylen(r) # 0 /\ bodylen(r) >= keylen(r) + 1,
                     "bin_reading_set_header", 1)
          [] c.cmd \in {"get", "getk"} ->
                Read(r.extlen = 0 /\ bodylen(r) = keylen(r) /\ keylen(r) > 0,
                     "bin_reading_get_key", 0)
          [] c.cmd = "delete" ->
                Read(keylen(r) > 0 /\ r.extlen = 0 /\ bodylen(r) = keylen(r),
                     "bin_reading_del_header", 0)
          [] c.cmd \in {"incr", "decr"} ->
                Read(keylen(r) > 0 /\ r.extlen = 1 /\ bodylen(r) = keylen(r) + 1,
                     "bin_reading_incr_header", 1)
          [] c.cmd \in {"append", "prepend"} ->
                Read(keylen(r) > 0 /\ r.extlen = 0, "bin_reading_set_header", 0)
          [] c.cmd = "stat" -> Read(r.extlen = 0, "bin_reading_stat", 0)
          [] c.cmd \in {"sasl_auth", "sasl_step"} ->
                Read(r.extlen = 0 /\ keylen(r) # 0, "bin_reading_sasl_auth", 0)
          [] c.cmd \in {"touch", "gat", "gatk"} ->
                Read(r.extlen = 1 /\ keylen(r) # 0, "bin_reading_touch_key", 1)
          [] OTHER -> {write_bin_error(c, "UNKNOWN_COMMAND", bodylen(r))}

(* ok is FALSE when the lengths in the header contradict each other.       *)
dispatch_bin_command(c0, sasl) ==
    LET r == Req(c0)
        c == [c0 EXCEPT !.noreply = Quiet(r), !.cmd = Loud(r.cmd)]
        Refuse(err) == [write_bin_error(c0, err, 0) EXCEPT !.write_and_go = "conn_closing"]
    IN  IF ~r.ok THEN {Refuse("UNKNOWN_COMMAND")}
        ELSE IF sasl /\ ~authenticated(c0) THEN {Refuse("AUTH_ERROR")}
        ELSE IF r.longkey /\ r.cmd \notin {"sasl_auth", "sasl_step"}
        THEN {handle_binary_protocol_error([c0 EXCEPT !.noreply = TRUE])}
        ELSE BinCommand(c, r, sasl)

complete_nread_binary(s, sasl) ==
    LET c == s.c
        r == Req(c)
    IN  CASE c.substate = "bin_reading_set_header" ->
                IF c.cmd \in {"append", "prepend"} THEN process_bin_append_prepend(s, r)
                ELSE process_bin_update(s, r)
          [] c.substate = "bin_read_set_value" -> complete_update_bin(s)
          [] c.substate \in {"bin_reading_get_key", "bin_reading_touch_key"} ->
                process_bin_get_or_touch(s, r)
          [] c.substate = "bin_reading_stat" -> {S(w, s.db) : w \in process_bin_stat(c, r)}
          [] c.substate = "bin_reading_del_header" -> process_bin_delete(s)
          [] c.substate = "bin_reading_incr_header" -> complete_incr_bin(s, r)
          [] c.substate = "bin_read_flush_exptime" -> process_bin_flush(s, r)
          [] c.substate = "bin_reading_sasl_auth" -> process_bin_sasl_auth(s, r, sasl)
          [] c.substate = "bin_reading_sasl_auth_data" -> process_bin_complete_sasl_auth(s)

complete_nread(s, sasl) ==
    IF s.c.protocol = "ascii" THEN complete_nread_ascii(s) ELSE complete_nread_binary(s, sasl)

-----------------------------------------------------------------------------
(* Finding the next request in the input buffer.                           *)

NeedsData(c) == conn_set_state(c, "conn_waiting")

(* A line ends with the first newline.  When it does not begin where a     *)
(* request begins it is no command.                                        *)
TryReadLine(s) ==
    LET c    == s.c
        nl   == {j \in DOMAIN c.rbuf : HasNewline(c.rbuf[j])}
        rest == SubSeq(c.rbuf, Min(nl) + 1, Len(c.rbuf))
        IsGet == Starts(Head(c.rbuf)) /\ c.script[Head(c.rbuf).n].cmd \in {"get", "gets"}
        Line == IF Starts(Head(c.rbuf))
                THEN process_command(S([c EXCEPT !.n = Head(c.rbuf).n], s.db))
                ELSE {S(out_string(add_msghdr(c), "ERROR"), s.db)}
    IN  IF nl = {}
        THEN {S(IF Len(c.rbuf) > LineMax /\ ~IsGet THEN conn_set_state(c, "conn_closing")
                ELSE NeedsData(c), s.db)}
        ELSE {S([w.c EXCEPT !.rbuf = rest], w.db) : w \in Line}

TryReadHeader(s, sasl) ==
    LET c == s.c
        h == [add_msghdr(c) EXCEPT !.n = Head(c.rbuf).n, !.cmd = c.script[Head(c.rbuf).n].cmd]
    IN  IF Len(c.rbuf) < 2 THEN {S(NeedsData(c), s.db)}
        ELSE IF Head(c.rbuf).part # "hdr" THEN {S(conn_set_state(c, "conn_closing"), s.db)}
        ELSE {S([w EXCEPT !.rbuf = SubSeq(@, 3, Len(@))], s.db)
                : w \in dispatch_bin_command(h, sasl)}

try_read_command(s, sasl) ==
    LET c == [s.c EXCEPT !.protocol =
                IF @ # "negotiating" THEN @
                ELSE IF Head(s.c.rbuf).part = "hdr" THEN "binary" ELSE "ascii"]
    IN  IF c.protocol = "binary" THEN TryReadHeader(S(c, s.db), sasl)
                                 ELSE TryReadLine(S(c, s.db))

-----------------------------------------------------------------------------
(* The clients and the network.                                            *)

Init ==
    /\ \E sc \in Scenarios :
        /\ cn = [k \in Conns |-> NewConn(sc.script[k], sc.sasl, sc.fails)]
        /\ env = [sasl |-> sc.sasl,
                  unsent |-> [k \in Conns |-> If(k \notin sc.arrived, UnitsOf(sc.script[k]))],
                  wire |-> [k \in Conns |-> If(k \in sc.arrived, UnitsOf(sc.script[k]))],
                  closed |-> [k \in Conns |-> FALSE],
                  stalled |-> [k \in Conns |-> FALSE],
                  stalls |-> [k \in Conns |-> sc.stalls],
                  hangups |-> sc.hangups, ticks |-> sc.ticks]
    /\ db = EmptyDb

Send(k) ==
    /\ env.unsent[k] # <<>> /\ ~env.closed[k]
    /\ env' = [env EXCEPT !.wire[k] = Append(@, Head(env.unsent[k])), !.unsent[k] = Tail(@)]
    /\ UNCHANGED <<cn, db>>

Hangup(k) ==
    /\ k \in env.hangups /\ ~env.closed[k]
    /\ env' = [env EXCEPT !.closed[k] = TRUE, !.stalled[k] = FALSE]
    /\ UNCHANGED <<cn, db>>

(* The send buffer is full because the peer does not read, and then is not.*)
Stall(k) ==
    /\ env.stalls[k] > 0 /\ ~env.stalled[k] /\ ~env.closed[k]
    /\ env' = [env EXCEPT !.stalled[k] = TRUE, !.stalls[k] = @ - 1]
    /\ UNCHANGED <<cn, db>>

Unstall(k) ==
    /\ env.stalled[k]
    /\ env' = [env EXCEPT !.stalled[k] = FALSE]
    /\ UNCHANGED <<cn, db>>

Tick ==
    /\ env.ticks > 0
    /\ db' = [db EXCEPT !.now = @ + 1]
    /\ env' = [env EXCEPT !.ticks = @ - 1]
    /\ UNCHANGED cn

-----------------------------------------------------------------------------
(* drive_machine.                                                          *)

W(k) == S(cn[k], db)

Becomes(k, worlds) == \E s \in worlds : cn' = [cn EXCEPT ![k] = s.c] /\ db' = s.db

Conn(k, c) == Becomes(k, {S(c, db)})

event_handler(k) ==
    LET c == cn[k]
    IN  /\ ~c.running
        /\ \/ c.ev = "READ" /\ (env.wire[k] # <<>> \/ env.closed[k])
           \/ c.ev = "WRITE" /\ ~env.stalled[k]
        /\ Conn(k, [c EXCEPT !.running = TRUE, !.nreqs = ReqsPerEvent])
        /\ UNCHANGED env

(* A read event although there is nothing to read.                         *)
SpuriousEvent(k) ==
    /\ env.stalls[k] > 0 /\ ~cn[k].running /\ cn[k].ev = "READ"
    /\ Conn(k, [cn[k] EXCEPT !.running = TRUE, !.nreqs = ReqsPerEvent])
    /\ env' = [env EXCEPT !.stalls[k] = @ - 1]

At(k, state) == cn[k].running /\ cn[k].todo = "" /\ cn[k].state = state

Stopped(c, ev) == [c EXCEPT !.running = FALSE, !.ev = ev]

Waiting(k) ==
    /\ At(k, "conn_waiting")
    /\ Conn(k, Stopped(conn_set_state(cn[k], "conn_read"), "READ"))
    /\ UNCHANGED env

(* What has arrived is read at once; the buffer may have to grow for it.   *)
(* An end of file that is met after a full read loses what was read.       *)
try_read_network(k) ==
    LET c     == cn[k]
        all   == c.rbuf \o env.wire[k]
        exact == Len(all) \in {RSize * 2 ^ j : j \in 0..4}
    IN  /\ At(k, "conn_read")
        /\ \/ env.wire[k] # <<>> /\ ~(exact /\ env.closed[k])
              /\ Conn(k, [conn_set_state(c, "conn_parse_cmd") EXCEPT !.rbuf = all])
           \/ env.closed[k] /\ (exact \/ env.wire[k] = <<>>)
              /\ Conn(k, conn_set_state(c, "conn_closing"))
           \/ env.wire[k] = <<>> /\ ~env.closed[k]
              /\ Conn(k, conn_set_state(c, "conn_waiting"))
           \/ Len(all) >= RSize /\ c.fails > 0
              /\ Conn(k, [out_of_memory([c EXCEPT !.rbuf = <<>>, !.fails = @ - 1], "SERVER_ERROR")
                            EXCEPT !.write_and_go = "conn_closing"])
        /\ env' = [env EXCEPT !.wire[k] = <<>>]

Parse(k) ==
    /\ At(k, "conn_parse_cmd")
    /\ Becomes(k, try_read_command(W(k), env.sasl))
    /\ UNCHANGED env

NewCmd_NoEvent(k) ==
    LET c == cn[k]
    IN  /\ At(k, "conn_new_cmd")
        /\ IF c.nreqs > 0
           THEN Becomes(k, {reset_cmd_handler(S([c EXCEPT !.nreqs = @ - 1], db))})
           ELSE Conn(k, Stopped(c, c.ev))
        /\ UNCHANGED env

(* Only so many requests per event; EV_WRITE, because what is already in   *)
(* the buffer raises no read event.                                        *)
NewCmd(k) ==
    LET c == cn[k]
    IN  /\ At(k, "conn_new_cmd")
        /\ IF c.nreqs > 0
           THEN Becomes(k, {reset_cmd_handler(S([c EXCEPT !.nreqs = @ - 1], db))})
           ELSE Conn(k, Stopped(c, IF c.rbuf # <<>> THEN "WRITE" ELSE c.ev))
        /\ UNCHANGED env

(* Takes len units, first from the buffer and then from the socket; with   *)
(* none there, waits for the event or closes.                              *)
Take(k, len, taken) ==
    LET c    == cn[k]
        n    == Min({len, Len(c.rbuf) + Len(env.wire[k])})
        m    == Min({len, Len(c.rbuf)})
        done == [taken[n] EXCEPT !.rbuf = SubSeq(@, m + 1, Len(@))]
    IN  /\ Conn(k, IF n > 0 THEN done
                   ELSE IF env.closed[k] THEN conn_set_state(c, "conn_closing")
                   ELSE Stopped(c, "READ"))
        /\ env' = [env EXCEPT !.wire[k] = SubSeq(@, (n - m) + 1, Len(@))]

Nread(k) ==
    /\ At(k, "conn_nread")
    /\ IF cn[k].rlbytes = 0
       THEN Becomes(k, complete_nread(W(k), env.sasl)) /\ UNCHANGED env
       ELSE Take(k, cn[k].rlbytes,
                 [n \in 0..cn[k].rlbytes |-> [cn[k] EXCEPT !.rlbytes = @ - n]])

Swallow(k) ==
    /\ At(k, "conn_swallow")
    /\ IF cn[k].sbytes = 0
       THEN Conn(k, conn_set_state(cn[k], "conn_new_cmd")) /\ UNCHANGED env
       ELSE Take(k, cn[k].sbytes,
                 [n \in 0..cn[k].sbytes |-> [cn[k] EXCEPT !.sbytes = @ - n]])

(* The last words before the connection is closed answer no request.       *)
Sent(c) == [c EXCEPT !.iov = <<>>, !.wbuf = <<>>,
                     !.replied = IF c.write_and_go = "conn_closing" THEN @ ELSE Append(@, c.n)]

(* conn_write and conn_mwrite; only the latter gives the items back.       *)
TransmitComplete(k) ==
    LET c == cn[k]
    IN  \/ /\ At(k, "conn_write")
           /\ Conn(k, conn_set_state([Sent(c) EXCEPT !.write_and_free = FALSE], c.write_and_go))
        \/ /\ At(k, "conn_mwrite")
           /\ LET r == conn_release_items(S(Sent(c), db))
              IN  Becomes(k, {S(conn_set_state(r.c, IF c.protocol = "binary" THEN c.write_and_go
                                                    ELSE "conn_new_cmd"), r.db)})

transmit(k) ==
    /\ At(k, "conn_write") \/ At(k, "conn_mwrite")
    /\ \/ ~env.stalled[k] /\ TransmitComplete(k)
       \/ env.stalled[k] /\ Conn(k, Stopped(cn[k], "WRITE"))
       \/ env.closed[k] /\ Conn(k, conn_set_state(cn[k], "conn_closing"))
    /\ UNCHANGED env

Closing(k) ==
    /\ At(k, "conn_closing")
    /\ Becomes(k, {S([s.c EXCEPT !.running = FALSE], s.db) : s \in {conn_close(W(k))}})
    /\ UNCHANGED env

Watch(k) ==
    /\ At(k, "conn_watch")
    /\ Conn(k, Stopped(cn[k], "NONE"))
    /\ UNCHANGED env

(* The thread that was given the connection hands it back or closes it.    *)
conn_worker_readd(k) ==
    /\ ~cn[k].running /\ cn[k].state = "conn_watch"
    /\ \/ /\ Req(cn[k]).cmd = "lru_crawler"
          /\ Conn(k, [conn_set_state(cn[k], "conn_new_cmd") EXCEPT !.ev = "READ"])
       \/ Becomes(k, {conn_close(W(k))})
    /\ UNCHANGED env

-----------------------------------------------------------------------------
(* The rest of handlers that gave up the item lock.                        *)

limited_get(d, k, r) ==
    IF r.cmd \in {"gat", "gats"} THEN item_touch(d, k, realtime(d, r.exptime)) ELSE item_get(d, k)

(* One key of a get.  When there is no memory for the answer the key is    *)
(* tried again and the keys after it are forgotten; what the answer        *)
(* already says of the item, its key, stays in it.                         *)
GetKey(k) ==
    LET c == cn[k]
        r == Req(c)
        g == limited_get(db, Head(c.left), r)
        i == g.it
        hit == [add_iov(c, Piece(c, "VALUE", i, g.db.item[i].data))
                    EXCEPT !.ilist = Append(@, i), !.suffixes = @ + 1, !.left = Tail(@)]
        failed(p) == [c EXCEPT !.iov = @ \o p, !.fails = @ - 1, !.left = <<Head(@)>>]
        partial == <<Piece(c, "PARTIAL", i, <<>>)>>
    IN  /\ c.todo = "get" /\ c.left # <<>>
        /\ IF r.longkey /\ Len(c.left) = 1
           THEN LET s == conn_release_items(W(k))
                IN  Becomes(k, {S([out_string(s.c, "CLIENT_ERROR")
                                    EXCEPT !.todo = "", !.left = <<>>], s.db)})
           ELSE IF i = None
           THEN Becomes(k, {S([c EXCEPT !.left = Tail(@)], g.db)})
           ELSE \E ok \in ensure_iov_space(c) :
                    Becomes(k, IF ok THEN {S(Seen(hit, g.db, i), g.db)}
                               ELSE {S(failed(p), item_remove(g.db, i)) : p \in {<<>>, partial}})
        /\ UNCHANGED env

GetEnd(k) ==
    LET c == [cn[k] EXCEPT !.todo = ""]
    IN  /\ cn[k].todo = "get" /\ c.left = <<>>
        /\ \E ok \in ensure_iov_space(c) :
            Conn(k, IF ok THEN conn_set_state(add_iov(c, Piece(c, "END", None, <<>>)), "conn_mwrite")
                    ELSE out_of_memory([c EXCEPT !.fails = @ - 1], "SERVER_ERROR"))
        /\ UNCHANGED env

(* The end of a delete, and of a SET that found no memory.                 *)
DeleteItem(k) ==
    LET c == cn[k]
        w == [c EXCEPT !.todo = "", !.local = None]
    IN  /\ c.todo \in {"delete", "purge"}
        /\ Becomes(k, {S(IF c.todo = "purge" THEN w
                         ELSE IF c.protocol = "binary" THEN write_bin_response(w, "DELETED")
                         ELSE out_string(w, "DELETED"),
                         item_remove(item_unlink(db, c.local), c.local))})
        /\ UNCHANGED env

IncrAdd(k) ==
    /\ cn[k].todo = "incr_add"
    /\ Becomes(k, IncrAddWorlds(W(k)))
    /\ UNCHANGED env

drive_machine(k) ==
    \/ Waiting(k) \/ try_read_network(k) \/ Parse(k) \/ NewCmd(k) \/ Nread(k)
    \/ Swallow(k) \/ transmit(k) \/ Closing(k) \/ Watch(k)
    \/ GetKey(k) \/ GetEnd(k) \/ DeleteItem(k) \/ IncrAdd(k)

Next ==
    \/ Tick
    \/ \E k \in Conns : \/ Send(k) \/ Hangup(k) \/ Stall(k) \/ Unstall(k)
                        \/ event_handler(k) \/ SpuriousEvent(k) \/ drive_machine(k) \/ conn_worker_readd(k)

Spec == Init /\ [][Next]_vars

(* A worker whose event is ready runs; a peer that reads slowly reads on.  *)
Fairness ==
    \A k \in Conns : /\ WF_vars(event_handler(k)) /\ WF_vars(drive_machine(k))
                     /\ WF_vars(conn_worker_readd(k)) /\ WF_vars(Unstall(k))

FairSpec == Spec /\ Fairness

-----------------------------------------------------------------------------
(* Properties.                                                             *)

(* A request after which the server is not where its client is.  The data  *)
(* of a malformed text store is left to be read as a line; so is that of a *)
(* refused one with noreply, which forgets to swallow; an accepted SET,    *)
(* ADD or REPLACE takes 8 bytes more than its body.                        *)
LosesStep(c, m) ==
    LET r == c.script[m] IN
    \/ /\ r.proto = "ascii" /\ r.cmd \in StoreComms
       /\ ~r.ok \/ r.longkey \/ (r.noreply /\ m \in c.refused)
    \/ r.proto = "binary" /\ Loud(r.cmd) \in {"set", "add", "replace"}

InStep(c) == \A m \in 1..c.n : ~LosesStep(c, m)

(* try_read_command looks for a request where one begins.                  *)
ReadsInSync(k) ==
    At(k, "conn_parse_cmd") => cn[k].rbuf # <<>> /\ Starts(Head(cn[k].rbuf))

(* As long as a connection has carried no request that LosesStep names,    *)
(* try_read_command only ever looks for a request where one begins: after  *)
(* refused, swallowed, aborted and quiet requests of either protocol, in   *)
(* however many parts they arrive, the buffer is in step with the client.  *)
(* ConnSwallow, ConnBadLine and ConnBinarySet show the three exceptions.   *)
InSync == \A k \in Conns : InStep(cn[k]) => ReadsInSync(k)

(* Without the exceptions, as the protocol would have it.                  *)
AlwaysInSync == \A k \in Conns : ReadsInSync(k)

(* Requests that may go without an answer.                                 *)
Silent(r) == r.noreply \/ Quiet(r) \/ r.cmd = "watch" \/ r.sub = "metadump"

AnswersInOrder(c) ==
    /\ \A i, j \in DOMAIN c.replied : i < j => c.replied[i] < c.replied[j]
    /\ \A m \in 1..(c.n - 1) : Silent(c.script[m]) \/ m \in Range(c.replied)
    /\ \A m \in Range(c.replied) : ~c.script[m].noreply

(* As long as a connection has carried no request that LosesStep names,    *)
(* answers come one per request and in the order of the requests, none is  *)
(* skipped before the next request is looked at, and a text request with   *)
(* noreply has none.  Data taken for a line is answered once more (ERROR), *)
(* as ConnBadLine shows, with noreply too.                                 *)
OneReplyEach == \A k \in Conns : InStep(cn[k]) => AnswersInOrder(cn[k])

(* Without the exceptions.                                                 *)
AlwaysOneReply == \A k \in Conns : AnswersInOrder(cn[k])

References(c, i) ==
    B2N(c.item = i) + B2N(c.local = i) + Cardinality({j \in DOMAIN c.ilist : c.ilist[j] = i})

(* The reference count of an item is the link of the hash table and the    *)
(* references that connections hold, between the steps of every command    *)
(* and whatever fails, with two exceptions that ConnEmpty and ConnLeak     *)
(* show and the scenarios leave out: incr or decr of an empty value keeps  *)
(* a reference, and a get that has no room for END leaves its items in     *)
(* ilist, where the next get of the connection forgets them.               *)
RefcountExact ==
    \A i \in Slots :
        db.item[i].ref = B2N(db.item[i].linked) + MapThenSumSet(LAMBDA k : References(cn[k], i), Conns)

(* What a reply points to is, until it is sent, the value it was composed  *)
(* of: the item is neither freed nor changed in place under a get.  What   *)
(* is left in the reply of a key that had no room for more is no answer    *)
(* and is exempt.                                                          *)
ReplyIsSnapshot ==
    \A k \in Conns : \A p \in Range(cn[k].iov) : p.slot # None /\ p.kind # "PARTIAL" =>
        db.item[p.slot].ref > 0 /\ db.item[p.slot].data = p.data

(* What is left of such a key points into an item that nobody holds for    *)
(* the reply; ConnPartial shows that it may be free when it is sent.       *)
PartialHeld ==
    \A k \in Conns : \A p \in Range(cn[k].iov) : p.slot # None => db.item[p.slot].ref > 0

(* cas stores only if the value its client saw is still the value: no      *)
(* change by another connection, incr and decr in place included, is lost. *)
CasNoLostUpdate ==
    [][\A k \in Conns :
        LET c == cn[k] IN
        (/\ At(k, "conn_nread") /\ c.cmd = "cas"
         /\ \E p \in Range(cn'[k].wbuf \o cn'[k].iov) : p.kind = "STORED")
        => /\ db.table[Key(c)] # None
           /\ db.item[db.table[Key(c)]].data = c.seen.data]_vars

(* incr and decr, answered with a number, leave the text of the number     *)
(* that the 64-bit arithmetic gives: wrapped, floored, padded, replaced.   *)
CounterExact ==
    [][\A k \in Conns :
        LET c == cn[k]
            r == Req(cn'[k])
            i == db.table[Head(r.keys)]
            j == db'.table[Head(r.keys)]
        IN  (/\ cn'[k].n # 0 /\ r.cmd \in {"incr", "decr", "incrq", "decrq"}
             /\ At(k, "conn_parse_cmd") \/ At(k, "conn_nread")
             /\ \E p \in Range(cn'[k].wbuf \o cn'[k].iov) : p.kind = "NUMBER")
            => /\ i # None /\ j # None
               /\ safe_strtoull(db'.item[j].data)
               /\ Value(db'.item[j].data) =
                    IF Loud(r.cmd) = "incr" THEN (Value(db.item[i].data) + r.delta) % Modulus
                    ELSE Max({0, Value(db.item[i].data) - r.delta})]_vars

(* A flush_all that takes effect at once drops exactly the items stored    *)
(* before it: an older item is never found again and a newer one, even of  *)
(* the same second, is kept.  One with a delay goes by the second alone    *)
(* and is not in the scenarios.                                            *)
FlushExact ==
    \A i \in Slots : db.item[i].linked =>
        (item_is_flushed(db, i) <=> db.item[i].cas <= db.flushed_at)

(* With SASL a connection that is not authenticated, or no longer is after *)
(* another attempt, neither sees a value nor stores one.                   *)
AuthRequired ==
    [][\A k \in Conns : env.sasl /\ ~cn[k].authenticated /\ cn'[k] # cn[k] =>
        /\ \A p \in Range(cn'[k].iov) : p.kind \notin {"VALUE", "NUMBER", "STORED", "DELETED"}
        /\ \A key \in Keys : db'.table[key] \in {db.table[key], None}]_vars

(* What a client has sent is read and answered, through yields after       *)
(* reqs_per_event requests and through a full send buffer, unless the      *)
(* connection ends or has been given to another thread.                    *)
Drained(k) ==
    \/ cn[k].state \in {"conn_closed", "conn_watch"}
    \/ env.wire[k] = <<>> /\ cn[k].rbuf = <<>> /\ ~cn[k].running

AllDrained == \A k \in Conns : (env.unsent[k] = <<>>) ~> Drained(k)
=============================================================================
