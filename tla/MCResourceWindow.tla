-------------------------- MODULE MCResourceWindow --------------------------
(***************************************************************************)
(* compute_docker_averages on every docker_stats.csv of up to three lines  *)
(* drawn from the lines below, under five windows: a valid one, one with  *)
(* the start missing, one with an unparsable end, an inverted one, and    *)
(* one whose end carries no offset.                                       *)
(***************************************************************************)
EXTENDS ResourceWindow, TLC

TS(sec, frac, tz) == [sec |-> sec, frac |-> frac, tz |-> tz]

(* Window endpoints: 1.0Z and 2.5+00:00.                                   *)
StartA == TS(1, <<>>, "Z")
EndB   == TS(2, <<5>>, "+00:00")
EndN   == TS(2, <<5>>, "none")
MCWindows == {<<StartA, EndB>>, <<Blank, EndB>>, <<StartA, Garbage>>,
              <<EndB, StartA>>, <<StartA, EndN>>}

(* Line timestamps: seven fractional digits cut to exactly the start and *)
(* the end, an instant inside written with a +00:01 offset, one after    *)
(* the end, one without offset, a missing one, and 2.10 whose two digits *)
(* must be padded on the right to stay inside.                            *)
AtStart == TS(1, <<0, 0, 0, 0, 0, 0, 9>>, "Z")
AtEnd   == TS(2, <<5, 0, 0, 0, 0, 0, 1>>, "+00:00")
Inside  == TS(62, <<>>, "+00:01")
After   == TS(3, <<>>, "Z")
Naive   == TS(2, <<>>, "none")
Early   == TS(2, <<1, 0>>, "Z")

PG  == [word |-> "postgis", upper |-> FALSE, padded |-> FALSE]
PGx == [word |-> "postgis", upper |-> TRUE, padded |-> TRUE]
GEO == [word |-> "geoserver", upper |-> FALSE, padded |-> FALSE]
RDS == [word |-> "redis", upper |-> FALSE, padded |-> FALSE]

Cpu(v) == [v |-> v, pct |-> TRUE]
Mem(v, u) == [v |-> v, unit |-> u]
L(ts, label, cpu, mem) == [ts |-> ts, label |-> label, cpu |-> cpu, mem |-> mem]

MCLines ==
  { L(AtStart, PG,  Cpu(10), Mem(1, "MiB")),
    L(AtEnd,   PG,  Cpu(20), Mem(512, "KiB")),
    L(After,   PG,  Cpu(90), Mem(1, "MiB")),
    L(Naive,   PG,  Cpu(20), Mem(1, "KB")),
    L(Inside,  PGx, Cpu(30), Mem(1, "kB")),
    L(Inside,  GEO, Garbage, Mem(3, "B")),
    L(Blank,   GEO, Cpu(10), Mem(1, "MiB")),
    L(AtStart, RDS, Cpu(10), Mem(1, "MiB")),
    L(AtStart, GEO, Cpu(10), Blank),
    L(Early,   GEO, Cpu(40), Mem(2, "MiB")),
    Corrupt }

MCLogs == UNION {[1..n -> MCLines] : n \in 0..3}
=============================================================================
