------------------------------- MODULE MCDiff --------------------------------
(* Calls of the diff tool for TLC.  Loads mixes the artifacts of three runs,  *)
(* two of which started together, on one side; Contents compares two views   *)
(* of one check in every mode.                                               *)
EXTENDS DiffTool

CONSTANTS Up, Down   \* two of the Words

\* Of the changes below, those whose percentage a double puts beyond its bound.
\* A double is right to one part in 2^50 or so; TLC's integers end sooner.
MCMisrounded == {<<7, 100, 7>>, <<14, 200, 7>>, <<21, 300, 7>>}

Band(abs, pct, direction) == [abs |-> abs, pct |-> pct, direction |-> direction]
Compare(mode, fields, band, ignore) ==
  [mode |-> mode, fields |-> fields, band |-> band, ignoreRemoved |-> ignore,
   floorPre |-> 3, minPost |-> 1]
Plain(mode) == Compare(mode, Nothing, Unbounded, FALSE)
Check(status, view, compare) == [c \in {"c"} |-> [status |-> status, view |-> view, compare |-> compare]]

Snapshot(d, run, at, checks) ==
  [type |-> "snapshot", device |-> d, run |-> run, at |-> at, checks |-> checks]
Manifest(run, started, dryrun, rows) ==
  [type |-> "manifest", run |-> run, started |-> started, dryrun |-> dryrun, rows |-> rows]
Row(disposition, outcome) == [disposition |-> disposition, outcome |-> outcome]
Part(n, content) == [type |-> "part", name |-> n, content |-> content]
Parts(parts, snapshot) == [type |-> "parts", parts |-> parts, snapshot |-> snapshot]

Counted(n) == Check("success", [k1 |-> n], Plain("capability"))
d1 == "d1"
d2 == "d2"
Succeeded == Row("capture", "succeeded")

\* Three runs: the first, a later one, and one started with it.
Pool ==
  {Snapshot(d1, "r1", 1, Counted(5)), Snapshot(d1, "r2", 2, Counted(0)),
   Snapshot(d1, "r3", 2, Check("failed", Nothing, Plain("capability"))),
   Snapshot(d1, "r2", None, Counted(0)), Snapshot(d2, "r1", 1, Nothing),
   Manifest("r1", 1, FALSE, [d1 |-> Succeeded, d2 |-> Succeeded]),
   Manifest("r2", 2, FALSE, [d1 |-> Succeeded]),
   Manifest("r2", 2, FALSE, [d1 |-> Row("capture", "failed"), d2 |-> Row("excluded", None)]),
   Manifest("r2", 2, FALSE, [d1 |-> Row("capture", "not_visited")]),
   Manifest("r2", 2, TRUE, [d1 |-> Row("capture", None)]),
   Manifest("r3", 2, FALSE, [d1 |-> Succeeded]), Manifest("r3", 2, FALSE, [d2 |-> Succeeded]),
   Part("p1", "a"), Part("p2", "b"), Part("p2", "c"),
   Parts({Part("p1", "a"), Part("p2", "b")}, Snapshot(d1, "r2", 2, Counted(0)))}

Simple ==
  {{Snapshot(d1, "r9", 5, Counted(7))},
   {Snapshot(d1, "r9", 5, Counted(7)), Manifest("r9", 5, FALSE, [d1 |-> Succeeded, d2 |-> Succeeded])}}

Mixed == {a \in SUBSET Pool : Cardinality(a) \in 0..4}
Loads == {[s \in Sides |-> IF s = rich THEN m ELSE p] : rich \in Sides, m \in Mixed, p \in Simple}

-----------------------------------------------------------------------------
Views(keys, values) == UNION {[ks -> values] : ks \in SUBSET keys}
Bands == {Unbounded, Band(3, None, "both"), Band(None, 30, "both"), Band(1, 50, "both"),
          Band(None, 30, "min_only"), Band(3, None, "max_only")}
Scalar(v) == [kind |-> "scalar", is |-> v]
Dict(f) == [kind |-> "dict", is |-> f]
Lines(l) == [kind |-> "text", is |-> l]

Values == {Scalar(0), Scalar(Up), Scalar(Down), Dict(Nothing)} \cup {Dict([f |-> v]) : v \in {0, 3, 10, None, Up, Down}}
Line(indent, mark) == [indent |-> indent, mark |-> mark]
Alphabet == {Line(0, FALSE), Line(1, FALSE), Line(0, TRUE)}
Texts(n) == {Lines(l) : l \in BoundedSeq(Alphabet, n)}

\* Changes by as much as a percentage allows, and by one more or less.
Percents == {Band(abs, 7, direction) : abs \in {None, 3}, direction \in {"both", "min_only", "max_only"}}

\* Two views and how they are compared.
Comparisons ==
  {<<[k1 |-> v], [k1 |-> w], Compare("tolerance", Nothing, b, FALSE)>> :
     v \in {-100, 0, 100, 200, 300}, w \in {-107, -93, 0, 93, 106, 107, 108, 186, 214, 321}, b \in Percents}
  \cup
  {<<p, q, Compare("tolerance", IF b.direction = "both" THEN [k1 |-> b] ELSE Nothing, b, FALSE)>> :
     p, q \in Views({"k1"}, {0, 3, 4, 10, 13, None, Up}), b \in Bands}
  \cup {<<p, q, Compare("tolerance", [k1 |-> Unbounded], b, FALSE)>> :
          p, q \in Views({"k1", "k2"}, {0, 4, 10}), b \in Bands}
  \cup {<<p, q, Plain("capability")>> : p, q \in Views({"k1", "k2"}, {0, 2, 3, None})}
  \cup {<<p, q, Compare("equality_set", [f |-> b], Unbounded, i)>> :
          p, q \in Views({"e1"}, Values), b \in Bands, i \in BOOLEAN}
  \cup {<<p, q, Plain(m)>> : p, q \in Views({"k1", "k2"}, {0, Up}),
          m \in {"equality_scalar", "presence_only", "info_only"}}
  \cup {<<[t1 |-> p], [t1 |-> q], Plain("text_diff")>> : p \in Texts(3), q \in Texts(4)}
  \cup {<<[t1 |-> p], [t1 |-> q], Plain("text_diff")>> : p \in Texts(4), q \in Texts(2)}
  \cup {<<p, q, Plain("text_diff")>> : p, q \in Views({"t1"}, Texts(1) \cup {Scalar(Up)})}

Status == {"success", "failed", "skipped", "not-present"}
One(at, checks) == {Snapshot(d1, "r", at, checks)}
Contents ==
  {[pre |-> One(1, Check("success", c[1], c[3])), post |-> One(2, Check("success", c[2], c[3]))] :
     c \in Comparisons}
  \cup {[pre |-> One(1, p), post |-> One(2, q)] :
          p, q \in {Nothing} \cup {Check(s, [k1 |-> 3], Plain("capability")) : s \in Status}}

Calls == Loads \cup Contents
=============================================================================
