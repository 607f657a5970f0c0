------------------------------ MODULE DiffCore ------------------------------
(***************************************************************************)
(* The comparison of two normalized views (jobs/diffcore.py).              *)
(*                                                                         *)
(* A view maps keys to values.  In the modes that compare by equality a    *)
(* value is a scalar, a dict of fields or a text, a sequence of lines; in  *)
(* the numeric modes it is a number, None (the collector could not read    *)
(* the count) or one of Words, whatever is not a number.  Numbers are      *)
(* integers; a percentage of one is computed in doubles.  Order, headers   *)
(* and notes of the entries are left out.                                  *)
(***************************************************************************)
EXTENDS Integers, Sequences, FiniteSets, FiniteSetsExt, SequencesExt, Functions

CONSTANTS
  None, Words,
  Precision,    \* a computed percentage is right to one part in this
  Misrounded    \* the <<change, old, pct>> a double puts on the wrong side of pct

ASSUME NoneAssumption == None \notin Int /\ None \notin Words /\ Words \cap Int = {}

\* What a value may be besides a number.
Others == Words \cup {None}
Numeric(v) == v \notin Others
At(f, x) == IF x \in DOMAIN f THEN f[x] ELSE None
Absolute(n) == IF n < 0 THEN -n ELSE n

\* A change so near to pct of old that a double may take it for the other side:
\* 107 after 100 is beyond 7%, as 7 / 100 * 100.0 is 7.000000000000001.
Close(change, old, pct) ==
  change # 0 /\ Precision * Absolute(100 * change - pct * old) <= pct * old

ASSUME RoundingAssumption ==
  /\ Precision \in Nat
  /\ \A t \in Misrounded : t \in Nat \X Nat \X Nat /\ Close(t[1], t[2], t[3])

\* A value: [kind |-> "scalar", is |-> v], [kind |-> "dict", is |-> fields] or
\* [kind |-> "text", is |-> lines].
\* A band bounds a change: abs and pct may be None, direction may be "both".
Unbounded == [abs |-> None, pct |-> None, direction |-> "both"]
Bounds(band) == {b \in {"abs", "pct"} : band[b] # None}

\* abs(delta) / abs(old) * 100.0 <= pct, in doubles.
WithinPct(change, old, pct) ==
  100 * change <= pct * old <=> <<change, old, pct>> \notin Misrounded

\* Either bound is enough; a percentage of zero allows nothing to appear.
WithinBand(old, new, band) ==
  LET delta == new - old
      Inside(b) == CASE b = "abs" -> Absolute(delta) <= band.abs
                     [] b = "pct" /\ old # 0 -> WithinPct(Absolute(delta), Absolute(old), band.pct)
                     [] OTHER -> new = 0
  IN  \/ band.direction = "min_only" /\ delta >= 0
      \/ band.direction = "max_only" /\ delta <= 0
      \/ Bounds(band) = {} /\ delta = 0
      \/ \E b \in Bounds(band) : Inside(b)

\* The entries of a report: what was added, removed and changed, the keys or
\* fields that missed their bound.
Report(result, added, removed, changed, missed) ==
  [result |-> result, added |-> added, removed |-> removed, changed |-> changed,
   missed |-> missed]
Verdict(added, removed, changed, missed) ==
  Report(IF added \cup removed \cup changed \cup missed = {} THEN "pass" ELSE "diffs",
         added, removed, changed, missed)

-----------------------------------------------------------------------------
(* What a collector records for a check that is compared in a mode. *)

Modes == {"equality_set", "equality_scalar", "tolerance", "presence_only", "capability",
          "info_only", "text_diff"}

IsBand(band) == /\ {band.abs, band.pct} \subseteq Nat \cup {None}
                /\ band.direction \in {"both", "min_only", "max_only"}
IsCompare(compare) ==
  /\ compare.mode \in Modes /\ compare.ignoreRemoved \in BOOLEAN
  /\ {compare.floorPre, compare.minPost} \subseteq Nat
  /\ IsBand(compare.band) /\ \A f \in DOMAIN compare.fields : IsBand(compare.fields[f])

\* The dicts beside a device's texts say whether these agree, not how long they are.
TextLine == [indent : Nat, mark : BOOLEAN]
IsValue(v, mode) ==
  \/ v.kind = "scalar"
  \/ /\ v.kind = "dict" /\ IsFiniteSet(DOMAIN v.is)
     /\ \A f \in DOMAIN v.is : v.is[f] \in Int \cup Others
     /\ mode = "text_diff" => "line_count" \notin DOMAIN v.is
  \/ v.kind = "text" /\ v.is \in Seq(TextLine)

IsView(view, mode) ==
  /\ IsFiniteSet(DOMAIN view)
  /\ \A k \in DOMAIN view :
       /\ mode \in {"equality_set", "text_diff"} => IsValue(view[k], mode)
       /\ mode = "tolerance" => view[k] \in Int \cup Others
       /\ mode = "capability" => view[k] \in Nat \cup {None}
-----------------------------------------------------------------------------
(* The modes *)

\* The fields in which two dicts differ, but for those a band tolerates.
Differing(old, new, compare) ==
  {f \in DOMAIN old \cup DOMAIN new :
    LET a == At(old, f)
        b == At(new, f)
    IN  /\ a # b
        /\ ~ /\ f \in DOMAIN compare.fields /\ Numeric(a) /\ Numeric(b)
             /\ WithinBand(a, b, compare.fields[f])}

Changed(pre, post, compare) ==
  UNION {LET old == pre[k]
             new == post[k]
         IN  IF old.kind = new.kind /\ old.is = new.is THEN {}
             ELSE IF old.kind = "dict" /\ new.kind = "dict"
               THEN {<<k, f>> : f \in Differing(old.is, new.is, compare)}
             ELSE {<<k, "whole">>} : k \in DOMAIN pre \cap DOMAIN post}

DiffEqualitySet(pre, post, compare) ==
  LET removed == DOMAIN pre \ DOMAIN post
  IN  Verdict(DOMAIN post \ DOMAIN pre, IF compare.ignoreRemoved THEN {} ELSE removed,
              Changed(pre, post, compare), {})

DiffEqualityScalar(pre, post) ==
  Verdict({}, {}, {<<k, "whole">> : k \in {k \in DOMAIN pre \cup DOMAIN post :
                                             At(pre, k) # At(post, k)}}, {})

\* A field that is not a number on both sides is shown, and is no miss.
DiffTolerance(pre, post, compare) ==
  LET declared == DOMAIN compare.fields
      fields == IF declared # {} THEN declared
                ELSE {f \in DOMAIN pre \cup DOMAIN post : Numeric(At(pre, f)) \/ Numeric(At(post, f))}
      Band(f) == IF f \in declared /\ compare.fields[f] # Unbounded THEN compare.fields[f]
                 ELSE compare.band
  IN  Verdict({}, {}, {}, {f \in fields : /\ Numeric(At(pre, f)) /\ Numeric(At(post, f))
                                          /\ ~WithinBand(pre[f], post[f], Band(f))})

DiffPresence(pre, post) ==
  Verdict(DOMAIN post \ DOMAIN pre, DOMAIN pre \ DOMAIN post, {}, {})

\* Slip: a count that was not read afterwards is no miss.
DiffCapabilityLax(pre, post, compare) ==
  LET gating == {k \in DOMAIN pre \cap DOMAIN post : pre[k] # None /\ pre[k] >= compare.floorPre}
  IN  Verdict({}, {}, {}, {k \in gating : post[k] # None /\ post[k] < compare.minPost})

\* A bucket gates when it was counted before and reached the floor; unread or
\* unmeasured afterwards, it fails closed.
DiffCapability(pre, post, compare) ==
  LET gating == {k \in DOMAIN pre : pre[k] # None /\ pre[k] >= compare.floorPre}
      works(k) == k \in DOMAIN post /\ post[k] # None /\ post[k] >= compare.minPost
  IN  Verdict({}, {}, {}, {k \in gating : ~works(k)})
-----------------------------------------------------------------------------
(* Texts *)

\* difflib's match of two texts: pairs of equal lines, in order on both sides.
\* Which of them it finds is its own choice, but equal texts match whole.
Matches(old, new) ==
  LET pairs == {p \in (1..Len(old)) \X (1..Len(new)) : old[p[1]] = new[p[2]]}
  IN  IF old = new THEN {{<<i, i>> : i \in 1..Len(old)}}
      ELSE {match \in SUBSET pairs :
        \A p, q \in match : p = q \/ (p[1] < q[1] /\ p[2] < q[2]) \/ (q[1] < p[1] /\ q[2] < p[2])}

\* Runs and hunks in the order of the texts.
Place(r) == r.i2 + r.j2
InOrder(S) ==
  CHOOSE list \in SetToSeqs(S) :
    \A i, j \in DOMAIN list : i < j => Place(list[i]) < Place(list[j])

\* The runs between the matched lines: old (i1, i2] against new (j1, j2].
Runs(old, new, match) ==
  LET ends == match \cup {<<Len(old) + 1, Len(new) + 1>>}
      Before(p) == {q \in match \cup {<<0, 0>>} : q[1] < p[1]}
      Run(p) == LET q == CHOOSE q \in Before(p) : \A r \in Before(p) : r[1] <= q[1]
                IN  [i1 |-> q[1], i2 |-> p[1] - 1, j1 |-> q[2], j2 |-> p[2] - 1]
  IN  InOrder({r \in {Run(p) : p \in ends} : r.i1 < r.i2 \/ r.j1 < r.j2})

\* A line is [indent, mark], a mark being blank or '!'.
StanzaStartRank(line) == <<IF line.mark THEN 1 ELSE 0, line.indent>>
Below(a, b) == a[1] < b[1] \/ (a[1] = b[1] /\ a[2] < b[2])

\* Slip: the block moves past the unchanged lines around it.
SlideBlockFar(lines, start, stop, low, high) ==
  CHOOSE n \in 0..(Len(lines) - (stop - start)) :
    \A m \in 0..(Len(lines) - (stop - start)) :
      ~Below(StanzaStartRank(lines[m + 1]), StanzaStartRank(lines[n + 1]))

\* A block of added or removed lines is moved, within the unchanged lines
\* around it, to where it opens a stanza; ties keep the topmost.
SlideBlock(lines, start, stop, low, high) ==
  LET up == {n \in 0..(start - low) : \A k \in 0..(n - 1) : lines[start - k] = lines[stop - k]}
      top == start - Max(up)
      end == stop - Max(up)
      down == {n \in 0..(high - end) : \A k \in 1..n : lines[top + k] = lines[end + k]}
      Rank(n) == StanzaStartRank(lines[top + n + 1])
  IN  top + (CHOOSE n \in down : \A m \in down : Below(Rank(n), Rank(m)) \/ (Rank(n) = Rank(m) /\ n <= m))

Moved(run, shift) ==
  [i1 |-> run.i1 + shift, i2 |-> run.i2 + shift, j1 |-> run.j1 + shift, j2 |-> run.j2 + shift]

\* Each pure insert or delete settles between the run before it, which has
\* settled, and the run after it, which has not.
Settle(runs, i, old, new) ==
  LET r == runs[i]
      inserts == r.i1 = r.i2
      low == IF i = 1 THEN 0 ELSE IF inserts THEN runs[i - 1].j2 ELSE runs[i - 1].i2
      high == IF inserts
                THEN IF i = Len(runs) THEN Len(new) ELSE runs[i + 1].j1
                ELSE IF i = Len(runs) THEN Len(old) ELSE runs[i + 1].i1
  IN  IF r.i1 < r.i2 /\ r.j1 < r.j2 THEN r
      ELSE IF inserts THEN Moved(r, SlideBlock(new, r.j1, r.j2, low, high) - r.j1)
      ELSE Moved(r, SlideBlock(old, r.i1, r.i2, low, high) - r.i1)

\* _text_opcodes: the runs settle one after the other.
SettledRuns(runs, old, new) ==
  LET after[k \in 0..Len(runs)] ==
        IF k = 0 THEN runs
        ELSE LET rs == after[k - 1] IN [rs EXCEPT ![k] = Settle(rs, k, old, new)]
  IN  after[Len(runs)]

\* _text_hunks: a hunk is a run where it has settled, with its lines.
Hunk(r, old, new) ==
  [i1 |-> r.i1, i2 |-> r.i2, j1 |-> r.j1, j2 |-> r.j2,
   old |-> SubSeq(old, r.i1 + 1, r.i2), new |-> SubSeq(new, r.j1 + 1, r.j2)]
Hunks(old, new, match) ==
  LET rs == SettledRuns(Runs(old, new, match), old, new)
  IN  {Hunk(rs[i], old, new) : i \in DOMAIN rs}

\* Texts on both sides differ by their hunks, everything else as in an
\* equality set, a lone text by its line count.
DiffText(pre, post, compare, match) ==
  LET texts == {k \in DOMAIN pre \cap DOMAIN post : pre[k].kind = "text" /\ post[k].kind = "text"}
      Rest(side) == [k \in DOMAIN side |->
                      IF k \in texts THEN [kind |-> "dict", is |-> <<>>]
                      ELSE IF side[k].kind = "text"
                        THEN [kind |-> "dict", is |-> [line_count |-> Len(side[k].is)]]
                      ELSE side[k]]
      rest == DiffEqualitySet(Rest(pre), Rest(post), compare)
      hunks == UNION {{<<k, "hunk", h>> : h \in Hunks(pre[k].is, post[k].is, match[k])} :
                        k \in texts}
  IN  Verdict(rest.added, rest.removed, rest.changed \cup hunks, {})

DiffCheck(pre, post, compare, match) ==
  CASE compare.mode = "equality_set" -> DiffEqualitySet(pre, post, compare)
    [] compare.mode = "equality_scalar" -> DiffEqualityScalar(pre, post)
    [] compare.mode = "tolerance" -> DiffTolerance(pre, post, compare)
    [] compare.mode = "presence_only" -> DiffPresence(pre, post)
    [] compare.mode = "capability" -> DiffCapability(pre, post, compare)
    [] compare.mode = "info_only" -> Report("info", {}, {}, {}, {})
    [] compare.mode = "text_diff" -> DiffText(pre, post, compare, match)
=============================================================================
