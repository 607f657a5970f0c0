------------------------------ MODULE DiffTool ------------------------------
(***************************************************************************)
(* The diff index of two sides of artifacts (tools/diff_snapshots.py and   *)
(* the report of jobs/envelope.py).                                        *)
(*                                                                         *)
(* Each side is a set of artifacts given in any order: snapshots, whole or *)
(* as an index and parts, and the manifests of the runs that made them.  A *)
(* snapshot's change and kind are its run's.  Every refusal ends the tool; *)
(* the parsers' refusals of malformed artifacts are left out.              *)
(***************************************************************************)
EXTENDS DiffCore

CONSTANTS Names, Given   \* the devices; the pairs of sides the tool is called with

Sides == {"pre", "post"}
CaptureDisposition == "capture"

\* A snapshot is of one of the devices, and dated or not.
IsSnapshot(x) ==
  x.device \in Names /\ x.at \in Nat \cup {None} /\ IsFiniteSet(DOMAIN x.checks)

\* A check that both have collected has, by the catalog, the views of its mode.
Collected(x, c) == c \in DOMAIN x.checks /\ x.checks[c].status = "success"
IsPair(x, y) ==
  \A c \in DOMAIN x.checks : Collected(x, c) /\ Collected(y, c) =>
    LET compare == x.checks[c].compare
    IN  /\ IsCompare(compare)
        /\ IsView(x.checks[c].view, compare.mode) /\ IsView(y.checks[c].view, compare.mode)

Snapshots(artifacts) ==
  {a \in artifacts : a.type = "snapshot"} \cup
  {a.snapshot : a \in {b \in artifacts : b.type = "parts"}}

ASSUME GivenAssumption ==
  \A g \in Given :
    /\ DOMAIN g = Sides
    /\ \A s \in Sides : \A x \in Snapshots(g[s]) : IsSnapshot(x)
    /\ \A x \in Snapshots(g["pre"]), y \in Snapshots(g["post"]) :
         x.device = y.device => IsPair(x, y)

\* Artifacts: [type, run] with, for a snapshot, device, at (None: undated) and
\* checks, for a manifest, started, dryrun and rows, for a part, name and content,
\* and for an index, the parts it describes and the snapshot they add up to.
VARIABLES
  given,      \* the artifacts of each side
  left,       \* those not yet read
  label,      \* the side that is read
  pc,         \* what the tool is doing
  side,       \* the snapshot held for each device
  tied,       \* the snapshots that share the held one's time
  manifests,  \* the manifests read
  pieces,     \* the parts read
  indexes,    \* the indexes not yet assembled
  used,       \* the parts an index has named
  pairs,      \* the report of each pair
  why         \* why the tool has refused

vars == <<given, left, label, pc, side, tied, manifests, pieces, indexes, used, pairs, why>>

Nothing == [n \in {} |-> {}]

Init ==
  /\ given \in Given /\ left = given
  /\ label = "pre" /\ pc = "read"
  /\ side = [s \in Sides |-> Nothing] /\ tied = [s \in Sides |-> Nothing]
  /\ manifests = [s \in Sides |-> {}]
  /\ pieces = {} /\ indexes = {} /\ used = {}
  /\ pairs = Nothing /\ why = "none"

Refuse(reason) == pc' = "refused" /\ why' = reason
Of(type) == {a \in left[label] : a.type = type}
Read(a) == left' = [left EXCEPT ![label] = @ \ {a}]

Without(f, d) == [n \in DOMAIN f \ {d} |-> f[n]]
With(f, d, x) == [n \in DOMAIN f \cup {d} |-> IF n = d THEN x ELSE f[n]]

\* Slip: the last snapshot read is held.
TakeLast(env) ==
  LET d == env.device
  IN  /\ side' = [side EXCEPT ![label] = With(@, d, env)]
      /\ tied' = [tied EXCEPT ![label] = Without(@, d)]

\* A snapshot no newer than the held one gives way; of the same time, it is
\* kept aside.  One that carries no time, or meets one, takes the place.
Take(env) ==
  LET d == env.device
      held == side[label][d]
      ranked == env.at # None /\ held.at # None
  IN  IF d \in DOMAIN side[label] /\ ranked /\ env.at <= held.at
        THEN /\ tied' = [tied EXCEPT ![label] =
                           IF env.at < held.at THEN @
                           ELSE With(@, d, (IF d \in DOMAIN @ THEN @[d] ELSE {held}) \cup {env})]
             /\ UNCHANGED side
        ELSE /\ side' = [side EXCEPT ![label] = With(@, d, env)]
             /\ tied' = [tied EXCEPT ![label] = Without(@, d)]
-----------------------------------------------------------------------------
(* Reading one side *)

ReadSnapshot ==
  /\ pc = "read"
  /\ \E a \in Of("snapshot") : Read(a) /\ Take(a)
  /\ UNCHANGED <<given, label, pc, manifests, pieces, indexes, used, pairs, why>>

\* One run has one manifest.
ReadManifest ==
  /\ pc = "read"
  /\ \E a \in Of("manifest") :
       /\ Read(a)
       /\ IF \E m \in manifests[label] : m.run = a.run /\ m # a
            THEN Refuse("conflicting manifests") /\ UNCHANGED manifests
            ELSE manifests' = [manifests EXCEPT ![label] = @ \cup {a}] /\ UNCHANGED <<pc, why>>
  /\ UNCHANGED <<given, label, side, tied, pieces, indexes, used, pairs>>

\* One name has one content.
ReadPart ==
  /\ pc = "read"
  /\ \E a \in Of("part") :
       /\ Read(a)
       /\ IF \E p \in pieces : p.name = a.name /\ p # a
            THEN Refuse("conflicting parts") /\ UNCHANGED pieces
            ELSE pieces' = pieces \cup {a} /\ UNCHANGED <<pc, why>>
  /\ UNCHANGED <<given, label, side, tied, manifests, indexes, used, pairs>>

ReadIndex ==
  /\ pc = "read"
  /\ \E a \in Of("parts") : Read(a) /\ indexes' = indexes \cup {a}
  /\ UNCHANGED <<given, label, pc, side, tied, manifests, pieces, used, pairs, why>>

\* Indexes wait for the last artifact; a snapshot with a part missing, or of
\* another content than its index says, is refused.
Assemble ==
  /\ pc = "read" /\ left[label] = {}
  /\ \E x \in indexes :
       /\ indexes' = indexes \ {x}
       /\ IF x.parts \subseteq pieces
            THEN used' = used \cup x.parts /\ Take(x.snapshot) /\ UNCHANGED <<pc, why>>
            ELSE Refuse("incomplete") /\ UNCHANGED <<used, side, tied>>
  /\ UNCHANGED <<given, left, label, manifests, pieces, pairs>>

Naming(ms, d) == {m \in ms : d \in DOMAIN m.rows}
Latest(ms, d) == {m \in Naming(ms, d) : \A n \in Naming(ms, d) : n.started <= m.started}

\* _latest_scopes: the newest manifest that names a device states its scope.
Ambiguous(ms) == \E d \in Names : Cardinality(Latest(ms, d)) > 1
Scoped(ms) == {d \in Names : Naming(ms, d) # {}}
Scope(ms, d) == CHOOSE m \in Latest(ms, d) : TRUE

\* Slip: of two snapshots of one time the first one read stays.
SettledByOrder(s) == side[s]

\* A tie is settled by the run that the newest manifest names.
Settled(s) ==
  [d \in DOMAIN side[s] |->
    LET mine == {c \in tied[s][d] : c.run = Scope(manifests[s], d).run}
    IN  IF d \in DOMAIN tied[s] /\ d \in Scoped(manifests[s]) /\ mine # {}
          THEN CHOOSE c \in mine : TRUE ELSE side[s][d]]

EndOfSide ==
  /\ pc = "read" /\ left[label] = {} /\ indexes = {}
  /\ pieces' = {} /\ used' = {}
  /\ IF pieces # used THEN Refuse("orphaned part") /\ UNCHANGED <<side, label>>
     ELSE IF DOMAIN side[label] = {} /\ manifests[label] = {}
       THEN Refuse("nothing loaded") /\ UNCHANGED <<side, label>>
     ELSE IF Ambiguous(manifests[label]) THEN Refuse("ambiguous order") /\ UNCHANGED <<side, label>>
     ELSE /\ side' = [side EXCEPT ![label] = Settled(label)]
          /\ label' = "post" /\ pc' = (IF label = "pre" THEN "read" ELSE "validate")
          /\ UNCHANGED why
  /\ UNCHANGED <<given, left, tied, manifests, indexes, pairs>>
-----------------------------------------------------------------------------
(* The runs *)

\* _validate_run, for one snapshot: its run is known and lists it, and is the
\* newest that does; that run captured it.
Matching(ms, env) ==
  LET d == env.device
      m == Scope(ms, d)
  IN  IF d \in Scoped(ms)
        THEN /\ env.run = m.run
             /\ m.rows[d].disposition = CaptureDisposition /\ m.rows[d].outcome # "not_visited"
        ELSE \A n \in ms : n.run # env.run

Validate ==
  /\ pc = "validate"
  /\ IF \E s \in Sides : \E m \in manifests[s] : m.dryrun THEN Refuse("dry run")
     ELSE IF \E s \in Sides : \E d \in DOMAIN side[s] : ~Matching(manifests[s], side[s][d])
       THEN Refuse("not of that run")
     ELSE pc' = "diff" /\ UNCHANGED why
  /\ UNCHANGED <<given, left, label, side, tied, manifests, pieces, indexes, used, pairs>>
-----------------------------------------------------------------------------
(* The pairs *)

Paired == DOMAIN side["pre"] \cap DOMAIN side["post"]
StatusOf(env, c) == IF c \in DOMAIN env.checks THEN env.checks[c].status ELSE "absent"
Both(pre, post, c) == StatusOf(pre, c) = "success" /\ StatusOf(post, c) = "success"

\* A check that was collected before and is not any more has failed.
DiffOf(pre, post, c, match) ==
  IF Both(pre, post, c)
    THEN DiffCheck(pre.checks[c].view, post.checks[c].view, pre.checks[c].compare, match)
    ELSE Report(IF StatusOf(pre, c) = "success" THEN "failed" ELSE "skipped", {}, {}, {}, {})

\* The keys that hold a text on both sides, and the matches difflib may find.
TextKeys(pre, post) ==
  {k \in DOMAIN pre.view \cap DOMAIN post.view : pre.view[k].kind = "text" /\ post.view[k].kind = "text"}
MatchesOf(pre, post, c) ==
  IF Both(pre, post, c) /\ pre.checks[c].compare.mode = "text_diff"
    THEN LET p == pre.checks[c]
             q == post.checks[c]
             all == UNION {Matches(p.view[k].is, q.view[k].is) : k \in TextKeys(p, q)}
         IN  {f \in [TextKeys(p, q) -> all] :
               \A k \in TextKeys(p, q) : f[k] \in Matches(p.view[k].is, q.view[k].is)}
    ELSE {Nothing}

\* summarize_report
Summary(checks) ==
  LET Count(results) == Cardinality({c \in DOMAIN checks : checks[c].result \in results})
      entries == [c \in DOMAIN checks |->
                   Cardinality(checks[c].added) + Cardinality(checks[c].removed)
                   + Cardinality(checks[c].changed) + Cardinality(checks[c].missed)]
  IN  [total |-> Cardinality(DOMAIN checks), passed |-> Count({"pass"}), diffs |-> Count({"diffs"}),
       failed |-> Count({"failed"}), skipped |-> Count({"skipped", "info"}),
       entries |-> SumFunctionOnSet(entries, DOMAIN checks)]

\* One pair; the matches of its checks are difflib's.
DiffPair ==
  /\ pc = "diff"
  /\ \E d \in Paired \ DOMAIN pairs :
       LET pre == side["pre"][d]
           post == side["post"][d]
           ids == DOMAIN pre.checks \cup DOMAIN post.checks
       IN  \E match \in {f \in [ids -> UNION {MatchesOf(pre, post, c) : c \in ids}] :
                           \A c \in ids : f[c] \in MatchesOf(pre, post, c)} :
             LET checks == [c \in ids |-> DiffOf(pre, post, c, match[c])]
             IN  pairs' = With(pairs, d, [checks |-> checks, summary |-> Summary(checks)])
  /\ UNCHANGED <<given, left, label, pc, side, tied, manifests, pieces, indexes, used, why>>

Finish ==
  /\ pc = "diff" /\ Paired = DOMAIN pairs
  /\ pc' = "done"
  /\ UNCHANGED <<given, left, label, side, tied, manifests, pieces, indexes, used, pairs, why>>

Next ==
  \/ ReadSnapshot \/ ReadManifest \/ ReadPart \/ ReadIndex \/ Assemble \/ EndOfSide
  \/ Validate \/ DiffPair \/ Finish

Spec == Init /\ [][Next]_vars

\* The index: what it lists besides the pairs.
Only(s, t) == DOMAIN side[s] \ DOMAIN side[t]
\* Slip: only a capture that is known to have failed is missing.
MissingIfFailed(s) ==
  {d \in Scoped(manifests[s]) \ DOMAIN side[s] : Scope(manifests[s], d).rows[d].outcome = "failed"}
Missing(s) ==
  {d \in Scoped(manifests[s]) \ DOMAIN side[s] :
    Scope(manifests[s], d).rows[d].disposition = CaptureDisposition}
Index == [pairs |-> DOMAIN pairs, preOnly |-> Only("pre", "post"), postOnly |-> Only("post", "pre"),
          missing |-> [s \in Sides |-> Missing(s)]]
-----------------------------------------------------------------------------
(* Properties *)

\* What was given for a device: its snapshots, whole or in parts, and its runs.
SnapshotsOf(s, d) == {x \in Snapshots(given[s]) : x.device = d}
ManifestsOf(s) == {a \in given[s] : a.type = "manifest"}
Dated(s, d) == \A x \in SnapshotsOf(s, d) : x.at # None
Newest(s, d) == {x \in SnapshotsOf(s, d) : \A y \in SnapshotsOf(s, d) : y.at <= x.at}
Accepted == pc \in {"diff", "done"}

\* "Newest capture wins per device", in whatever order the artifacts are given,
\* and of several runs the one that the newest manifest naming the device states
\* (_load_side_data, _latest_scopes, _validate_run).
NewestWins ==
  Accepted =>
    \A s \in Sides : \A d \in Names :
      SnapshotsOf(s, d) # {} /\ Dated(s, d) =>
        /\ d \in DOMAIN side[s] /\ side[s][d] \in Newest(s, d)
        /\ d \in Scoped(ManifestsOf(s)) => side[s][d].run = Scope(ManifestsOf(s), d).run

\* A manifest lists what its run captured.
Listed(s, d) == \A x \in SnapshotsOf(s, d) : \A m \in ManifestsOf(s) : m.run = x.run => d \in DOMAIN m.rows

\* No order of the arguments makes the tool refuse evidence that another order
\* would have it accept: a device is at fault, whichever of its newest snapshots
\* is held.
RefusalIsDeserved ==
  why = "not of that run" /\ (\A s \in Sides : \A d \in Names : Dated(s, d) /\ Listed(s, d)) =>
    \E s \in Sides : \E d \in Names :
      /\ SnapshotsOf(s, d) # {}
      /\ \A x \in Newest(s, d) : ~Matching(ManifestsOf(s), x)

\* No device drops out of the index: one with a snapshot on some side, or that
\* the newest run of a side meant to capture, is paired or listed under that side
\* ("a missing capture is unknown, not clean").
NoSilentDrop ==
  pc = "done" =>
    \A d \in Names : d \notin Index.pairs =>
      /\ SnapshotsOf("pre", d) # {} => d \in Index.preOnly
      /\ SnapshotsOf("post", d) # {} => d \in Index.postOnly
      /\ \A s \in Sides :
           /\ d \in Scoped(ManifestsOf(s)) /\ SnapshotsOf(s, d) = {}
           /\ Scope(ManifestsOf(s), d).rows[d].disposition = CaptureDisposition
           => d \in Index.missing[s]

\* The reference: which views agree, mode by mode.  A band is an interval around
\* the old value, open upwards or downwards when it has a direction.  A change that
\* doubles put on the wrong side of its percentage, all of them within Precision of
\* it, gets either verdict: doubtful says which, if it needs the percentage.
Slack(old, band) ==
  Max({0} \cup {IF b = "abs" THEN band.abs ELSE (band.pct * Absolute(old)) \div 100 : b \in Bounds(band)})
InInterval(old, new, band) ==
  /\ band.direction = "min_only" \/ new <= old + Slack(old, band)
  /\ band.direction = "max_only" \/ new >= old - Slack(old, band)
Misjudged(old, new, band) ==
  "pct" \in Bounds(band) /\ <<Absolute(new - old), Absolute(old), band.pct>> \in Misrounded
Near(old, new, band, doubtful) ==
  IF Misjudged(old, new, band)
    THEN doubtful \/ InInterval(old, new, [abs |-> band.abs, pct |-> None, direction |-> band.direction])
    ELSE InInterval(old, new, band)

\* An unread field and one that is not there are the same.
SameValue(old, new, compare, doubtful) ==
  \/ old.kind = new.kind /\ old.is = new.is
  \/ /\ old.kind = "dict" /\ new.kind = "dict"
     /\ \A f \in DOMAIN old.is \cup DOMAIN new.is :
          \/ At(old.is, f) = At(new.is, f)
          \/ /\ f \in DOMAIN compare.fields /\ {At(old.is, f), At(new.is, f)} \cap Others = {}
             /\ Near(old.is[f], new.is[f], compare.fields[f], doubtful)

\* Under a tolerance only what is a number on both sides can disagree, under
\* capability only what was counted before.
Agree(pre, post, compare, doubtful) ==
  LET Same == \A k \in DOMAIN pre \cap DOMAIN post : SameValue(pre[k], post[k], compare, doubtful)
  IN  CASE compare.mode \in {"equality_set", "text_diff"} ->
             /\ Same /\ DOMAIN post \subseteq DOMAIN pre
             /\ compare.ignoreRemoved \/ DOMAIN pre \subseteq DOMAIN post
        [] compare.mode = "equality_scalar" ->
             \A k \in DOMAIN pre \cup DOMAIN post : At(pre, k) = At(post, k)
        [] compare.mode = "presence_only" -> DOMAIN pre = DOMAIN post
        [] compare.mode = "tolerance" ->
             \A f \in DOMAIN pre \cap DOMAIN post :
               \/ {pre[f], post[f]} \cap Others # {}
               \/ DOMAIN compare.fields # {} /\ f \notin DOMAIN compare.fields
               \/ Near(pre[f], post[f],
                    IF f \in DOMAIN compare.fields /\ compare.fields[f] # Unbounded
                      THEN compare.fields[f] ELSE compare.band, doubtful)
        [] compare.mode = "capability" ->
             \A k \in DOMAIN pre :
               pre[k] # None /\ pre[k] >= compare.floorPre =>
                 k \in DOMAIN post /\ post[k] \notin 0..(compare.minPost - 1) \cup {None}
        [] OTHER -> FALSE

\* A check passes only if both sides have collected it and its views agree, and it
\* does pass if they agree beyond doubt: a bucket that worked and is unread or
\* unmeasured afterwards never passes, while a field that is no number on one side
\* says nothing under a tolerance.  One collected before and not after has failed,
\* and the summary, which is all an operator is shown, counts every entry.
VerdictIsSound ==
  \A d \in DOMAIN pairs :
    LET pre == side["pre"][d]
        post == side["post"][d]
        r == pairs[d]
        Agreed(c, doubtful) ==
          /\ Both(pre, post, c)
          /\ Agree(pre.checks[c].view, post.checks[c].view, pre.checks[c].compare, doubtful)
        Entries(c) == Cardinality(r.checks[c].added) + Cardinality(r.checks[c].removed)
                      + Cardinality(r.checks[c].changed) + Cardinality(r.checks[c].missed)
    IN  /\ \A c \in DOMAIN pre.checks \cup DOMAIN post.checks :
             /\ r.checks[c].result = "pass" => Agreed(c, TRUE)
             /\ Agreed(c, FALSE) => r.checks[c].result = "pass"
             /\ r.checks[c].result = "failed" <=>
                  StatusOf(pre, c) = "success" /\ StatusOf(post, c) # "success"
             /\ r.checks[c].result = "diffs" <=> Entries(c) > 0
        /\ r.summary.entries = 0 /\ r.summary.failed = 0 =>
             \A c \in DOMAIN r.checks : r.checks[c].result \in {"pass", "info", "skipped"}
        /\ r.summary.total = r.summary.passed + r.summary.diffs + r.summary.failed + r.summary.skipped

HunksOf(report, k) == InOrder({c[3] : c \in {c \in report.changed : Len(c) = 3 /\ c[1] = k}})
Patch(sofar, h, old) ==
  [text |-> sofar.text \o SubSeq(old, sofar.at + 1, h.i1) \o h.new, at |-> h.i2,
   fits |-> /\ sofar.fits /\ sofar.at <= h.i1 /\ h.old = SubSeq(old, h.i1 + 1, h.i2)
            /\ h.j1 = Len(sofar.text) + h.i1 - sofar.at]
Patched(old, hunks) ==
  LET done[n \in 0..Len(hunks)] ==
        IF n = 0 THEN [text |-> <<>>, at |-> 0, fits |-> TRUE] ELSE Patch(done[n - 1], hunks[n], old)
      end == done[Len(hunks)]
  IN  [text |-> end.text \o SubSeq(old, end.at + 1, Len(old)), fits |-> end.fits]

\* _text_opcodes: whatever lines difflib matches and wherever a block is moved to,
\* the hunks, each at the place its header names, turn the old text into the new.
HunksAddUp ==
  \A d \in DOMAIN pairs :
    LET pre == side["pre"][d]
        post == side["post"][d]
    IN  \A c \in DOMAIN pre.checks \cap DOMAIN post.checks :
          Both(pre, post, c) /\ pre.checks[c].compare.mode = "text_diff" =>
            \A k \in TextKeys(pre.checks[c], post.checks[c]) :
              Patched(pre.checks[c].view[k].is, HunksOf(pairs[d].checks[c], k))
                = [text |-> post.checks[c].view[k].is, fits |-> TRUE]
=============================================================================
