------------------------------- MODULE Checks -------------------------------
(***************************************************************************)
(* What a collector is made of (jobs/context.py, jobs/registry.py,         *)
(* jobs/iosxe_common.py).  A collector is a function of the answers it has *)
(* got so far: it either asks for its next read or has come to an outcome. *)
(*                                                                         *)
(* Answers are told apart as far as the collectors tell them apart:        *)
(*   rows      what the check keys by is in it                             *)
(*   keyless   it has entries, and nothing the check keys by               *)
(*   empty     the expected container or table, without entries            *)
(*   odd       something else than the expected container or table         *)
(*   absent    HTTP 404, None where the collector allows it                *)
(*   refused   HTTP 400 to a RESTCONF filter, a CLI refusal, an API "no"   *)
(*   server    HTTP 5xx                                                    *)
(*   error     every other failure                                         *)
(*   limit     the soft time limit arrives while the answer is awaited     *)
(***************************************************************************)
EXTENDS Sequences, Naturals, FiniteSets

Answers == {"rows", "keyless", "empty", "odd", "absent", "refused", "server", "error", "limit"}
Answered == {"rows", "keyless", "empty", "odd"}
Unanswered == {"absent", "refused", "server", "error"}

\* One read of a collector: the answers it goes on with, and the answers after
\* which it is made a second time.
Read(x, passes, again) == [read |-> x, passes |-> passes, again |-> again]

\* ctx.get, and ctx.get with ok_404.
Get(x) == Read(x, Answered, {})
Opt(x) == Read(x, Answered \cup {"absent"}, {})

\* get_filtered: one unfiltered retry on HTTP 400, nothing else is retried.
Filtered(x) == Read(x, Answered, {"refused"})
FilteredOpt(x) == Read(x, Answered \cup {"absent"}, {"refused"})

\* ctx.run_ssh: a refusal is text like any other.
Cli(x) == Read(x, Answered \cup {"refused"}, {})

\* The expected container is insisted on: without it the check fails.
Strict(step) == [step EXCEPT !.passes = @ \ {"odd"}]

\* Slip: the handler takes the soft limit for a failed read.
TryAnything(step) == [step EXCEPT !.passes = Answers]

\* A read whose failure is caught, the soft limit raised again; and one whose
\* "except Exception" takes the soft limit for a failure too.
Try(step) == [step EXCEPT !.passes = Answered \cup Unanswered]
CatchAll(step) == [step EXCEPT !.passes = Answers]

Ask(step) == [status |-> "ask", read |-> step.read, again |-> step.again]
Failed == [status |-> "failed"]
NotPresent == [status |-> "not-present"]
\* The view's keys come from the reads in keys; told are the reads whose
\* missing answer the record mentions.
Collected(keys, told) == [status |-> "success", keys |-> keys, told |-> told]

Raised(answer) == IF answer = "limit" THEN [status |-> "limit"] ELSE Failed

\* g.got maps the reads made to their last answer; g.has holds what the capture
\* of this device has besides: an SSH session ("ssh"), a link in a resource.
Has(g, x) == x \in g.has
Got(g, x) == g.got[x]
Rows(g, x) == x \in DOMAIN g.got /\ g.got[x] = "rows"
Have(g, xs) == {x \in xs \cap DOMAIN g.got : g.got[x] = "rows"}
Missing(g, xs) == {x \in xs \cap DOMAIN g.got : g.got[x] \in Unanswered}

\* The reads are made in order, each once (twice after an answer in again);
\* the first that raises ends the collector, else it goes on with then.
Reading(g, steps, then) ==
  LET Settled(s) == s.read \in DOMAIN g.got /\ g.got[s.read] \in s.passes
      open == {i \in DOMAIN steps : ~Settled(steps[i])}
  IN IF open = {} THEN then
     ELSE LET s == steps[CHOOSE i \in open : \A j \in open : i <= j]
              asked == s.read \in DOMAIN g.got
          IN IF ~asked \/ g.got[s.read] \in s.again \ s.passes
               THEN Ask(s)
               ELSE Raised(g.got[s.read])
=============================================================================
