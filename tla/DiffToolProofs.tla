--------------------------- MODULE DiffToolProofs ---------------------------
(***************************************************************************)
(* Proofs about module DiffTool, for all artifacts of all devices that the *)
(* two sides may be given, read in any order: first which snapshots are    *)
(* compared, then what the reports of the comparisons say.                 *)
(***************************************************************************)
EXTENDS DiffTool, FiniteSetTheorems, SequenceTheorems, TLAPS

(* What has been read. *)

\* Of the artifacts that came, the snapshots: whole, and of the indexes put
\* together.
HeldOf(came, waiting) ==
  {a \in came : a.type = "snapshot"} \cup
  {x.snapshot : x \in {b \in came : b.type = "parts"} \ waiting}

Came(s) == given[s] \ left[s]
Held(s) == HeldOf(Came(s), IF s = label THEN indexes ELSE {})

\* The snapshots among h of a device, and the newest of them.
For(h, d) == {x \in h : x.device = d}
Top(h, d) == {x \in For(h, d) : \A y \in For(h, d) : y.at <= x.at}

\* What Take has made of the snapshots h: the one it holds of each device is
\* the newest, and those it has kept aside are all that share its time.
Kept(h, f, t) ==
  /\ \A d : d \in DOMAIN f <=> For(h, d) # {}
  /\ DOMAIN t \subseteq DOMAIN f
  /\ \A d \in DOMAIN f : f[d] \in For(h, d)
  /\ \A d \in DOMAIN t : t[d] \subseteq For(h, d)
  /\ \A d \in DOMAIN f :
       (\A x \in For(h, d) : x.at # None) =>
         f[d] \in Top(h, d) /\ Top(h, d) = IF d \in DOMAIN t THEN t[d] ELSE {f[d]}
-----------------------------------------------------------------------------
(* The invariant *)

\* The tool has given up for another reason than a snapshot of another run.
Spoilt == pc = "refused" /\ why # "not of that run"

Shapes ==
  /\ given \in Given /\ label \in Sides
  /\ DOMAIN left = Sides /\ DOMAIN side = Sides /\ DOMAIN tied = Sides /\ DOMAIN manifests = Sides
  /\ \A s \in Sides : left[s] \subseteq given[s]
  /\ indexes \subseteq {b \in Came(label) : b.type = "parts"}

\* One side is read after the other, and both before a snapshot is judged.
Judging == pc \in {"validate", "diff", "done"} \/ why = "not of that run"
Sequence ==
  /\ label = "pre" => left["post"] = given["post"]
  /\ label = "post" => left["pre"] = {}
  /\ Judging => label = "post" /\ left["post"] = {} /\ indexes = {}
  /\ pc # "refused" => why = "none"

Keeping ==
  /\ \A s \in Sides : Kept(Held(s), side[s], tied[s])
  /\ \A s \in Sides : manifests[s] = {a \in Came(s) : a.type = "manifest"}

\* A side that has been read: of snapshots of one time, the run that the newest
\* manifest names is held.
Over(s) == label = "post" /\ (s = "pre" \/ Judging)
Settling ==
  \A s \in Sides : Over(s) =>
    \A d \in DOMAIN tied[s] \cap Scoped(manifests[s]) :
      (\E c \in tied[s][d] : c.run = Scope(manifests[s], d).run) =>
        side[s][d].run = Scope(manifests[s], d).run

Judged ==
  /\ Accepted => \A s \in Sides : \A d \in DOMAIN side[s] : Matching(manifests[s], side[s][d])
  /\ why = "not of that run" =>
       \E s \in Sides : \E d \in DOMAIN side[s] : ~Matching(manifests[s], side[s][d])
  /\ pc = "done" => Paired = DOMAIN pairs

IInv == Shapes /\ Sequence /\ (~Spoilt => Keeping /\ Settling /\ Judged)
-----------------------------------------------------------------------------
(* Take *)

LEMMA TakeOne ==
  ASSUME NEW h, NEW f, NEW t, Kept(h, f, t), NEW env, NEW f2, NEW t2,
         \A x \in h \cup {env} : x.at \in Nat \cup {None},
         NEW d, d = env.device,
         \/ /\ d \in DOMAIN f /\ env.at # None /\ f[d].at # None /\ env.at < f[d].at
            /\ f2 = f /\ t2 = t
         \/ /\ d \in DOMAIN f /\ env.at # None /\ f[d].at # None
            /\ env.at <= f[d].at /\ ~(env.at < f[d].at)
            /\ f2 = f /\ t2 = With(t, d, (IF d \in DOMAIN t THEN t[d] ELSE {f[d]}) \cup {env})
         \/ /\ ~(d \in DOMAIN f /\ env.at # None /\ f[d].at # None /\ env.at <= f[d].at)
            /\ f2 = With(f, d, env) /\ t2 = Without(t, d)
  PROVE  Kept(h \cup {env}, f2, t2)
<1> DEFINE g == h \cup {env}
<1>1. /\ For(g, d) = For(h, d) \cup {env}
      /\ \A n : n # d => For(g, n) = For(h, n)
  BY DEF For
<1>2. \A n : n # d => Top(g, n) = Top(h, n)
  BY <1>1 DEF Top
<1>3. \A x \in For(g, d) : x.at # None => x.at \in Nat
  BY DEF For
<1>k. /\ \A n : n \in DOMAIN f <=> For(h, n) # {}
      /\ DOMAIN t \subseteq DOMAIN f
      /\ \A n \in DOMAIN f : f[n] \in For(h, n)
      /\ \A n \in DOMAIN t : t[n] \subseteq For(h, n)
      /\ \A n \in DOMAIN f :
           (\A x \in For(h, n) : x.at # None) =>
             f[n] \in Top(h, n) /\ Top(h, n) = IF n \in DOMAIN t THEN t[n] ELSE {f[n]}
  BY DEF Kept
<1> HIDE DEF g
<1>4. CASE /\ d \in DOMAIN f /\ env.at # None /\ f[d].at # None /\ env.at < f[d].at
           /\ f2 = f /\ t2 = t
  <2>1. ASSUME \A x \in For(g, d) : x.at # None PROVE Top(g, d) = Top(h, d) /\ f[d] \in Top(h, d)
    <3>1. f[d] \in Top(h, d) /\ f[d].at \in Nat /\ env.at \in Nat
      BY <1>1, <1>3, <1>4, <1>k, <2>1
    <3>2. \A x \in Top(h, d) : x \in For(h, d) /\ f[d].at <= x.at /\ x.at \in Nat
      BY <1>1, <1>3, <1>k, <2>1, <3>1 DEF Top
    <3>3. Top(h, d) \subseteq Top(g, d)
      BY <1>1, <1>4, <3>1, <3>2 DEF Top
    <3>4. env \notin Top(g, d)
      BY <1>1, <1>4, <1>k, <3>1 DEF Top
    <3>5. Top(g, d) \subseteq Top(h, d)
      BY <1>1, <3>4 DEF Top
    <3> QED BY <3>1, <3>3, <3>5
  <2>2. \A n : For(h, n) \subseteq For(g, n)
    BY <1>1
  <2>3. \A n \in DOMAIN f :
          (\A x \in For(g, n) : x.at # None) =>
            f[n] \in Top(g, n) /\ Top(g, n) = IF n \in DOMAIN t THEN t[n] ELSE {f[n]}
    BY <1>1, <1>2, <1>k, <2>1
  <2>4. \A n : n \in DOMAIN f <=> For(g, n) # {}
    BY <1>1, <1>4, <1>k
  <2>5. /\ \A n \in DOMAIN f : f[n] \in For(g, n)
        /\ \A n \in DOMAIN t : t[n] \subseteq For(g, n)
    BY <1>k, <2>2
  <2> QED BY ONLY <1>4, <1>k, <2>3, <2>4, <2>5 DEF Kept, g
<1>5. CASE /\ d \in DOMAIN f /\ env.at # None /\ f[d].at # None
           /\ env.at <= f[d].at /\ ~(env.at < f[d].at)
           /\ f2 = f /\ t2 = With(t, d, (IF d \in DOMAIN t THEN t[d] ELSE {f[d]}) \cup {env})
  <2>1. ASSUME \A x \in For(g, d) : x.at # None
        PROVE  Top(g, d) = Top(h, d) \cup {env} /\ f[d] \in Top(h, d)
    <3>1. f[d] \in Top(h, d) /\ f[d].at \in Nat /\ env.at \in Nat /\ env.at = f[d].at
      BY <1>1, <1>3, <1>5, <1>k, <2>1
    <3>2. \A x \in Top(h, d) : x \in For(h, d) /\ f[d].at <= x.at /\ x.at \in Nat
      BY <1>1, <1>3, <1>k, <2>1, <3>1 DEF Top
    <3>3. Top(h, d) \subseteq Top(g, d)
      BY <1>1, <3>1, <3>2 DEF Top
    <3>4. env \in Top(g, d)
      <4>1. \A y \in For(h, d) : y.at <= f[d].at
        BY <3>1 DEF Top
      <4> QED BY <1>1, <3>1, <4>1 DEF Top
    <3>5. Top(g, d) \subseteq Top(h, d) \cup {env}
      BY <1>1 DEF Top
    <3> QED BY <3>1, <3>3, <3>4, <3>5
  <2>2. /\ DOMAIN t2 = DOMAIN t \cup {d}
        /\ t2[d] = (IF d \in DOMAIN t THEN t[d] ELSE {f[d]}) \cup {env}
        /\ \A n \in DOMAIN t : n # d => t2[n] = t[n]
    BY <1>5 DEF With
  <2>3. \A n \in DOMAIN f :
          (\A x \in For(g, n) : x.at # None) =>
            f[n] \in Top(g, n) /\ Top(g, n) = IF n \in DOMAIN t2 THEN t2[n] ELSE {f[n]}
    <3>1. ASSUME \A x \in For(g, d) : x.at # None
          PROVE  f[d] \in Top(g, d) /\ Top(g, d) = t2[d]
      BY <1>1, <1>5, <1>k, <2>1, <2>2, <3>1
    <3> QED BY <1>1, <1>2, <1>k, <2>2, <3>1
  <2>4. \A n : n \in DOMAIN f <=> For(g, n) # {}
    BY <1>1, <1>5, <1>k
  <2>5. \A n \in DOMAIN f : f[n] \in For(g, n)
    BY <1>1, <1>k
  <2>6. \A n \in DOMAIN t2 : t2[n] \subseteq For(g, n)
    <3>1. t2[d] \subseteq For(g, d)
      <4>1. (IF d \in DOMAIN t THEN t[d] ELSE {f[d]}) \subseteq For(h, d)
        BY <1>5, <1>k
      <4> QED BY <1>1, <2>2, <4>1
    <3>2. \A n \in DOMAIN t : n # d => t2[n] \subseteq For(g, n)
      BY <1>1, <1>k, <2>2
    <3> QED BY <2>2, <3>1, <3>2
  <2>7. DOMAIN t2 \subseteq DOMAIN f
    BY <1>5, <1>k, <2>2
  <2> QED BY ONLY <1>5, <2>3, <2>4, <2>5, <2>6, <2>7 DEF Kept, g
<1>6. CASE /\ ~(d \in DOMAIN f /\ env.at # None /\ f[d].at # None /\ env.at <= f[d].at)
           /\ f2 = With(f, d, env) /\ t2 = Without(t, d)
  <2>1. /\ DOMAIN f2 = DOMAIN f \cup {d} /\ f2[d] = env
        /\ \A n \in DOMAIN f : n # d => f2[n] = f[n]
    BY <1>6 DEF With
  <2>2. /\ DOMAIN t2 = DOMAIN t \ {d}
        /\ \A n \in DOMAIN t2 : t2[n] = t[n]
    BY <1>6 DEF Without
  <2>3. ASSUME \A x \in For(g, d) : x.at # None PROVE Top(g, d) = {env}
    <3>1. \A x \in For(h, d) : x.at \in Nat /\ x.at < env.at
      <4>1. env.at \in Nat /\ \A x \in For(h, d) : x.at \in Nat
        BY <1>1, <1>3, <2>3
      <4>2. CASE d \in DOMAIN f
        <5>1. f[d] \in Top(h, d) /\ f[d].at \in Nat
          BY <1>1, <1>k, <2>3, <4>1, <4>2
        <5>2. f[d].at < env.at
          BY <1>1, <1>6, <1>k, <2>3, <4>1, <4>2, <5>1
        <5>3. \A x \in For(h, d) : x.at <= f[d].at
          BY <5>1 DEF Top
        <5> QED BY <4>1, <5>1, <5>2, <5>3
      <4>3. CASE d \notin DOMAIN f
        BY <1>k, <4>3
      <4> QED BY <4>2, <4>3
    <3>2. env.at \in Nat
      BY <1>1, <1>3, <2>3
    <3>3. env \in Top(g, d)
      BY <1>1, <3>1, <3>2 DEF Top
    <3>4. \A x \in For(h, d) : x \notin Top(g, d)
      BY <1>1, <3>1, <3>2 DEF Top
    <3> QED BY <1>1, <3>3, <3>4 DEF Top
  <2>4. \A n \in DOMAIN f2 :
          (\A x \in For(g, n) : x.at # None) =>
            f2[n] \in Top(g, n) /\ Top(g, n) = IF n \in DOMAIN t2 THEN t2[n] ELSE {f2[n]}
    <3>1. \A n \in DOMAIN f :
            n # d /\ (\A x \in For(g, n) : x.at # None) =>
              f2[n] \in Top(g, n) /\ Top(g, n) = IF n \in DOMAIN t2 THEN t2[n] ELSE {f2[n]}
      BY <1>1, <1>2, <1>k, <2>1, <2>2
    <3> QED BY <2>1, <2>2, <2>3, <3>1
  <2>5. \A n : n \in DOMAIN f2 <=> For(g, n) # {}
    BY <1>1, <1>k, <2>1
  <2>6. \A n \in DOMAIN f2 : f2[n] \in For(g, n)
    BY <1>1, <1>k, <2>1
  <2>7. \A n \in DOMAIN t2 : t2[n] \subseteq For(g, n)
    BY <1>1, <1>k, <2>2
  <2>8. DOMAIN t2 \subseteq DOMAIN f2
    BY <1>k, <2>1, <2>2
  <2> QED BY ONLY <1>6, <2>4, <2>5, <2>6, <2>7, <2>8 DEF Kept, g
<1> QED BY <1>4, <1>5, <1>6

\* Take puts one more snapshot to those held of the side that is read.
LEMMA TakeKeeps ==
  ASSUME Shapes, NEW h, Kept(h, side[label], tied[label]), NEW env, Take(env),
         \A x \in h \cup {env} : x.at \in Nat \cup {None}
  PROVE  /\ Kept(h \cup {env}, side'[label], tied'[label])
         /\ DOMAIN side' = Sides /\ DOMAIN tied' = Sides
         /\ \A s \in Sides : s # label => side'[s] = side[s] /\ tied'[s] = tied[s]
<1> DEFINE d == env.device
           f == side[label]
           t == tied[label]
<1>1. label \in DOMAIN side /\ label \in DOMAIN tied
  BY DEF Shapes
<1>2. CASE d \in DOMAIN f /\ env.at # None /\ f[d].at # None /\ env.at <= f[d].at
  <2>1. /\ side' = side
        /\ tied' = [tied EXCEPT ![label] =
                      IF env.at < f[d].at THEN @
                      ELSE With(@, d, (IF d \in DOMAIN @ THEN @[d] ELSE {f[d]}) \cup {env})]
    BY <1>2 DEF Take
  <2>2. side'[label] = f
    BY <2>1
  <2>3. CASE env.at < f[d].at
    <3>1. tied' = [tied EXCEPT ![label] = @]
      BY <2>1, <2>3
    <3>2. tied'[label] = t /\ DOMAIN tied' = DOMAIN tied /\ \A s \in Sides : s # label => tied'[s] = tied[s]
      BY <1>1, <3>1
    <3>3. Kept(h \cup {env}, side'[label], tied'[label])
      <4> HIDE DEF d, f, t
      <4> QED BY <1>2, <2>2, <2>3, <3>2, TakeOne DEF d, f, t
    <3> QED BY <2>1, <3>2, <3>3 DEF Shapes
  <2>4. CASE ~(env.at < f[d].at)
    <3>1. tied' = [tied EXCEPT ![label] = With(@, d, (IF d \in DOMAIN @ THEN @[d] ELSE {f[d]}) \cup {env})]
      BY <2>1, <2>4
    <3>2. /\ tied'[label] = With(t, d, (IF d \in DOMAIN t THEN t[d] ELSE {f[d]}) \cup {env})
          /\ DOMAIN tied' = DOMAIN tied /\ \A s \in Sides : s # label => tied'[s] = tied[s]
      BY <1>1, <3>1
    <3>3. Kept(h \cup {env}, side'[label], tied'[label])
      <4> HIDE DEF d, f, t
      <4> QED BY <1>2, <2>2, <2>4, <3>2, TakeOne DEF d, f, t
    <3> QED BY <2>1, <3>2, <3>3 DEF Shapes
  <2> QED BY <2>3, <2>4
<1>3. CASE ~(d \in DOMAIN f /\ env.at # None /\ f[d].at # None /\ env.at <= f[d].at)
  <2>1. /\ side' = [side EXCEPT ![label] = With(@, d, env)]
        /\ tied' = [tied EXCEPT ![label] = Without(@, d)]
    BY <1>3 DEF Take
  <2>2. /\ side'[label] = With(f, d, env) /\ tied'[label] = Without(t, d)
        /\ DOMAIN side' = DOMAIN side /\ DOMAIN tied' = DOMAIN tied
        /\ \A s \in Sides : s # label => side'[s] = side[s] /\ tied'[s] = tied[s]
    BY <1>1, <2>1
  <2>3. Kept(h \cup {env}, side'[label], tied'[label])
    <3> HIDE DEF d, f, t
    <3> QED BY <1>3, <2>2, TakeOne DEF d, f, t
  <2> QED BY <2>2, <2>3 DEF Shapes
<1> QED BY <1>2, <1>3
-----------------------------------------------------------------------------
(* What the artifacts that come add to the snapshots held. *)

LEMMA GivenSnapshots ==
  ASSUME Shapes, NEW s \in Sides
  PROVE  /\ \A a \in given[s] : a.type = "snapshot" => a \in Snapshots(given[s])
         /\ \A a \in given[s] : a.type = "parts" => a.snapshot \in Snapshots(given[s])
         /\ Held(s) \subseteq Snapshots(given[s])
         /\ \A x \in Snapshots(given[s]) : IsSnapshot(x)
<1>1. \A x \in Snapshots(given[s]) : IsSnapshot(x)
  BY GivenAssumption DEF Shapes
<1>2. Came(s) \subseteq given[s]
  BY DEF Came
<1> QED BY <1>1, <1>2 DEF Snapshots, Held, HeldOf

LEMMA HeldAreSnapshots ==
  ASSUME Shapes, NEW s \in Sides
  PROVE  \A x \in Held(s) : IsSnapshot(x)
BY GivenSnapshots

\* One artifact comes.
LEMMA OneMore ==
  ASSUME Shapes, NEW a \in left[label], Read(a), UNCHANGED given
  PROVE  /\ DOMAIN left' = Sides
         /\ given'[label] \ left'[label] = Came(label) \cup {a} /\ a \notin Came(label)
         /\ \A s \in Sides : s # label => left'[s] = left[s]
         /\ \A s \in Sides : left'[s] \subseteq given[s]
BY DEF Shapes, Read, Came

LEMMA HeldGrows ==
  ASSUME NEW came, NEW waiting, NEW a, a \notin came, waiting \subseteq came
  PROVE  /\ a.type = "snapshot" => HeldOf(came \cup {a}, waiting) = HeldOf(came, waiting) \cup {a}
         /\ a.type \in {"manifest", "part"} => HeldOf(came \cup {a}, waiting) = HeldOf(came, waiting)
         /\ a.type = "parts" => HeldOf(came \cup {a}, waiting \cup {a}) = HeldOf(came, waiting)
<1>1. a \notin waiting
  OBVIOUS
<1>2. a.type = "snapshot" => HeldOf(came \cup {a}, waiting) = HeldOf(came, waiting) \cup {a}
  BY DEF HeldOf
<1>3. a.type \in {"manifest", "part"} => HeldOf(came \cup {a}, waiting) = HeldOf(came, waiting)
  BY DEF HeldOf
<1>4. ASSUME a.type = "parts" PROVE HeldOf(came \cup {a}, waiting \cup {a}) = HeldOf(came, waiting)
  <2>1. {b \in came \cup {a} : b.type = "parts"} \ (waiting \cup {a})
          = {b \in came : b.type = "parts"} \ waiting
    BY <1>1, <1>4
  <2>2. {b \in came \cup {a} : b.type = "snapshot"} = {b \in came : b.type = "snapshot"}
    BY <1>4
  <2> QED BY <2>1, <2>2 DEF HeldOf
<1> QED BY <1>2, <1>3, <1>4

LEMMA HeldAssembled ==
  ASSUME NEW came, NEW waiting, waiting \subseteq {b \in came : b.type = "parts"}, NEW x \in waiting
  PROVE  HeldOf(came, waiting \ {x}) = HeldOf(came, waiting) \cup {x.snapshot}
<1>1. {b \in came : b.type = "parts"} \ (waiting \ {x})
        = ({b \in came : b.type = "parts"} \ waiting) \cup {x}
  OBVIOUS
<1> QED BY <1>1 DEF HeldOf

\* A tie is settled among the newest, and for the run the newest manifest names.
LEMMA SettledHolds ==
  ASSUME NEW s \in Sides, NEW h, Kept(h, side[s], tied[s])
  PROVE  /\ Kept(h, Settled(s), tied[s])
         /\ \A d \in DOMAIN tied[s] \cap Scoped(manifests[s]) :
              (\E c \in tied[s][d] : c.run = Scope(manifests[s], d).run) =>
                Settled(s)[d].run = Scope(manifests[s], d).run
<1> DEFINE Mine(d) == {c \in tied[s][d] : c.run = Scope(manifests[s], d).run}
           Told(d) == d \in DOMAIN tied[s] /\ d \in Scoped(manifests[s]) /\ Mine(d) # {}
<1>1. /\ DOMAIN Settled(s) = DOMAIN side[s]
      /\ \A d \in DOMAIN side[s] :
           Settled(s)[d] = IF Told(d) THEN CHOOSE c \in Mine(d) : TRUE ELSE side[s][d]
  BY DEF Settled
<1>2. \A d : Told(d) => (CHOOSE c \in Mine(d) : TRUE) \in Mine(d)
  OBVIOUS
<1>3. \A d \in DOMAIN side[s] : Told(d) => Settled(s)[d] \in Mine(d)
  BY <1>1, <1>2
<1>4. \A d \in DOMAIN side[s] : ~Told(d) => Settled(s)[d] = side[s][d]
  BY <1>1
<1>5. \A d : /\ Told(d) <=> d \in DOMAIN tied[s] /\ d \in Scoped(manifests[s])
                              /\ \E c \in tied[s][d] : c.run = Scope(manifests[s], d).run
             /\ \A c \in Mine(d) : c \in tied[s][d] /\ c.run = Scope(manifests[s], d).run
             /\ Told(d) => d \in DOMAIN tied[s]
  OBVIOUS
<1> HIDE DEF Mine, Told
<1>6. Kept(h, Settled(s), tied[s])
  <2>k. /\ \A d : d \in DOMAIN side[s] <=> For(h, d) # {}
        /\ DOMAIN tied[s] \subseteq DOMAIN side[s]
        /\ \A d \in DOMAIN side[s] : side[s][d] \in For(h, d)
        /\ \A d \in DOMAIN tied[s] : tied[s][d] \subseteq For(h, d)
        /\ \A d \in DOMAIN side[s] :
             (\A x \in For(h, d) : x.at # None) =>
               /\ side[s][d] \in Top(h, d)
               /\ Top(h, d) = IF d \in DOMAIN tied[s] THEN tied[s][d] ELSE {side[s][d]}
    BY DEF Kept
  <2>1. \A d \in DOMAIN side[s] : Settled(s)[d] \in For(h, d)
    BY <1>3, <1>4, <1>5, <2>k
  <2>2. ASSUME NEW d \in DOMAIN side[s], \A x \in For(h, d) : x.at # None
        PROVE  /\ Settled(s)[d] \in Top(h, d)
               /\ Top(h, d) = IF d \in DOMAIN tied[s] THEN tied[s][d] ELSE {Settled(s)[d]}
    <3>1. CASE Told(d)
      BY <1>3, <1>5, <2>k, <2>2, <3>1
    <3>2. CASE ~Told(d)
      BY <1>4, <2>k, <2>2, <3>2
    <3> QED BY <3>1, <3>2
  <2> QED BY <1>1, <2>k, <2>1, <2>2 DEF Kept
<1>7. ASSUME NEW d \in DOMAIN tied[s] \cap Scoped(manifests[s]),
             \E c \in tied[s][d] : c.run = Scope(manifests[s], d).run
      PROVE  Settled(s)[d].run = Scope(manifests[s], d).run
  <2>1. d \in DOMAIN side[s] /\ Told(d)
    BY <1>5, <1>7 DEF Kept
  <2> QED BY <1>3, <1>5, <2>1
<1> QED BY <1>6, <1>7
-----------------------------------------------------------------------------
(* The invariant holds. *)

LEMMA InitIInv == Init => IInv
<1> SUFFICES ASSUME Init PROVE IInv
  OBVIOUS
<1>1. /\ given \in Given /\ left = given /\ label = "pre" /\ pc = "read" /\ why = "none"
      /\ indexes = {} /\ side = [s \in Sides |-> Nothing] /\ tied = [s \in Sides |-> Nothing]
      /\ manifests = [s \in Sides |-> {}] /\ DOMAIN left = Sides
  BY GivenAssumption DEF Init
<1>2. Shapes
  BY <1>1 DEF Shapes, Sides
<1>3. Sequence
  BY <1>1 DEF Sequence, Judging
<1>4. \A s : Came(s) = {}
  BY <1>1 DEF Came
<1>5. \A s : Held(s) = {}
  BY <1>4 DEF Held, HeldOf
<1>6. Kept({}, Nothing, Nothing)
  <2>1. \A d : For({}, d) = {}
    BY DEF For
  <2>2. DOMAIN Nothing = {}
    BY DEF Nothing
  <2> QED BY <2>1, <2>2 DEF Kept
<1>7. Keeping
  BY <1>1, <1>4, <1>5, <1>6 DEF Keeping
<1>8. Settling /\ Judged
  BY <1>1 DEF Settling, Over, Judging, Judged, Accepted
<1> QED BY <1>2, <1>3, <1>7, <1>8 DEF IInv

LEMMA SpoiltStays == Spoilt /\ [Next]_vars => Spoilt'
BY DEF Spoilt, Next, vars, ReadSnapshot, ReadManifest, ReadPart, ReadIndex, Assemble,
   EndOfSide,
       Validate, DiffPair, Finish

LEMMA SequenceStep == Shapes /\ Sequence /\ [Next]_vars => Shapes' /\ Sequence'
<1> SUFFICES ASSUME Shapes, Sequence, [Next]_vars PROVE Shapes' /\ Sequence'
  OBVIOUS
<1>0. CASE UNCHANGED vars
  BY <1>0 DEF vars, Shapes, Sequence, Judging, Came
<1>r. ASSUME NEW a \in left[label], Read(a), UNCHANGED <<given, label>>, pc = "read",
             (pc' = "read" /\ why' = why) \/ (pc' = "refused" /\ why' # "not of that run")
      PROVE  Sequence'
  <2>1. label = "pre" => left'["post"] = left["post"]
    BY <1>r, OneMore DEF Sides
  <2>2. label = "post" => left'["pre"] = left["pre"]
    BY <1>r, OneMore DEF Sides
  <2>3. why = "none"
    BY <1>r DEF Sequence
  <2> QED BY <1>r, <2>1, <2>2, <2>3 DEF Sequence, Judging
<1>s. ASSUME NEW a \in left[label], Read(a), UNCHANGED <<given, label>>,
             DOMAIN side' = Sides, DOMAIN tied' = Sides, DOMAIN manifests' = Sides,
             indexes' \subseteq indexes \cup {b \in {a} : b.type = "parts"}
      PROVE  Shapes'
  <2>1. /\ DOMAIN left' = Sides /\ \A s \in Sides : left'[s] \subseteq given[s]
        /\ given'[label] \ left'[label] = Came(label) \cup {a}
    BY <1>s, OneMore
  <2> QED BY <1>s, <2>1 DEF Shapes, Came
<1>1. CASE ReadSnapshot
  <2>1. PICK a \in Of("snapshot") : Read(a) /\ Take(a)
    BY <1>1 DEF ReadSnapshot
  <2>2. DOMAIN side' = Sides /\ DOMAIN tied' = Sides
    BY <2>1 DEF Take, Shapes
  <2>3. /\ UNCHANGED <<given, label>> /\ pc = "read"
        /\ (pc' = "read" /\ why' = why) \/ (pc' = "refused" /\ why' # "not of that run")
    BY <1>1, <2>1 DEF ReadSnapshot
  <2>4. /\ DOMAIN side' = Sides /\ DOMAIN tied' = Sides /\ DOMAIN manifests' = Sides
        /\ indexes' \subseteq indexes \cup {b \in {a} : b.type = "parts"}
    BY <1>1, <2>1, <2>2 DEF ReadSnapshot, Shapes
  <2>5. a \in left[label] /\ Read(a)
    BY <2>1 DEF Of
  <2>6. Shapes'
    BY <1>s, <2>3, <2>4, <2>5
  <2>7. Sequence'
    BY <1>r, <2>3, <2>5
  <2> QED BY <2>6, <2>7
<1>2. CASE ReadManifest
  <2>1. PICK a \in Of("manifest") :
          /\ Read(a)
          /\ \/ Refuse("conflicting manifests") /\ UNCHANGED manifests
             \/ manifests' = [manifests EXCEPT ![label] = @ \cup {a}] /\ UNCHANGED <<pc, why>>
    BY <1>2 DEF ReadManifest
  <2>2. a \in left[label] /\ DOMAIN manifests' = Sides
    BY <2>1 DEF Of, Shapes
  <2>3. /\ UNCHANGED <<given, label>> /\ pc = "read"
        /\ (pc' = "read" /\ why' = why) \/ (pc' = "refused" /\ why' # "not of that run")
    BY <1>2, <2>1 DEF ReadManifest, Refuse
  <2>4. /\ DOMAIN side' = Sides /\ DOMAIN tied' = Sides /\ DOMAIN manifests' = Sides
        /\ indexes' \subseteq indexes \cup {b \in {a} : b.type = "parts"}
    BY <1>2, <2>1, <2>2 DEF ReadManifest, Shapes
  <2>5. a \in left[label] /\ Read(a)
    BY <2>1 DEF Of
  <2>6. Shapes'
    BY <1>s, <2>3, <2>4, <2>5
  <2>7. Sequence'
    BY <1>r, <2>3, <2>5
  <2> QED BY <2>6, <2>7
<1>3. CASE ReadPart
  <2>1. PICK a \in Of("part") :
          /\ Read(a)
          /\ Refuse("conflicting parts") \/ UNCHANGED <<pc, why>>
    BY <1>3 DEF ReadPart
  <2>2. a \in left[label]
    BY <2>1 DEF Of
  <2>3. /\ UNCHANGED <<given, label>> /\ pc = "read"
        /\ (pc' = "read" /\ why' = why) \/ (pc' = "refused" /\ why' # "not of that run")
    BY <1>3, <2>1 DEF ReadPart, Refuse
  <2>4. /\ DOMAIN side' = Sides /\ DOMAIN tied' = Sides /\ DOMAIN manifests' = Sides
        /\ indexes' \subseteq indexes \cup {b \in {a} : b.type = "parts"}
    BY <1>3, <2>1, <2>2 DEF ReadPart, Shapes
  <2>5. a \in left[label] /\ Read(a)
    BY <2>1 DEF Of
  <2>6. Shapes'
    BY <1>s, <2>3, <2>4, <2>5
  <2>7. Sequence'
    BY <1>r, <2>3, <2>5
  <2> QED BY <2>6, <2>7
<1>4. CASE ReadIndex
  <2>1. PICK a \in Of("parts") : Read(a) /\ indexes' = indexes \cup {a}
    BY <1>4 DEF ReadIndex
  <2>2. a \in left[label] /\ a.type = "parts"
    BY <2>1 DEF Of
  <2>3. /\ UNCHANGED <<given, label>> /\ pc = "read"
        /\ (pc' = "read" /\ why' = why) \/ (pc' = "refused" /\ why' # "not of that run")
    BY <1>4, <2>1 DEF ReadIndex
  <2>4. /\ DOMAIN side' = Sides /\ DOMAIN tied' = Sides /\ DOMAIN manifests' = Sides
        /\ indexes' \subseteq indexes \cup {b \in {a} : b.type = "parts"}
    BY <1>4, <2>1, <2>2 DEF ReadIndex, Shapes
  <2>5. a \in left[label] /\ Read(a)
    BY <2>1 DEF Of
  <2>6. Shapes'
    BY <1>s, <2>3, <2>4, <2>5
  <2>7. Sequence'
    BY <1>r, <2>3, <2>5
  <2> QED BY <2>6, <2>7
<1>5. CASE Assemble
  <2>1. PICK x \in indexes :
          /\ indexes' = indexes \ {x}
          /\ \/ Take(x.snapshot) /\ UNCHANGED <<pc, why>>
             \/ Refuse("incomplete") /\ UNCHANGED <<used, side, tied>>
    BY <1>5 DEF Assemble
  <2>2. DOMAIN side' = Sides /\ DOMAIN tied' = Sides
    BY <2>1 DEF Take, Shapes
  <2>3. pc = "read" /\ UNCHANGED <<given, left, label, manifests>> /\ why = "none"
    BY <1>5 DEF Assemble, Sequence
  <2>4. (pc' = "read" /\ why' = "none") \/ (pc' = "refused" /\ why' = "incomplete")
    BY <2>1, <2>3 DEF Refuse
  <2> QED BY <2>1, <2>2, <2>3, <2>4 DEF Shapes, Sequence, Judging, Came
<1>6. CASE EndOfSide
  <2>1. /\ pc = "read" /\ left[label] = {} /\ indexes = {} /\ why = "none"
        /\ UNCHANGED <<given, left, tied, manifests, indexes>>
    BY <1>6 DEF EndOfSide, Sequence
  <2>2. \/ /\ pc' = "refused" /\ why' # "not of that run" /\ UNCHANGED <<side, label>>
        \/ /\ side' = [side EXCEPT ![label] = Settled(label)]
           /\ label' = "post" /\ pc' = (IF label = "pre" THEN "read" ELSE "validate") /\ UNCHANGED why
    BY <1>6 DEF EndOfSide, Refuse
  <2>3. label \in {"pre", "post"}
    BY DEF Shapes, Sides
  <2>4. Shapes'
    BY <2>1, <2>2 DEF Shapes, Sides
  <2>5. Sequence'
    BY <2>1, <2>2, <2>3 DEF Sequence, Judging
  <2> QED BY <2>4, <2>5
<1>7. CASE Validate \/ DiffPair \/ Finish
  <2>1. /\ UNCHANGED <<given, left, label, side, tied, manifests, indexes>>
        /\ pc \in {"validate", "diff"} /\ (pc' # "refused" => why' = why)
    BY <1>7 DEF Validate, DiffPair, Finish, Refuse
  <2> QED BY <2>1 DEF Shapes, Sequence, Judging, Came
<1> QED
  BY <1>0, <1>1, <1>2, <1>3, <1>4, <1>5, <1>6, <1>7 DEF Next

\* What was held of each side when a snapshot comes, whole or put together.
LEMMA KeepingTake ==
  ASSUME Shapes, Keeping, NEW env, IsSnapshot(env), Take(env), UNCHANGED <<given, label, manifests>>,
         Held(label)' = Held(label) \cup {env},
         \A s \in Sides : s # label => Held(s)' = Held(s),
         \A s \in Sides : {a \in Came(s) : a.type = "manifest"}' = {a \in Came(s) : a.type = "manifest"}
  PROVE  Keeping'
<1>1. \A x \in Held(label) \cup {env} : x.at \in Nat \cup {None}
  BY HeldAreSnapshots DEF IsSnapshot, Shapes
<1>2. Kept(Held(label), side[label], tied[label])
  BY DEF Keeping, Shapes
<1>3. /\ Kept(Held(label) \cup {env}, side'[label], tied'[label])
      /\ \A s \in Sides : s # label => side'[s] = side[s] /\ tied'[s] = tied[s]
  BY <1>1, <1>2, TakeKeeps
<1>4. ASSUME NEW s \in Sides PROVE Kept(Held(s)', side'[s], tied'[s])
  <2>1. CASE s = label
    BY <1>3, <2>1
  <2>2. CASE s # label
    BY <1>3, <2>2 DEF Keeping
  <2> QED BY <2>1, <2>2
<1>5. ASSUME NEW s \in Sides PROVE manifests'[s] = {a \in Came(s) : a.type = "manifest"}'
  BY DEF Keeping
<1> QED BY <1>4, <1>5 DEF Keeping

\* What an artifact that comes does to what is held.
LEMMA Comes ==
  ASSUME Shapes, NEW a \in left[label], Read(a), UNCHANGED <<given, label>>
  PROVE  /\ \A s \in Sides : s # label => Came(s)' = Came(s)
         /\ Came(label)' = Came(label) \cup {a}
         /\ UNCHANGED indexes \/ (a.type = "parts" /\ indexes' = indexes \cup {a}) =>
              /\ \A s \in Sides : s # label => Held(s)' = Held(s)
              /\ a.type = "snapshot" => Held(label)' = Held(label) \cup {a}
              /\ a.type \in {"manifest", "part"} => Held(label)' = Held(label)
              /\ a.type = "parts" /\ indexes' = indexes \cup {a} => Held(label)' = Held(label)
<1>1. /\ given'[label] \ left'[label] = Came(label) \cup {a} /\ a \notin Came(label)
      /\ \A s \in Sides : s # label => left'[s] = left[s]
  BY OneMore
<1>2. /\ \A s \in Sides : s # label => Came(s)' = Came(s)
      /\ Came(label)' = Came(label) \cup {a}
  BY <1>1 DEF Came
<1>3. \A s \in Sides : s # label => Held(s)' = Held(s)
  BY <1>2 DEF Held
<1>4. Held(label)' = HeldOf(Came(label) \cup {a}, indexes') /\ Held(label) = HeldOf(Came(label), indexes)
  BY <1>2 DEF Held
<1>5. indexes \subseteq Came(label)
  BY DEF Shapes
<1>6. /\ a.type = "snapshot" => HeldOf(Came(label) \cup {a}, indexes) = Held(label) \cup {a}
      /\ a.type \in {"manifest", "part"} => HeldOf(Came(label) \cup {a}, indexes) = Held(label)
      /\ a.type = "parts" => HeldOf(Came(label) \cup {a}, indexes \cup {a}) = Held(label)
  <2> DEFINE C == Came(label)
  <2>1. a \notin C /\ indexes \subseteq C
    BY <1>1, <1>5
  <2> HIDE DEF C
  <2>2. /\ a.type = "snapshot" => HeldOf(C \cup {a}, indexes) = HeldOf(C, indexes) \cup {a}
        /\ a.type \in {"manifest", "part"} => HeldOf(C \cup {a}, indexes) = HeldOf(C, indexes)
        /\ a.type = "parts" => HeldOf(C \cup {a}, indexes \cup {a}) = HeldOf(C, indexes)
    BY ONLY <2>1, HeldGrows
  <2> QED BY <1>4, <2>2 DEF C
<1>7. CASE UNCHANGED indexes
  <2>1. indexes' = indexes
    BY <1>7
  <2>2. a.type = "parts" /\ indexes' = indexes \cup {a} => a \in indexes
    BY <2>1
  <2>3. a \notin indexes
    BY <1>1, <1>5
  <2>4. Held(label)' = HeldOf(Came(label) \cup {a}, indexes)
    BY <1>4, <2>1
  <2> QED BY ONLY <1>2, <1>3, <1>6, <2>2, <2>3, <2>4
<1>8. CASE a.type = "parts" /\ indexes' = indexes \cup {a}
  <2>1. Held(label)' = HeldOf(Came(label) \cup {a}, indexes \cup {a})
    BY <1>4, <1>8
  <2>2. Held(label)' = Held(label) /\ a.type = "parts"
    BY <1>6, <1>8, <2>1
  <2> QED BY <1>2, <1>3, <2>2
<1> QED BY <1>2, <1>3, <1>7, <1>8

LEMMA KeepingStep ==
  IInv /\ ~Spoilt /\ ~Spoilt' /\ [Next]_vars => Keeping'
<1> SUFFICES ASSUME IInv, ~Spoilt, ~Spoilt', [Next]_vars PROVE Keeping'
  OBVIOUS
<1>a. Shapes /\ Sequence /\ Keeping
  BY DEF IInv
<1>b. label \in Sides
  BY <1>a DEF Shapes
\* An artifact of another type than a snapshot.
<1>r. ASSUME NEW a \in left[label], Read(a), UNCHANGED <<given, label, side, tied, manifests>>,
             UNCHANGED indexes \/ (a.type = "parts" /\ indexes' = indexes \cup {a}),
             a.type = "part" \/ (a.type = "parts" /\ indexes' = indexes \cup {a})
      PROVE  Keeping'
  <2>1. /\ \A s \in Sides : s # label => Came(s)' = Came(s)
        /\ Came(label)' = Came(label) \cup {a}
        /\ \A s \in Sides : Held(s)' = Held(s)
    BY <1>a, <1>r, Comes
  <2>2. \A s \in Sides : {b \in Came(s) : b.type = "manifest"}' = {b \in Came(s) : b.type = "manifest"}
    BY <1>r, <2>1
  <2> QED BY <1>a, <1>r, <2>1, <2>2 DEF Keeping
<1>0. CASE UNCHANGED vars
  BY <1>0, <1>a DEF vars, Keeping, Held, Came
<1>1. CASE ReadSnapshot
  <2>1. PICK a \in Of("snapshot") : Read(a) /\ Take(a)
    BY <1>1 DEF ReadSnapshot
  <2>2. a \in left[label] /\ a.type = "snapshot" /\ UNCHANGED <<given, label, manifests, indexes>>
    BY <1>1, <2>1 DEF ReadSnapshot, Of
  <2>3. IsSnapshot(a)
    BY <1>a, <2>2, GivenSnapshots DEF Shapes
  <2>4. /\ \A s \in Sides : s # label => Came(s)' = Came(s)
        /\ Came(label)' = Came(label) \cup {a}
        /\ \A s \in Sides : s # label => Held(s)' = Held(s)
        /\ Held(label)' = Held(label) \cup {a}
    BY <1>a, <2>1, <2>2, Comes
  <2>5. \A s \in Sides : {b \in Came(s) : b.type = "manifest"}' = {b \in Came(s) : b.type = "manifest"}
    BY <2>2, <2>4
  <2> QED BY <1>a, <2>1, <2>2, <2>3, <2>4, <2>5, KeepingTake
<1>2. CASE ReadManifest
  <2>1. PICK a \in Of("manifest") :
          /\ Read(a)
          /\ \/ Refuse("conflicting manifests") /\ UNCHANGED manifests
             \/ manifests' = [manifests EXCEPT ![label] = @ \cup {a}] /\ UNCHANGED <<pc, why>>
    BY <1>2 DEF ReadManifest
  <2>2. a \in left[label] /\ a.type = "manifest" /\ UNCHANGED <<given, label, side, tied, indexes>>
    BY <1>2, <2>1 DEF ReadManifest, Of
  <2>3. manifests' = [manifests EXCEPT ![label] = @ \cup {a}]
    BY <2>1 DEF Refuse, Spoilt
  <2>4. /\ \A s \in Sides : s # label => Came(s)' = Came(s)
        /\ Came(label)' = Came(label) \cup {a}
        /\ \A s \in Sides : Held(s)' = Held(s)
    BY <1>a, <2>1, <2>2, Comes
  <2>5. \A s \in Sides : manifests'[s] = IF s = label THEN manifests[s] \cup {a} ELSE manifests[s]
    BY <1>a, <2>3 DEF Shapes
  <2>6. \A s \in Sides : manifests'[s] = {b \in Came(s) : b.type = "manifest"}'
    BY <1>a, <2>2, <2>4, <2>5 DEF Keeping
  <2> QED BY <1>a, <2>2, <2>4, <2>6 DEF Keeping
<1>3. CASE ReadPart
  <2>1. PICK a \in Of("part") : Read(a)
    BY <1>3 DEF ReadPart
  <2>2. /\ a \in left[label] /\ a.type = "part"
        /\ UNCHANGED <<given, label, side, tied, manifests, indexes>>
    BY <1>3, <2>1 DEF ReadPart, Of
  <2> QED BY <1>r, <2>1, <2>2
<1>4. CASE ReadIndex
  <2>1. PICK a \in Of("parts") : Read(a) /\ indexes' = indexes \cup {a}
    BY <1>4 DEF ReadIndex
  <2>2. a \in left[label] /\ a.type = "parts" /\ UNCHANGED <<given, label, side, tied, manifests>>
    BY <1>4, <2>1 DEF ReadIndex, Of
  <2> QED BY <1>r, <2>1, <2>2
<1>5. CASE Assemble
  <2>1. PICK x \in indexes :
          /\ indexes' = indexes \ {x}
          /\ \/ Take(x.snapshot) /\ UNCHANGED <<pc, why>>
             \/ Refuse("incomplete") /\ UNCHANGED <<used, side, tied>>
    BY <1>5 DEF Assemble
  <2>2. Take(x.snapshot) /\ UNCHANGED <<given, left, label, manifests>>
    BY <1>5, <2>1 DEF Assemble, Refuse, Spoilt
  <2>3. x \in given[label] /\ x.type = "parts" /\ given \in Given
    BY <1>a DEF Shapes, Came
  <2>4. IsSnapshot(x.snapshot)
    BY <1>a, <2>3, GivenSnapshots DEF Shapes
  <2>5. \A s : Came(s)' = Came(s)
    BY <2>2 DEF Came
  <2>6. Held(label)' = Held(label) \cup {x.snapshot}
    <3>1. Held(label)' = HeldOf(Came(label), indexes \ {x}) /\ Held(label) = HeldOf(Came(label), indexes)
      BY <2>1, <2>2, <2>5 DEF Held
    <3> QED BY <1>a, <3>1, HeldAssembled DEF Shapes
  <2>7. \A s \in Sides : s # label => Held(s)' = Held(s)
    BY <2>2, <2>5 DEF Held
  <2>8. \A s \in Sides : {b \in Came(s) : b.type = "manifest"}' = {b \in Came(s) : b.type = "manifest"}
    BY <2>5
  <2> QED BY <1>a, <2>2, <2>4, <2>6, <2>7, <2>8, KeepingTake
<1>6. CASE EndOfSide
  <2>1. /\ indexes = {} /\ UNCHANGED <<given, left, tied, manifests, indexes>>
        /\ side' = [side EXCEPT ![label] = Settled(label)]
    BY <1>6 DEF EndOfSide, Refuse, Spoilt
  <2>2. \A s \in Sides : Came(s)' = Came(s) /\ Held(s)' = Held(s)
    BY <2>1 DEF Came, Held
  <2>3. ASSUME NEW s \in Sides PROVE Kept(Held(s), side'[s], tied[s])
    <3>1. Kept(Held(s), side[s], tied[s]) /\ Kept(Held(s), Settled(s), tied[s])
      BY <1>a, SettledHolds DEF Keeping
    <3>2. side'[s] = IF s = label THEN Settled(s) ELSE side[s]
      BY <1>a, <2>1 DEF Shapes
    <3> QED BY <3>1, <3>2
  <2> QED BY <1>a, <2>1, <2>2, <2>3 DEF Keeping
<1>7. CASE Validate \/ DiffPair \/ Finish
  <2>1. UNCHANGED <<given, left, label, side, tied, manifests, indexes>>
    BY <1>7 DEF Validate, DiffPair, Finish
  <2> QED BY <1>a, <2>1 DEF Keeping, Held, Came
<1> QED
  BY <1>0, <1>1, <1>2, <1>3, <1>4, <1>5, <1>6, <1>7 DEF Next

\* A step of the reading leaves the other side alone.
LEMMA OtherSideStays ==
  ASSUME Shapes, Sequence, ~Spoilt',
         ReadSnapshot \/ ReadManifest \/ ReadPart \/ ReadIndex \/ Assemble
  PROVE  /\ pc' = "read" /\ why' = "none" /\ label' = label
         /\ \A s \in Sides : s # label =>
              side'[s] = side[s] /\ tied'[s] = tied[s] /\ manifests'[s] = manifests[s]
<1>1. why = "none" /\ pc = "read" /\ label' = label
  BY DEF Sequence, ReadSnapshot, ReadManifest, ReadPart, ReadIndex, Assemble
<1>2. ASSUME NEW env, Take(env), NEW s \in Sides, s # label
      PROVE  side'[s] = side[s] /\ tied'[s] = tied[s]
  BY <1>2 DEF Take, Shapes
<1>3. CASE ReadSnapshot
  BY <1>1, <1>2, <1>3 DEF ReadSnapshot
<1>4. CASE ReadManifest
  <2>1. PICK a : manifests' = [manifests EXCEPT ![label] = @ \cup {a}] /\ UNCHANGED <<pc, why>>
    BY <1>4 DEF ReadManifest, Refuse, Spoilt
  <2>2. \A s \in Sides : s # label => manifests'[s] = manifests[s]
    BY <2>1 DEF Shapes
  <2> QED BY <1>1, <1>4, <2>1, <2>2 DEF ReadManifest
<1>5. CASE ReadPart \/ ReadIndex
  BY <1>1, <1>5 DEF ReadPart, ReadIndex, Refuse, Spoilt
<1>6. CASE Assemble
  <2>1. PICK x \in indexes : Take(x.snapshot) /\ UNCHANGED <<pc, why>>
    BY <1>6 DEF Assemble, Refuse, Spoilt
  <2> QED BY <1>1, <1>2, <1>6, <2>1 DEF Assemble
<1> QED BY <1>3, <1>4, <1>5, <1>6

LEMMA SettlingStep ==
  IInv /\ ~Spoilt /\ ~Spoilt' /\ [Next]_vars => Settling'
<1> SUFFICES ASSUME IInv, ~Spoilt, ~Spoilt', [Next]_vars PROVE Settling'
  OBVIOUS
<1>a. Shapes /\ Sequence /\ Keeping /\ Settling
  BY DEF IInv
<1>0. CASE UNCHANGED vars
  BY <1>0, <1>a DEF vars, Settling, Over, Judging
<1>1. CASE ReadSnapshot \/ ReadManifest \/ ReadPart \/ ReadIndex \/ Assemble
  <2>1. /\ pc' = "read" /\ why' = "none" /\ label' = label
        /\ \A s \in Sides : s # label =>
             side'[s] = side[s] /\ tied'[s] = tied[s] /\ manifests'[s] = manifests[s]
    BY <1>1, <1>a, OtherSideStays
  <2>2. \A s \in Sides : Over(s)' => Over(s) /\ s # label
    BY <2>1 DEF Over, Judging
  <2> QED BY <1>a, <2>1, <2>2 DEF Settling
<1>2. CASE EndOfSide
  <2>1. /\ UNCHANGED <<tied, manifests>> /\ side' = [side EXCEPT ![label] = Settled(label)]
        /\ pc = "read" /\ label' = "post"
    BY <1>2 DEF EndOfSide, Refuse, Spoilt
  <2>2. label \in Sides /\ why = "none"
    BY <1>a, <2>1 DEF Shapes, Sequence
  <2>3. ASSUME NEW s \in Sides, Over(s)',
               NEW d \in DOMAIN tied[s] \cap Scoped(manifests[s]),
               \E c \in tied[s][d] : c.run = Scope(manifests[s], d).run
        PROVE  side'[s][d].run = Scope(manifests[s], d).run
    <3>1. CASE s = label
      <4>1. side'[s] = Settled(s)
        BY <1>a, <2>1, <3>1 DEF Shapes
      <4>2. Kept(Held(s), side[s], tied[s])
        BY <1>a DEF Keeping
      <4> QED BY <2>3, <4>1, <4>2, SettledHolds
    <3>2. CASE s # label
      <4>1. side'[s] = side[s]
        BY <1>a, <2>1, <3>2 DEF Shapes
      <4>2. Over(s)
        <5>1. CASE label = "pre"
          <6>1. s = "post" /\ pc' = "read" /\ why' = "none"
            BY <1>2, <2>2, <3>2, <5>1 DEF Sides, EndOfSide, Refuse, Spoilt
          <6> QED BY <2>3, <6>1 DEF Over, Judging
        <5>2. CASE label = "post"
          BY <3>2, <5>2 DEF Sides, Over
        <5> QED BY <2>2, <5>1, <5>2 DEF Sides
      <4> QED BY <1>a, <2>3, <4>1, <4>2 DEF Settling
    <3> QED BY <3>1, <3>2
  <2> QED BY <2>1, <2>3 DEF Settling
<1>3. CASE Validate \/ DiffPair \/ Finish
  <2>1. UNCHANGED <<label, side, tied, manifests>> /\ Judging
    BY <1>3 DEF Validate, DiffPair, Finish, Judging
  <2> QED BY <1>a, <2>1 DEF Settling, Over
<1> QED
  BY <1>0, <1>1, <1>2, <1>3 DEF Next

LEMMA JudgedStep ==
  IInv /\ ~Spoilt /\ ~Spoilt' /\ [Next]_vars => Judged'
<1> SUFFICES ASSUME IInv, ~Spoilt, ~Spoilt', [Next]_vars PROVE Judged'
  OBVIOUS
<1>a. Shapes /\ Sequence /\ Judged
  BY DEF IInv
<1>0. CASE UNCHANGED vars
  BY <1>0, <1>a DEF vars, Judged, Accepted, Paired
<1>1. CASE ReadSnapshot \/ ReadManifest \/ ReadPart \/ ReadIndex \/ Assemble
  <2>1. pc' = "read" /\ why' = "none"
    BY <1>1, <1>a, OtherSideStays
  <2> QED BY <2>1 DEF Judged, Accepted
<1>2. CASE EndOfSide
  <2>1. pc' \in {"read", "validate"} /\ why' = "none"
    BY <1>2, <1>a DEF EndOfSide, Refuse, Spoilt, Sequence
  <2> QED BY <2>1 DEF Judged, Accepted
<1>3. CASE Validate
  <2>1. UNCHANGED <<side, manifests, pairs>> /\ why = "none"
    BY <1>3, <1>a DEF Validate, Sequence
  <2>2. CASE pc' = "diff"
    BY <1>3, <2>1, <2>2 DEF Validate, Refuse, Judged, Accepted
  <2>3. CASE pc' # "diff"
    BY <1>3, <2>1, <2>3 DEF Validate, Refuse, Judged, Accepted, Spoilt
  <2> QED BY <2>2, <2>3
<1>4. CASE DiffPair \/ Finish
  <2>1. UNCHANGED <<side, manifests, why>> /\ pc = "diff" /\ pc' \in {"diff", "done"}
    BY <1>4 DEF DiffPair, Finish
  <2>2. pc' = "done" => Paired = DOMAIN pairs /\ UNCHANGED pairs
    BY <1>4, <2>1 DEF DiffPair, Finish
  <2> QED BY <1>a, <2>1, <2>2 DEF Judged, Accepted, Paired
<1> QED
  BY <1>0, <1>1, <1>2, <1>3, <1>4 DEF Next

LEMMA Inductive == Spec => []IInv
<1>1. IInv /\ [Next]_vars => IInv'
  <2> SUFFICES ASSUME IInv, [Next]_vars PROVE IInv'
    OBVIOUS
  <2>1. Shapes' /\ Sequence'
    BY SequenceStep DEF IInv
  <2>2. ~Spoilt' => ~Spoilt
    BY SpoiltStays
  <2>3. ~Spoilt' => Keeping' /\ Settling' /\ Judged'
    BY <2>2, KeepingStep, SettlingStep, JudgedStep
  <2> QED BY <2>1, <2>3 DEF IInv
<1> QED BY <1>1, InitIInv, PTL DEF Spec
-----------------------------------------------------------------------------
(* What is compared, refused and listed *)

\* A side that has been read holds what was given.
LEMMA AllIsRead ==
  ASSUME IInv, Judging, NEW s \in Sides
  PROVE  /\ ~Spoilt /\ Over(s) /\ manifests[s] = ManifestsOf(s)
         /\ \A d : For(Held(s), d) = SnapshotsOf(s, d) /\ Top(Held(s), d) = Newest(s, d)
         /\ Kept(Held(s), side[s], tied[s])
<1>1. label = "post" /\ left[s] = {} /\ indexes = {}
  BY DEF IInv, Sequence, Sides
<1>2. ~Spoilt /\ Over(s)
  <2>1. pc # "refused" \/ why = "not of that run"
    BY DEF Judging
  <2> QED BY <1>1, <2>1 DEF Spoilt, Over, Sides
<1>3. Came(s) = given[s]
  BY <1>1 DEF Came
<1>4. \A d : For(Held(s), d) = SnapshotsOf(s, d)
  BY <1>1, <1>3 DEF For, Held, HeldOf, SnapshotsOf, Snapshots
<1>5. \A d : Top(Held(s), d) = Newest(s, d)
  BY <1>4 DEF Top, Newest
<1> QED BY <1>2, <1>3, <1>4, <1>5 DEF IInv, Keeping, ManifestsOf

\* tools/diff_snapshots.py:273-318,329-361: whatever order the artifacts of a
\* side are given in, and however many runs they are of, the newest snapshot of
\* each device is compared, of several the one of the newest manifest's run.
THEOREM NewestIsCompared == Spec => []NewestWins
<1>1. IInv => NewestWins
  <2> SUFFICES ASSUME IInv, Accepted, NEW s \in Sides, NEW d \in Names,
                      SnapshotsOf(s, d) # {}, Dated(s, d)
               PROVE  /\ d \in DOMAIN side[s] /\ side[s][d] \in Newest(s, d)
                      /\ d \in Scoped(ManifestsOf(s)) => side[s][d].run = Scope(ManifestsOf(s), d).run
    BY DEF NewestWins
  <2>1. /\ ~Spoilt /\ manifests[s] = ManifestsOf(s)
        /\ For(Held(s), d) = SnapshotsOf(s, d) /\ Top(Held(s), d) = Newest(s, d)
        /\ Kept(Held(s), side[s], tied[s])
    BY AllIsRead DEF Accepted, Judging
  <2>2. d \in DOMAIN side[s] /\ side[s][d] \in Newest(s, d)
    BY <2>1 DEF Kept, Dated
  <2>3. Matching(manifests[s], side[s][d])
    BY <2>1, <2>2 DEF IInv, Judged
  <2>4. side[s][d].device = d
    BY <2>1, <2>2 DEF Kept, For
  <2> QED BY <2>1, <2>2, <2>3, <2>4 DEF Matching
<1> QED BY <1>1, Inductive, PTL

\* tools/diff_snapshots.py:273-318,329-361: when the tool refuses a snapshot for
\* its run, no other order of the arguments would have had it accept the side.
THEOREM RefusalsAreDeserved == Spec => []RefusalIsDeserved
<1>1. IInv => RefusalIsDeserved
  <2> SUFFICES ASSUME IInv, why = "not of that run",
                      \A s \in Sides : \A d \in Names : Dated(s, d) /\ Listed(s, d)
               PROVE  \E s \in Sides : \E d \in Names :
                        /\ SnapshotsOf(s, d) # {}
                        /\ \A x \in Newest(s, d) : ~Matching(ManifestsOf(s), x)
    BY DEF RefusalIsDeserved
  <2>1. Shapes /\ Settling /\ Judged
    BY DEF IInv, Spoilt
  <2>2. PICK s \in Sides : \E d \in DOMAIN side[s] : ~Matching(manifests[s], side[s][d])
    BY <2>1 DEF Judged
  <2>3. PICK d \in DOMAIN side[s] : ~Matching(manifests[s], side[s][d])
    BY <2>2
  <2> DEFINE ms == ManifestsOf(s)
             y == side[s][d]
             m == Scope(ms, d)
  <2>4. /\ Over(s) /\ manifests[s] = ms
        /\ For(Held(s), d) = SnapshotsOf(s, d) /\ Top(Held(s), d) = Newest(s, d)
        /\ Kept(Held(s), side[s], tied[s])
    BY AllIsRead DEF Judging
  <2>5. y \in SnapshotsOf(s, d) /\ y.device = d /\ y \in Held(s)
    BY <2>4 DEF Kept, For
  <2>6. d \in Names
    BY <2>1, <2>5, HeldAreSnapshots DEF IsSnapshot
  <2>7. y \in Newest(s, d) /\ Newest(s, d) = IF d \in DOMAIN tied[s] THEN tied[s][d] ELSE {y}
    <3>1. \A x \in For(Held(s), d) : x.at # None
      BY <2>4, <2>6 DEF Dated
    <3> QED BY <2>4, <3>1 DEF Kept
  <2>8. ASSUME NEW x \in Newest(s, d), Matching(ms, x) PROVE FALSE
    <3>1. x.device = d /\ x \in SnapshotsOf(s, d)
      BY DEF Newest, SnapshotsOf
    <3>2. CASE d \in Scoped(ms)
      <4>1. x.run = m.run /\ m.rows[d].disposition = CaptureDisposition /\ m.rows[d].outcome # "not_visited"
        BY <2>8, <3>1, <3>2 DEF Matching
      <4>2. y.run # m.run
        BY <2>3, <2>4, <2>5, <3>2, <4>1 DEF Matching
      <4>3. d \in DOMAIN tied[s] /\ x \in tied[s][d]
        BY <2>7, <4>1, <4>2
      <4> QED BY <2>1, <2>4, <3>2, <4>1, <4>2, <4>3 DEF Settling
    <3>3. CASE d \notin Scoped(ms)
      <4>1. PICK n \in ms : n.run = y.run
        BY <2>3, <2>4, <2>5, <3>3 DEF Matching
      <4>2. d \in DOMAIN n.rows
        BY <2>5, <2>6, <4>1 DEF Listed
      <4> QED BY <2>6, <3>3, <4>1, <4>2 DEF Scoped, Naming
    <3> QED BY <3>2, <3>3
  <2> QED BY <2>5, <2>6, <2>8
<1> QED BY <1>1, Inductive, PTL

\* tools/diff_snapshots.py:406-415,487-530: every device is in the
\* index: compared, or listed as captured on one side only, or as missing.
THEOREM NothingIsDropped == Spec => []NoSilentDrop
<1>1. IInv => NoSilentDrop
  <2> SUFFICES ASSUME IInv, pc = "done", NEW d \in Names, d \notin Index.pairs
               PROVE  /\ SnapshotsOf("pre", d) # {} => d \in Index.preOnly
                      /\ SnapshotsOf("post", d) # {} => d \in Index.postOnly
                      /\ \A s \in Sides :
                           /\ d \in Scoped(ManifestsOf(s)) /\ SnapshotsOf(s, d) = {}
                           /\ Scope(ManifestsOf(s), d).rows[d].disposition = CaptureDisposition
                           => d \in Index.missing[s]
    BY DEF NoSilentDrop
  <2>1. \A s \in Sides : /\ ~Spoilt /\ manifests[s] = ManifestsOf(s)
                         /\ d \in DOMAIN side[s] <=> SnapshotsOf(s, d) # {}
    <3> SUFFICES ASSUME NEW s \in Sides
                 PROVE  /\ ~Spoilt /\ manifests[s] = ManifestsOf(s)
                        /\ d \in DOMAIN side[s] <=> SnapshotsOf(s, d) # {}
      OBVIOUS
    <3>1. /\ ~Spoilt /\ manifests[s] = ManifestsOf(s) /\ For(Held(s), d) = SnapshotsOf(s, d)
          /\ Kept(Held(s), side[s], tied[s])
      BY AllIsRead DEF Judging
    <3> QED BY <3>1 DEF Kept
  <2>2. Paired = DOMAIN pairs
    BY <2>1 DEF IInv, Judged, Sides
  <2>3. /\ Index.pairs = DOMAIN pairs /\ Index.preOnly = Only("pre", "post")
        /\ Index.postOnly = Only("post", "pre") /\ \A s \in Sides : Index.missing[s] = Missing(s)
    BY DEF Index
  <2>4. d \notin DOMAIN side["pre"] \/ d \notin DOMAIN side["post"]
    BY <2>2, <2>3 DEF Paired
  <2>5. /\ SnapshotsOf("pre", d) # {} => d \in Only("pre", "post")
        /\ SnapshotsOf("post", d) # {} => d \in Only("post", "pre")
    BY <2>1, <2>4 DEF Only, Sides
  <2>6. ASSUME NEW s \in Sides, d \in Scoped(ManifestsOf(s)), SnapshotsOf(s, d) = {},
               Scope(ManifestsOf(s), d).rows[d].disposition = CaptureDisposition
        PROVE  d \in Missing(s)
    BY <2>1, <2>6 DEF Missing
  <2> QED BY <2>3, <2>5, <2>6
<1> QED BY <1>1, Inductive, PTL
-----------------------------------------------------------------------------
(* Numbers and finite sets.  What is said of every number or every finite  *)
(* set is proved by a least counterexample.                                *)

\* "Less than" as a relation that has no endless descent.
LEMMA NatBelow == \E R : IsWellFoundedOn(R, Nat) /\ \A x, y \in Nat : <<y, x>> \in R <=> y < x
<1> DEFINE R == OpToRel(<, Nat)
<1>1. \A x, y \in Nat : <<y, x>> \in R <=> y < x
  BY Zenon DEF OpToRel
<1>2. IsWellFoundedOn(R, Nat)
  BY NatLessThanWellFounded
<1> HIDE DEF R
<1> QED BY <1>1, <1>2

LEMMA LeastNat ==
  ASSUME NEW T \in SUBSET Nat, T # {}
  PROVE  \E x \in T : \A y \in T : x <= y
<1>1. PICK R : IsWellFoundedOn(R, Nat) /\ \A x, y \in Nat : <<y, x>> \in R <=> y < x
  BY NatBelow
<1>2. PICK x \in T : \A y \in T : ~ (<<y, x>> \in R)
  BY WFMin, <1>1
<1>3. ASSUME NEW y \in T PROVE x <= y
  <2>1. x \in Nat /\ y \in Nat
    OBVIOUS
  <2>2. <<y, x>> \in R <=> y < x
    BY <1>1, <2>1
  <2>3. ~ (<<y, x>> \in R)
    BY <1>2
  <2>4. ~ (y < x)
    BY <2>2, <2>3
  <2> QED BY <2>1, <2>4
<1> QED BY <1>3

\* A set of numbers that holds zero, and with a number below n the next, holds n.
LEMMA NatUpTo ==
  ASSUME NEW n \in Nat, NEW T, 0 \in T, \A k \in Nat : k < n /\ k \in T => k + 1 \in T
  PROVE  \A k \in 0..n : k \in T
<1> DEFINE Bad == {k \in 0..n : k \notin T}
<1>1. Bad \in SUBSET Nat
  OBVIOUS
<1>2. Bad = {}
  <2> SUFFICES ASSUME Bad # {} PROVE FALSE
    OBVIOUS
  <2>1. PICK x \in Bad : \A y \in Bad : x <= y
    <3> HIDE DEF Bad
    <3> QED BY <1>1, LeastNat
  <2>2. x \in 0..n /\ x \notin T /\ x # 0
    OBVIOUS
  <2>3. x - 1 \in 0..n /\ x - 1 \notin Bad
    BY <2>1, <2>2
  <2>4. x - 1 \in T /\ x - 1 \in Nat /\ x - 1 < n /\ (x - 1) + 1 = x
    BY <2>2, <2>3
  <2> QED BY <2>2, <2>4
<1> QED BY <1>2

\* The values of a function with a finite domain are finitely many.
LEMMA FiniteValues ==
  ASSUME NEW f, IsFiniteSet(DOMAIN f)
  PROVE  IsFiniteSet({f[x] : x \in DOMAIN f})
<1> DEFINE T == {f[x] : x \in DOMAIN f}
           g == [x \in DOMAIN f |-> f[x]]
<1>1. g \in Surjection(DOMAIN f, T)
  BY DEF Surjection
<1> HIDE DEF g, T
<1>2. IsFiniteSet(T)
  BY <1>1, FS_Surjection
<1> QED BY <1>2 DEF T

\* A set of numbers that is bounded and not empty has a maximum.
LEMMA MaxOf ==
  ASSUME NEW n \in Nat, NEW T \in SUBSET (0..n), T # {}
  PROVE  Max(T) \in T /\ \A y \in T : Max(T) >= y
<1> DEFINE U == {k \in 0..n : n - k \in T}
<1>0. PICK x \in T : TRUE
  OBVIOUS
<1>1. U \in SUBSET Nat /\ U # {}
  <2>1. n - x \in 0..n /\ n - (n - x) = x
    OBVIOUS
  <2>2. n - x \in U
    BY <2>1
  <2>3. U \in SUBSET Nat
    OBVIOUS
  <2> QED BY <2>2, <2>3
<1>2. PICK u \in U : \A v \in U : u <= v
  <2> HIDE DEF U
  <2> QED BY <1>1, LeastNat
<1>3. u \in 0..n /\ n - u \in T
  OBVIOUS
<1>4. \A y \in T : n - u >= y
  <2> TAKE y \in T
  <2>1. y \in 0..n /\ n - y \in 0..n /\ n - (n - y) = y
    OBVIOUS
  <2>2. u <= n - y
    BY <1>2, <2>1
  <2> QED BY <1>3, <2>1, <2>2
<1> QED BY <1>3, <1>4 DEF Max
-----------------------------------------------------------------------------
(* Sets in the order of the texts. *)

\* No two of the runs or hunks lie at one place.
Placed(S) ==
  /\ IsFiniteSet(S) /\ \A r \in S : Place(r) \in Nat
  /\ \A r, s \in S : r # s => Place(r) # Place(s)

Climbs(list) == \A i, j \in DOMAIN list : i < j => Place(list[i]) < Place(list[j])
Lists(list, S) == list \in [1..Cardinality(S) -> S] /\ Climbs(list)

LEMMA FirstListed ==
  ASSUME NEW S, Placed(S), NEW m \in S, \A r \in S : Place(m) <= Place(r),
         NEW rest, Lists(rest, S \ {m})
  PROVE  \E list : Lists(list, S)
<1> DEFINE n == Cardinality(S)
           list == [i \in 1..n |-> IF i = 1 THEN m ELSE rest[i - 1]]
<1>1. n \in Nat /\ n >= 1 /\ Cardinality(S \ {m}) = n - 1
  <2>1. n \in Nat /\ (n = 0 <=> S = {})
    BY FS_CardinalityType, FS_EmptySet DEF Placed
  <2> QED BY <2>1, FS_RemoveElement DEF Placed
<1>2. rest \in [1..(n - 1) -> S \ {m}] /\ \A i, j \in 1..(n - 1) : i < j => Place(rest[i]) < Place(rest[j])
  BY <1>1 DEF Lists, Climbs
<1> HIDE DEF n
<1>3. \A i \in 2..n : i - 1 \in 1..(n - 1) /\ list[i] = rest[i - 1] /\ rest[i - 1] \in S \ {m}
  BY <1>1, <1>2
<1>4. list[1] = m
  BY <1>1
<1>5. list \in [1..n -> S]
  <2>1. \A i \in 1..n : i = 1 \/ i \in 2..n
    BY <1>1
  <2>2. \A i \in 1..n : (IF i = 1 THEN m ELSE rest[i - 1]) \in S
    BY <1>3, <2>1
  <2> QED BY <2>2
<1>6. ASSUME NEW i \in 1..n, NEW j \in 1..n, i < j PROVE Place(list[i]) < Place(list[j])
  <2>1. j \in 2..n
    BY <1>6, <1>1
  <2>2. CASE i = 1
    <3>1. list[j] \in S /\ list[j] # m
      BY <1>3, <2>1
    <3>2. Place(m) \in Nat /\ Place(list[j]) \in Nat /\ Place(m) # Place(list[j])
          /\ Place(m) <= Place(list[j])
      BY <3>1 DEF Placed
    <3> QED BY <1>4, <2>2, <3>2
  <2>3. CASE i # 1
    <3>1. i \in 2..n /\ i - 1 < j - 1
      BY <1>1, <1>6, <2>3
    <3> QED BY <1>2, <1>3, <2>1, <3>1
  <2> QED BY <2>2, <2>3
<1>7. DOMAIN list = 1..n
  OBVIOUS
<1> HIDE DEF list
<1>8. Lists(list, S)
  BY <1>5, <1>6, <1>7 DEF Lists, Climbs, n
<1> QED BY <1>8

LEMMA LeastPlaced ==
  ASSUME NEW S, Placed(S), S # {}
  PROVE  \E m \in S : \A r \in S : Place(m) <= Place(r)
<1> DEFINE T == {p \in Nat : \E r \in S : Place(r) = p}
<1>1. T \in SUBSET Nat /\ \A r \in S : Place(r) \in T
  BY DEF Placed
<1>2. \A p \in T : \E r \in S : Place(r) = p
  OBVIOUS
<1> HIDE DEF T
<1>3. T # {}
  BY <1>1
<1>4. PICK p \in T : \A q \in T : p <= q
  BY <1>1, <1>3, LeastNat
<1> QED BY <1>1, <1>2, <1>4

LEMMA ListingExists ==
  ASSUME NEW S, Placed(S)
  PROVE  \E list : Lists(list, S)
<1> DEFINE T == {k \in Nat : \A s \in SUBSET S : Cardinality(s) = k => \E list : Lists(list, s)}
<1>1. \A s \in SUBSET S : Placed(s) /\ Cardinality(s) \in Nat /\ (Cardinality(s) = 0 <=> s = {})
  BY FS_Subset, FS_CardinalityType, FS_EmptySet DEF Placed
<1>2. 0 \in T
  <2> SUFFICES ASSUME NEW s \in SUBSET S, Cardinality(s) = 0 PROVE \E list : Lists(list, s)
    OBVIOUS
  <2> DEFINE none == [i \in 1..0 |-> i]
  <2>1. none \in [1..0 -> s] /\ DOMAIN none = {}
    OBVIOUS
  <2> HIDE DEF none
  <2>2. Lists(none, s)
    BY <2>1 DEF Lists, Climbs
  <2> QED BY <2>2
<1>3. ASSUME NEW k \in Nat, k < Cardinality(S), k \in T PROVE k + 1 \in T
  <2> SUFFICES ASSUME NEW s \in SUBSET S, Cardinality(s) = k + 1 PROVE \E list : Lists(list, s)
    BY <1>3
  <2>1. s # {} /\ Placed(s)
    BY <1>1
  <2>2. PICK m \in s : \A r \in s : Place(m) <= Place(r)
    BY <2>1, LeastPlaced
  <2>3. s \ {m} \in SUBSET S /\ Cardinality(s \ {m}) = k
    <3>1. Cardinality(s \ {m}) = Cardinality(s) - 1
      BY <2>1, FS_RemoveElement DEF Placed
    <3> QED BY <1>3, <3>1
  <2>4. PICK rest : Lists(rest, s \ {m})
    BY <1>3, <2>3
  <2> QED BY <2>1, <2>2, <2>4, FirstListed
<1> HIDE DEF T
<1>4. \A k \in 0..Cardinality(S) : k \in T
  BY <1>1, <1>2, <1>3, NatUpTo
<1>5. Cardinality(S) \in T
  BY <1>1, <1>4
<1> QED BY <1>5 DEF T

\* What InOrder promises: every element once, and in their order.
LEMMA InOrderLists ==
  ASSUME NEW S, Placed(S)
  PROVE  /\ Lists(InOrder(S), S) /\ InOrder(S) \in Seq(S)
         /\ Len(InOrder(S)) = Cardinality(S) /\ DOMAIN InOrder(S) = 1..Cardinality(S)
         /\ \A r \in S : \E i \in 1..Cardinality(S) : InOrder(S)[i] = r
<1> DEFINE n == Cardinality(S)
<1>0. n \in Nat /\ IsFiniteSet(S)
  BY FS_CardinalityType DEF Placed
<1>1. \A list : Lists(list, S) <=> list \in SetToSeqs(S) /\ Climbs(list)
  <2> TAKE list
  <2>1. ASSUME Lists(list, S) PROVE list \in SetToSeqs(S)
    <3>1. list \in [1..n -> S] /\ \A i, j \in 1..n : i < j => Place(list[i]) < Place(list[j])
      BY <2>1 DEF Lists, Climbs
    <3>2. \A i \in 1..n : Place(list[i]) \in Nat
      BY <3>1 DEF Placed
    <3>3. \A i, j \in 1..n : i # j => list[i] # list[j]
      BY <1>0, <3>1, <3>2
    <3> QED BY <3>1, <3>3 DEF SetToSeqs
  <2> QED BY <2>1 DEF Lists, SetToSeqs
<1>2. InOrder(S) \in SetToSeqs(S) /\ Climbs(InOrder(S))
  <2>1. \E list \in SetToSeqs(S) : Climbs(list)
    BY <1>1, ListingExists
  <2> QED BY <2>1 DEF InOrder, Climbs
<1> DEFINE list == InOrder(S)
<1> HIDE DEF list
<1>3. list \in [1..n -> S] /\ \A i, j \in 1..n : i # j => list[i] # list[j]
  BY <1>2 DEF SetToSeqs, list
<1>4. list \in Seq(S) /\ Len(list) = n /\ DOMAIN list = 1..n
  <2>1. list \in Seq(S)
    BY <1>0, <1>3, SeqDef
  <2> QED BY <1>0, <1>3, <2>1, LenProperties
<1>5. list \in Injection(1..n, S)
  BY <1>3 DEF Injection, IsInjective
<1>6. IsFiniteSet(1..n) /\ Cardinality(1..n) = n
  BY <1>0, FS_Interval
<1>7. list \in Surjection(1..n, S)
  BY <1>0, <1>5, <1>6, FS_Injection
<1>8. \A r \in S : \E i \in 1..n : list[i] = r
  BY <1>7 DEF Surjection
<1> QED BY <1>1, <1>2, <1>4, <1>8 DEF list

\* There is one such list.
LEMMA OneOrder ==
  ASSUME NEW S, Placed(S), NEW list, Lists(list, S)
  PROVE  InOrder(S) = list
<1> DEFINE n == Cardinality(S)
           other == InOrder(S)
           Bad == {i \in 1..n : list[i] # other[i]}
<1>0. n \in Nat
  BY FS_CardinalityType DEF Placed
<1>1. /\ list \in [1..n -> S] /\ \A i, j \in 1..n : i < j => Place(list[i]) < Place(list[j])
      /\ other \in [1..n -> S] /\ \A i, j \in 1..n : i < j => Place(other[i]) < Place(other[j])
  <2>1. other \in [1..n -> S] /\ Climbs(other)
    BY InOrderLists DEF Lists
  <2> HIDE DEF other
  <2> QED BY <2>1 DEF Lists, Climbs
<1>2. /\ \A r \in S : \E i \in 1..n : list[i] = r
      /\ \A r \in S : \E i \in 1..n : other[i] = r
  <2>1. \A i \in 1..n : Place(list[i]) \in Nat
    BY <1>1 DEF Placed
  <2>2. list \in Injection(1..n, S)
    BY <1>0, <1>1, <2>1 DEF Injection, IsInjective
  <2>3. IsFiniteSet(1..n) /\ Cardinality(1..n) = n /\ IsFiniteSet(S)
    BY <1>0, FS_Interval DEF Placed
  <2>4. list \in Surjection(1..n, S)
    BY <1>0, <2>2, <2>3, FS_Injection
  <2> QED BY <2>4, InOrderLists DEF Surjection
<1>3. \A i \in 1..n : Place(list[i]) \in Nat /\ Place(other[i]) \in Nat
  BY <1>1 DEF Placed
<1> HIDE DEF other
<1>4. Bad = {}
  <2> SUFFICES ASSUME Bad # {} PROVE FALSE
    OBVIOUS
  <2>0. Bad \in SUBSET Nat
    BY <1>0
  <2>1. PICK i \in Bad : \A k \in Bad : i <= k
    <3> HIDE DEF Bad
    <3> QED BY <2>0, LeastNat
  <2>2. i \in 1..n /\ list[i] # other[i]
    OBVIOUS
  <2>3. \A k \in 1..n : k < i => list[k] = other[k]
    BY <1>0, <2>1, <2>2
  <2>4. PICK j \in 1..n : other[j] = list[i]
    BY <1>1, <1>2, <2>2
  <2>5. PICK k \in 1..n : list[k] = other[i]
    BY <1>1, <1>2, <2>2
  <2>6. i < j
    <3>1. j # i
      BY <2>2, <2>4
    <3>2. ASSUME j < i PROVE FALSE
      <4>1. list[j] = list[i]
        BY <2>3, <2>4, <3>2
      <4> QED BY <1>1, <1>3, <2>2, <3>2, <4>1
    <3> QED BY <1>0, <2>2, <3>1, <3>2
  <2>7. i < k
    <3>1. k # i
      BY <2>2, <2>5
    <3>2. ASSUME k < i PROVE FALSE
      <4>1. other[k] = other[i]
        BY <2>3, <2>5, <3>2
      <4> QED BY <1>1, <1>3, <2>2, <3>2, <4>1
    <3> QED BY <1>0, <2>2, <3>1, <3>2
  <2>8. Place(other[i]) < Place(other[j]) /\ Place(list[i]) < Place(list[k])
    BY <1>1, <2>2, <2>6, <2>7
  <2> QED BY <1>3, <2>2, <2>4, <2>5, <2>8
<1>5. \A i \in 1..n : list[i] = other[i]
  BY <1>4
<1> HIDE DEF n, Bad
<1>6. list = [i \in 1..n |-> list[i]] /\ other = [i \in 1..n |-> other[i]]
  BY <1>1
<1>7. list = other
  BY <1>5, <1>6
<1> QED BY <1>7 DEF other
-----------------------------------------------------------------------------
(* Sums.  Summary adds up the entries of the checks. *)

\* What the recursion of a sum asks of a table of the sums of T's subsets.
Chosen(s) == CHOOSE x \in s : TRUE
Term(f, g, s) == IF s = {} THEN 0 ELSE f[Chosen(s)] + g[s \ {Chosen(s)}]
SumTable(f, T) == CHOOSE it : it = [s \in SUBSET T |-> Term(f, it, s)]

LEMMA SumUnfolds ==
  ASSUME NEW f, NEW S
  PROVE  SumFunctionOnSet(f, S) = SumTable(f, S)[S]
BY DEF SumFunctionOnSet, FoldFunctionOnSet, MapThenFoldSet, SumTable, Term, Chosen

\* The table is right for the subsets of at most n elements.
Filled(f, T, g, n) == \A s \in SUBSET T : Cardinality(s) <= n => g[s] = Term(f, g, s)

LEMMA Smaller ==
  ASSUME NEW T, IsFiniteSet(T), NEW s \in SUBSET T
  PROVE  /\ Cardinality(s) \in Nat /\ (s = {} <=> Cardinality(s) = 0)
         /\ Cardinality(s) <= Cardinality(T)
         /\ s # {} => /\ Chosen(s) \in s /\ s \ {Chosen(s)} \in SUBSET T
                      /\ Cardinality(s \ {Chosen(s)}) = Cardinality(s) - 1
<1>1. IsFiniteSet(s) /\ Cardinality(s) \in Nat /\ Cardinality(s) <= Cardinality(T)
  BY FS_Subset, FS_CardinalityType
<1>2. s = {} <=> Cardinality(s) = 0
  BY <1>1, FS_EmptySet
<1>3. s # {} => Chosen(s) \in s
  BY DEF Chosen
<1>4. s # {} => Cardinality(s \ {Chosen(s)}) = Cardinality(s) - 1
  BY <1>1, <1>3, FS_RemoveElement
<1> QED BY <1>1, <1>2, <1>3, <1>4

LEMMA TableExists ==
  ASSUME NEW T, IsFiniteSet(T), NEW f
  PROVE  \E g : DOMAIN g = SUBSET T /\ Filled(f, T, g, Cardinality(T))
<1> DEFINE Done == {n \in Nat : \E g : DOMAIN g = SUBSET T /\ Filled(f, T, g, n)}
<1>0. Cardinality(T) \in Nat
  BY FS_CardinalityType
<1>1. 0 \in Done
  <2> DEFINE g == [s \in SUBSET T |-> 0]
  <2>1. ASSUME NEW s \in SUBSET T, Cardinality(s) <= 0 PROVE g[s] = Term(f, g, s)
    <3>1. Cardinality(s) \in Nat /\ (s = {} <=> Cardinality(s) = 0)
      BY Smaller
    <3>2. s = {}
      BY <2>1, <3>1
    <3> QED BY <3>2 DEF Term
  <2>2. Filled(f, T, g, 0)
    BY <2>1 DEF Filled
  <2> QED BY <2>2
<1>2. ASSUME NEW n \in Nat, n \in Done PROVE n + 1 \in Done
  <2>1. PICK g : DOMAIN g = SUBSET T /\ Filled(f, T, g, n)
    BY <1>2
  <2> DEFINE h == [s \in SUBSET T |-> IF Cardinality(s) <= n THEN g[s] ELSE Term(f, g, s)]
  <2>2. \A s \in SUBSET T : h[s] = IF Cardinality(s) <= n THEN g[s] ELSE Term(f, g, s)
    OBVIOUS
  <2>3. DOMAIN h = SUBSET T
    OBVIOUS
  <2> HIDE DEF h
  <2>4. ASSUME NEW s \in SUBSET T, Cardinality(s) <= n + 1 PROVE h[s] = Term(f, h, s)
    <3>1. h[s] = Term(f, g, s)
      BY <2>1, <2>2 DEF Filled
    <3>2. s # {} => h[s \ {Chosen(s)}] = g[s \ {Chosen(s)}]
      BY <2>2, <2>4, Smaller
    <3> QED BY <3>1, <3>2 DEF Term
  <2>5. Filled(f, T, h, n + 1)
    BY <2>4 DEF Filled
  <2> QED BY <2>3, <2>5
<1> HIDE DEF Done
<1>3. \A n \in 0..Cardinality(T) : n \in Done
  BY <1>0, <1>1, <1>2, NatUpTo
<1>4. Cardinality(T) \in Done
  BY <1>0, <1>3
<1> QED BY <1>4 DEF Done

\* A sum of numbers is a number, and zero only when each of them is.
LEMMA SumOfNats ==
  ASSUME NEW T, IsFiniteSet(T), NEW f, \A x \in T : f[x] \in Nat
  PROVE  /\ SumFunctionOnSet(f, T) \in Nat
         /\ SumFunctionOnSet(f, T) = 0 => \A x \in T : f[x] = 0
<1> DEFINE it == SumTable(f, T)
           Sums == {n \in Nat : \A s \in SUBSET T : Cardinality(s) = n =>
                      it[s] \in Nat /\ (it[s] = 0 => \A x \in s : f[x] = 0)}
<1>1. \A s \in SUBSET T : it[s] = Term(f, it, s)
  <2>1. PICK g : DOMAIN g = SUBSET T /\ Filled(f, T, g, Cardinality(T))
    BY TableExists
  <2> DEFINE h == [s \in SUBSET T |-> g[s]]
  <2>2. \A s \in SUBSET T : h[s] = Term(f, h, s)
    <3> TAKE s \in SUBSET T
    <3>1. g[s] = Term(f, g, s)
      BY <2>1, Smaller DEF Filled
    <3>2. h[s] = g[s] /\ (s # {} => h[s \ {Chosen(s)}] = g[s \ {Chosen(s)}])
      OBVIOUS
    <3> QED BY <3>1, <3>2 DEF Term
  <2>3. h = [s \in SUBSET T |-> h[s]]
    OBVIOUS
  <2> HIDE DEF h
  <2>4. h = [s \in SUBSET T |-> Term(f, h, s)]
    BY <2>2, <2>3
  <2>5. it = [s \in SUBSET T |-> Term(f, it, s)]
    BY <2>4 DEF SumTable
  <2> HIDE DEF it
  <2> QED BY <2>5
<1> HIDE DEF it
<1>2. Cardinality(T) \in Nat
  BY FS_CardinalityType
<1>3. 0 \in Sums
  <2>1. ASSUME NEW s \in SUBSET T, Cardinality(s) = 0 PROVE s = {} /\ it[s] = 0
    BY <1>1, <2>1, Smaller DEF Term
  <2> QED BY <2>1
<1>4. ASSUME NEW n \in Nat, n \in Sums PROVE n + 1 \in Sums
  <2> SUFFICES ASSUME NEW s \in SUBSET T, Cardinality(s) = n + 1
               PROVE  it[s] \in Nat /\ (it[s] = 0 => \A x \in s : f[x] = 0)
    BY <1>4
  <2>1. s # {} /\ Chosen(s) \in s /\ s \ {Chosen(s)} \in SUBSET T /\ Cardinality(s \ {Chosen(s)}) = n
    <3>1. Cardinality(s) \in Nat /\ s # {}
      BY Smaller
    <3> QED BY <3>1, Smaller
  <2>2. it[s] = f[Chosen(s)] + it[s \ {Chosen(s)}]
    BY <1>1, <2>1 DEF Term
  <2>3. /\ it[s \ {Chosen(s)}] \in Nat
        /\ it[s \ {Chosen(s)}] = 0 => \A x \in s \ {Chosen(s)} : f[x] = 0
    BY <1>4, <2>1
  <2>4. f[Chosen(s)] \in Nat
    BY <2>1
  <2>5. it[s] \in Nat /\ (it[s] = 0 => f[Chosen(s)] = 0 /\ it[s \ {Chosen(s)}] = 0)
    BY <2>2, <2>3, <2>4
  <2> QED BY <2>3, <2>5
<1> HIDE DEF Sums
<1>5. \A n \in 0..Cardinality(T) : n \in Sums
  BY <1>2, <1>3, <1>4, NatUpTo
<1>6. Cardinality(T) \in Sums /\ T \in SUBSET T
  BY <1>2, <1>5
<1>7. it[T] \in Nat /\ (it[T] = 0 => \A x \in T : f[x] = 0)
  BY <1>6 DEF Sums
<1> QED BY <1>7, SumUnfolds DEF it
-----------------------------------------------------------------------------
(* A band and the interval it stands for. *)

Allowed(old, band, b) == IF b = "abs" THEN band.abs ELSE (band.pct * Absolute(old)) \div 100

LEMMA Products ==
  ASSUME NEW p \in Nat, NEW n \in Int
  PROVE  /\ Absolute(n) \in Nat /\ p * Absolute(n) \in Nat
         /\ n = 0 => p * Absolute(n) = 0
<1>1. Absolute(n) \in Nat /\ (n = 0 => Absolute(n) = 0)
  BY DEF Absolute
<1>2. \A m \in Nat : p * m \in Nat /\ p * 0 = 0
  OBVIOUS
<1> QED BY <1>1, <1>2

LEMMA BoundAllows ==
  ASSUME NEW old \in Int, NEW band, IsBand(band), NEW b \in Bounds(band)
  PROVE  /\ b \in {"abs", "pct"} /\ Allowed(old, band, b) \in Nat
         /\ b = "pct" /\ old = 0 => Allowed(old, band, b) = 0
         /\ b = "pct" => \A d \in Nat :
              100 * d <= band.pct * Absolute(old) <=> d <= Allowed(old, band, b)
<1>1. b \in {"abs", "pct"} /\ band[b] # None
  BY DEF Bounds
<1>2. b = "abs" => band.abs \in Nat
  BY <1>1 DEF IsBand
<1>3. ASSUME b = "pct" PROVE band.pct \in Nat
  BY <1>1, <1>3 DEF IsBand
<1>4. ASSUME b = "pct"
      PROVE  /\ Allowed(old, band, b) \in Nat
             /\ old = 0 => Allowed(old, band, b) = 0
             /\ \A d \in Nat : 100 * d <= band.pct * Absolute(old) <=> d <= Allowed(old, band, b)
  <2> DEFINE m == band.pct * Absolute(old)
  <2>1. m \in Nat /\ (old = 0 => m = 0)
    BY <1>3, <1>4, Products
  <2>2. Allowed(old, band, b) = m \div 100
    BY <1>4 DEF Allowed
  <2> HIDE DEF m
  <2>3. m \div 100 \in Nat /\ (m = 0 => m \div 100 = 0)
        /\ \A d \in Nat : 100 * d <= m <=> d <= m \div 100
    BY <2>1
  <2> QED BY <2>1, <2>2, <2>3 DEF m
<1>5. b = "abs" => Allowed(old, band, b) \in Nat
  BY <1>2 DEF Allowed
<1> QED BY <1>1, <1>4, <1>5

LEMMA SlackAllows ==
  ASSUME NEW old \in Int, NEW band, IsBand(band)
  PROVE  /\ Slack(old, band) \in Nat
         /\ \A d \in Nat : d <= Slack(old, band) <=>
              d = 0 \/ \E b \in Bounds(band) : d <= Allowed(old, band, b)
<1> DEFINE A(b) == IF b \in Bounds(band) THEN Allowed(old, band, b) ELSE 0
           T == {0} \cup {Allowed(old, band, b) : b \in Bounds(band)}
           n == A("abs") + A("pct")
<1>1. \A b \in Bounds(band) : b \in {"abs", "pct"} /\ Allowed(old, band, b) \in Nat
  BY BoundAllows
<1>2. A("abs") \in Nat /\ A("pct") \in Nat
  BY <1>1
<1>3. \A b \in Bounds(band) : Allowed(old, band, b) = A(b)
  OBVIOUS
<1> HIDE DEF A
<1>4. n \in Nat /\ T \in SUBSET (0..n) /\ T # {}
  <2>1. \A b \in Bounds(band) : Allowed(old, band, b) \in 0..n
    <3> TAKE b \in Bounds(band)
    <3>1. b = "abs" \/ b = "pct"
      BY <1>1
    <3> QED BY <1>2, <1>3, <3>1
  <2> QED BY <1>2, <2>1
<1> HIDE DEF n
<1>5. T = {0} \cup
             {IF b = "abs" THEN band.abs ELSE (band.pct * Absolute(old)) \div 100 : b \in Bounds(band)}
  BY DEF Allowed
<1>6. Slack(old, band) = Max(T)
  BY <1>5 DEF Slack
<1>7. \A x : x \in T <=> x = 0 \/ \E b \in Bounds(band) : x = Allowed(old, band, b)
  OBVIOUS
<1> HIDE DEF T
<1>8. Max(T) \in T /\ \A y \in T : Max(T) >= y
  BY <1>4, MaxOf
<1>0. Max(T) \in Nat
  <2>1. \A x \in 0..n : x \in Nat
    BY <1>4
  <2>2. Max(T) \in 0..n
    BY <1>4, <1>8
  <2> QED BY <2>1, <2>2
<1>9. ASSUME NEW d \in Nat
      PROVE  d <= Max(T) <=> d = 0 \/ \E b \in Bounds(band) : d <= Allowed(old, band, b)
  <2>1. d <= Max(T) => d = 0 \/ \E b \in Bounds(band) : d <= Allowed(old, band, b)
    <3>1. CASE Max(T) = 0
      BY <3>1
    <3>2. CASE Max(T) # 0
      BY <1>7, <1>8, <3>2
    <3> QED BY <3>1, <3>2
  <2>2. ASSUME NEW b \in Bounds(band), d <= Allowed(old, band, b) PROVE d <= Max(T)
    <3>1. Max(T) >= Allowed(old, band, b) /\ Allowed(old, band, b) \in Nat
      BY <1>1, <1>7, <1>8
    <3> QED BY <1>0, <2>2, <3>1
  <2> QED BY <1>0, <2>1, <2>2
<1> QED BY <1>0, <1>6, <1>9

\* Unless it misjudges one, WithinBand accepts the values of the interval, and no others.
LEMMA BandIsInterval ==
  ASSUME NEW old \in Int, NEW new \in Int, NEW band, IsBand(band), ~Misjudged(old, new, band)
  PROVE  WithinBand(old, new, band) <=> InInterval(old, new, band)
<1> DEFINE delta == new - old
           d == Absolute(delta)
           slack == Slack(old, band)
           Inside(b) == CASE b = "abs" -> d <= band.abs
                          [] b = "pct" /\ old # 0 -> WithinPct(d, Absolute(old), band.pct)
                          [] OTHER -> new = 0
<1>1. delta \in Int /\ d \in Nat /\ (d = 0 <=> delta = 0)
      /\ (delta >= 0 => d = delta) /\ (delta <= 0 => d = -delta)
  BY DEF Absolute
<1>2. ASSUME NEW b \in Bounds(band) PROVE Inside(b) <=> d = 0 \/ d <= Allowed(old, band, b)
  <2>0. b \in {"abs", "pct"} /\ Allowed(old, band, b) \in Nat
    BY BoundAllows
  <2>1. CASE b = "abs"
    <3>1. Inside(b) <=> d <= band.abs
      BY <2>1
    <3>2. Allowed(old, band, b) = band.abs
      BY <2>1 DEF Allowed
    <3> HIDE DEF Inside, d
    <3> QED BY <1>1, <2>0, <3>1, <3>2
  <2>2. CASE b = "pct" /\ old # 0
    <3>1. Inside(b) <=> 100 * d <= band.pct * Absolute(old)
      <4>1. Inside(b) <=> WithinPct(d, Absolute(old), band.pct)
        BY <2>2
      <4>2. <<d, Absolute(old), band.pct>> \notin Misrounded
        BY <2>2 DEF Misjudged
      <4> HIDE DEF Inside, d
      <4> QED BY <4>1, <4>2 DEF WithinPct
    <3> HIDE DEF Inside, d
    <3>2. Inside(b) <=> d <= Allowed(old, band, b)
      BY <1>1, <2>2, <3>1, BoundAllows
    <3> QED BY <1>1, <2>0, <3>2
  <2>3. CASE b = "pct" /\ old = 0
    <3>1. Inside(b) <=> new = 0
      BY <2>3
    <3>2. Allowed(old, band, b) = 0
      BY <2>3, BoundAllows
    <3>3. new = 0 <=> delta = 0
      BY <2>3
    <3> HIDE DEF Inside, d, delta
    <3> QED BY <1>1, <3>1, <3>2, <3>3
  <2> QED BY <2>0, <2>1, <2>2, <2>3
<1>3. WithinBand(old, new, band) <=>
        \/ band.direction = "min_only" /\ delta >= 0
        \/ band.direction = "max_only" /\ delta <= 0
        \/ Bounds(band) = {} /\ delta = 0
        \/ \E b \in Bounds(band) : Inside(b)
  BY DEF WithinBand
<1> HIDE DEF Inside
<1>4. slack \in Nat /\ (d <= slack <=> d = 0 \/ \E b \in Bounds(band) : d <= Allowed(old, band, b))
  BY <1>1, SlackAllows
<1>5. (\E b \in Bounds(band) : Inside(b)) \/ (Bounds(band) = {} /\ delta = 0) <=> d <= slack
  <2> HIDE DEF d, delta, slack
  <2> QED BY <1>1, <1>2, <1>4
<1>6. InInterval(old, new, band) <=>
        /\ band.direction = "min_only" \/ new <= old + slack
        /\ band.direction = "max_only" \/ new >= old - slack
  BY DEF InInterval
<1>7. /\ new <= old + slack <=> delta <= slack
      /\ new >= old - slack <=> delta >= -slack
  <2> HIDE DEF slack
  <2> QED BY <1>4
<1>8. band.direction \in {"both", "min_only", "max_only"}
  BY DEF IsBand
<1> HIDE DEF d, delta, slack
<1>9. d <= slack <=> delta <= slack /\ delta >= -slack
  BY <1>1, <1>4
<1>10. CASE band.direction = "min_only"
  BY <1>1, <1>3, <1>4, <1>5, <1>6, <1>7, <1>9, <1>10
<1>11. CASE band.direction = "max_only"
  BY <1>1, <1>3, <1>4, <1>5, <1>6, <1>7, <1>9, <1>11
<1>12. CASE band.direction = "both"
  BY <1>1, <1>3, <1>4, <1>5, <1>6, <1>7, <1>9, <1>12
<1> QED BY <1>8, <1>10, <1>11, <1>12
-----------------------------------------------------------------------------
(* The runs that a match leaves. *)

Starts(match) == match \cup {<<0, 0>>}
Ends(old, new, match) == match \cup {<<Len(old) + 1, Len(new) + 1>>}
BeforeOf(match, p) == {q \in Starts(match) : q[1] < p[1]}
LastBefore(match, p) == CHOOSE q \in BeforeOf(match, p) : \A r \in BeforeOf(match, p) : r[1] <= q[1]
RunTo(match, p) ==
  LET q == LastBefore(match, p)
  IN  [i1 |-> q[1], i2 |-> p[1] - 1, j1 |-> q[2], j2 |-> p[2] - 1]
NotEmpty(r) == r.i1 < r.i2 \/ r.j1 < r.j2
Found(old, new, match) == {r \in {RunTo(match, p) : p \in Ends(old, new, match)} : NotEmpty(r)}

LEMMA RunsAreFound ==
  ASSUME NEW old, NEW new, NEW match
  PROVE  Runs(old, new, match) = InOrder(Found(old, new, match))
BY DEF Runs, Found, RunTo, LastBefore, BeforeOf, Starts, Ends, NotEmpty

Text == Seq(TextLine)

LEMMA LinesOf ==
  ASSUME NEW text \in Text
  PROVE  Len(text) \in Nat /\ DOMAIN text = 1..Len(text) /\ \A i \in 1..Len(text) : text[i] \in TextLine
BY DEF Text

\* Matched lines are equal, and in one order on both sides.
LEMMA MatchPairs ==
  ASSUME NEW old \in Text, NEW new \in Text, NEW match \in Matches(old, new)
  PROVE  /\ match \in SUBSET ((1..Len(old)) \X (1..Len(new)))
         /\ \A p \in match : old[p[1]] = new[p[2]]
         /\ \A p, q \in match : p = q \/ (p[1] < q[1] /\ p[2] < q[2]) \/ (q[1] < p[1] /\ q[2] < p[2])
<1>1. CASE old = new
  <2>1. match = {<<i, i>> : i \in 1..Len(old)}
    BY <1>1 DEF Matches
  <2>2. \A p \in match : \E i \in 1..Len(old) : p = <<i, i>>
    BY <2>1
  <2>3. \A i, j \in 1..Len(old) : i = j \/ i < j \/ j < i
    BY LinesOf
  <2> QED BY <1>1, <2>2, <2>3
<1>2. CASE old # new
  BY <1>2 DEF Matches
<1> QED BY <1>1, <1>2

\* So are, with them, the starts and the ends of the texts.
Point(p) == p \in Nat \X Nat
LEMMA MatchChain ==
  ASSUME NEW old \in Text, NEW new \in Text, NEW match \in Matches(old, new)
  PROVE  /\ \A p \in Starts(match) : Point(p) /\ p[1] <= Len(old) /\ p[2] <= Len(new)
         /\ \A p \in Ends(old, new, match) :
              Point(p) /\ 1 <= p[1] /\ 1 <= p[2] /\ p[1] <= Len(old) + 1 /\ p[2] <= Len(new) + 1
         /\ \A p, q \in Starts(match) \cup Ends(old, new, match) :
              p = q \/ (p[1] < q[1] /\ p[2] < q[2]) \/ (q[1] < p[1] /\ q[2] < p[2])
<1> DEFINE L == Len(old)
           M == Len(new)
<1>0. L \in Nat /\ M \in Nat
  BY LinesOf
<1> HIDE DEF L, M
<1>1. \A p \in match : p \in (1..L) \X (1..M) /\ p[1] \in 1..L /\ p[2] \in 1..M
  BY MatchPairs DEF L, M
<1>2. \A p \in Starts(match) : p = <<0, 0>> \/ p \in match
  BY DEF Starts
<1>3. \A p \in Ends(old, new, match) : p = <<L + 1, M + 1>> \/ p \in match
  BY DEF Ends, L, M
<1>4. \A p \in Starts(match) : Point(p) /\ p[1] <= L /\ p[2] <= M
  BY <1>0, <1>1, <1>2 DEF Point
<1>5. \A p \in Ends(old, new, match) :
        Point(p) /\ 1 <= p[1] /\ 1 <= p[2] /\ p[1] <= L + 1 /\ p[2] <= M + 1
  BY <1>0, <1>1, <1>3 DEF Point
<1>6. \A p, q \in match : p = q \/ (p[1] < q[1] /\ p[2] < q[2]) \/ (q[1] < p[1] /\ q[2] < p[2])
  BY MatchPairs
<1>7. ASSUME NEW p \in Starts(match) \cup Ends(old, new, match),
             NEW q \in Starts(match) \cup Ends(old, new, match)
      PROVE  p = q \/ (p[1] < q[1] /\ p[2] < q[2]) \/ (q[1] < p[1] /\ q[2] < p[2])
  <2>1. /\ p \in match \/ p = <<0, 0>> \/ p = <<L + 1, M + 1>>
        /\ q \in match \/ q = <<0, 0>> \/ q = <<L + 1, M + 1>>
    BY <1>2, <1>3
  <2>2. \A m \in match : 0 < m[1] /\ 0 < m[2] /\ m[1] < L + 1 /\ m[2] < M + 1
    BY <1>0, <1>1
  <2> QED BY <1>0, <1>6, <2>1, <2>2
<1> QED BY <1>4, <1>5, <1>7 DEF L, M

LEMMA LastIsBefore ==
  ASSUME NEW old \in Text, NEW new \in Text, NEW match \in Matches(old, new),
         NEW p \in Ends(old, new, match)
  PROVE  /\ LastBefore(match, p) \in Starts(match)
         /\ LastBefore(match, p)[1] < p[1] /\ LastBefore(match, p)[2] < p[2]
         /\ \A q \in Starts(match) : q[1] < p[1] =>
              q[1] <= LastBefore(match, p)[1] /\ q[2] <= LastBefore(match, p)[2]
<1> DEFINE B == BeforeOf(match, p)
           T == {q[1] : q \in B}
<1>1. \A q \in Starts(match) : Point(q) /\ q[1] <= Len(old)
  BY MatchChain
<1>2. Point(p) /\ 1 <= p[1] /\ p[1] \in Nat
  BY MatchChain DEF Point
<1>3. <<0, 0>> \in B
  BY <1>2 DEF BeforeOf, Starts
<1>4. \A q \in B : q \in Starts(match) /\ q[1] < p[1] /\ q[1] \in Nat /\ q[2] \in Nat
  BY <1>1 DEF BeforeOf, Point
<1>5. T \in SUBSET (0..p[1])
  BY <1>2, <1>4
<1>6. T # {}
  BY <1>3
<1> HIDE DEF B
<1>7. \E q \in B : \A r \in B : r[1] <= q[1]
  <2>1. \A r \in B : r[1] \in T
    OBVIOUS
  <2>2. \A x \in T : \E q \in B : x = q[1]
    OBVIOUS
  <2> HIDE DEF T
  <2>3. Max(T) \in T /\ \A y \in T : Max(T) >= y
    BY <1>2, <1>5, <1>6, MaxOf
  <2>4. PICK q \in B : Max(T) = q[1]
    BY <2>2, <2>3
  <2> QED BY <1>4, <2>1, <2>3, <2>4
<1>8. LastBefore(match, p) \in B /\ \A r \in B : r[1] <= LastBefore(match, p)[1]
  BY <1>7 DEF LastBefore, B
<1> DEFINE last == LastBefore(match, p)
<1> HIDE DEF last
<1>9. last \in Starts(match) /\ last[1] < p[1] /\ last[1] \in Nat /\ last[2] \in Nat
  BY <1>4, <1>8 DEF last
<1>10. last[2] < p[2]
  BY <1>2, <1>9, MatchChain DEF Point
<1>11. ASSUME NEW q \in Starts(match), q[1] < p[1] PROVE q[1] <= last[1] /\ q[2] <= last[2]
  <2>1. q \in B
    BY <1>11 DEF B, BeforeOf
  <2>2. q[1] <= last[1] /\ q[1] \in Nat /\ q[2] \in Nat
    BY <1>4, <1>8, <2>1 DEF last
  <2>3. q = last \/ (q[1] < last[1] /\ q[2] < last[2]) \/ (last[1] < q[1] /\ last[2] < q[2])
    BY <1>9, MatchChain
  <2> QED BY <1>9, <2>2, <2>3
<1> QED BY <1>9, <1>10, <1>11 DEF last

Spans == [i1 : Nat, i2 : Nat, j1 : Nat, j2 : Nat]
IsRun(r, old, new) ==
  /\ r \in Spans /\ r.i1 <= r.i2 /\ r.j1 <= r.j2 /\ NotEmpty(r)
  /\ r.i2 <= Len(old) /\ r.j2 <= Len(new)

LEMMA RunToEnd ==
  ASSUME NEW old \in Text, NEW new \in Text, NEW match \in Matches(old, new),
         NEW p \in Ends(old, new, match), NEW r, r = RunTo(match, p)
  PROVE  /\ r \in Spans /\ r.i1 <= r.i2 /\ r.j1 <= r.j2 /\ r.i2 <= Len(old) /\ r.j2 <= Len(new)
         /\ LastBefore(match, p) = <<r.i1, r.j1>> /\ p = <<r.i2 + 1, r.j2 + 1>>
<1> DEFINE q == LastBefore(match, p)
<1>1. q \in Starts(match) /\ q[1] < p[1] /\ q[2] < p[2]
  BY LastIsBefore
<1>2. r = [i1 |-> q[1], i2 |-> p[1] - 1, j1 |-> q[2], j2 |-> p[2] - 1]
  BY DEF RunTo
<1> HIDE DEF q
<1>3. Point(q) /\ Point(p) /\ 1 <= p[1] /\ 1 <= p[2] /\ p[1] <= Len(old) + 1 /\ p[2] <= Len(new) + 1
  BY <1>1, MatchChain
<1>4. q = <<q[1], q[2]>> /\ p = <<p[1], p[2]>> /\ {q[1], q[2], p[1], p[2]} \subseteq Nat
  BY <1>3 DEF Point
<1>5. r.i1 = q[1] /\ r.i2 = p[1] - 1 /\ r.j1 = q[2] /\ r.j2 = p[2] - 1
  BY <1>2
<1>6. p[1] - 1 \in Nat /\ p[2] - 1 \in Nat
  BY <1>3, <1>4
<1>7. r \in Spans
  BY <1>2, <1>4, <1>6 DEF Spans
<1>8. Len(old) \in Nat /\ Len(new) \in Nat
  BY LinesOf
<1>9. q = <<r.i1, r.j1>> /\ p = <<r.i2 + 1, r.j2 + 1>>
  BY <1>4, <1>5
<1>10. r.i1 <= r.i2 /\ r.j1 <= r.j2 /\ r.i2 <= Len(old) /\ r.j2 <= Len(new)
  BY <1>1, <1>3, <1>4, <1>5, <1>8
<1> QED BY <1>7, <1>9, <1>10 DEF q

LEMMA FoundAreRuns ==
  ASSUME NEW old \in Text, NEW new \in Text, NEW match \in Matches(old, new)
  PROVE  \A r \in Found(old, new, match) :
           /\ IsRun(r, old, new)
           /\ <<r.i1, r.j1>> \in Starts(match) /\ <<r.i2 + 1, r.j2 + 1>> \in Ends(old, new, match)
           /\ LastBefore(match, <<r.i2 + 1, r.j2 + 1>>) = <<r.i1, r.j1>>
<1> SUFFICES ASSUME NEW r \in Found(old, new, match)
             PROVE  /\ IsRun(r, old, new)
                    /\ <<r.i1, r.j1>> \in Starts(match) /\ <<r.i2 + 1, r.j2 + 1>> \in Ends(old, new, match)
                    /\ LastBefore(match, <<r.i2 + 1, r.j2 + 1>>) = <<r.i1, r.j1>>
  OBVIOUS
<1>1. PICK p \in Ends(old, new, match) : r = RunTo(match, p)
  BY DEF Found
<1>2. NotEmpty(r)
  BY DEF Found
<1>3. LastBefore(match, p) \in Starts(match)
  BY LastIsBefore
<1>4. /\ r \in Spans /\ r.i1 <= r.i2 /\ r.j1 <= r.j2 /\ r.i2 <= Len(old) /\ r.j2 <= Len(new)
      /\ LastBefore(match, p) = <<r.i1, r.j1>> /\ p = <<r.i2 + 1, r.j2 + 1>>
  BY <1>1, RunToEnd
<1> QED BY <1>2, <1>3, <1>4 DEF IsRun

\* A run that starts later in a text starts after the other ends.
LEMMA FoundInOrder ==
  ASSUME NEW old \in Text, NEW new \in Text, NEW match \in Matches(old, new),
         NEW r \in Found(old, new, match), NEW s \in Found(old, new, match), r # s
  PROVE  \/ r.i2 < s.i1 /\ r.j2 < s.j1 /\ Place(r) < Place(s)
         \/ s.i2 < r.i1 /\ s.j2 < r.j1 /\ Place(s) < Place(r)
<1> DEFINE p(x) == <<x.i2 + 1, x.j2 + 1>>
<1>1. \A x \in {r, s} :
        /\ x \in Spans /\ x.i1 <= x.i2 /\ x.j1 <= x.j2
        /\ p(x) \in Ends(old, new, match) /\ LastBefore(match, p(x)) = <<x.i1, x.j1>>
  BY FoundAreRuns DEF IsRun
<1>2. \A x \in {r, s} : x.i1 \in Nat /\ x.i2 \in Nat /\ x.j1 \in Nat /\ x.j2 \in Nat
                        /\ x = [i1 |-> x.i1, i2 |-> x.i2, j1 |-> x.j1, j2 |-> x.j2]
  BY <1>1 DEF Spans
<1>3. ASSUME NEW x \in {r, s}, NEW y \in {r, s}, p(x)[1] < p(y)[1]
      PROVE  x.i2 < y.i1 /\ x.j2 < y.j1 /\ Place(x) < Place(y)
  <2>1. p(y) \in Ends(old, new, match) /\ p(x) \in Ends(old, new, match)
    BY <1>1
  <2>2. p(y)[1] <= Len(old) + 1
    BY <2>1, MatchChain
  <2>3. p(x) # <<Len(old) + 1, Len(new) + 1>>
    BY <1>2, <1>3, <2>2, LinesOf
  <2>4. p(x) \in Starts(match)
    BY <2>1, <2>3 DEF Ends, Starts
  <2>5. p(x)[1] <= y.i1 /\ p(x)[2] <= y.j1
    <3>1. p(x)[1] <= LastBefore(match, p(y))[1] /\ p(x)[2] <= LastBefore(match, p(y))[2]
      <4> HIDE DEF p
      <4> QED BY <1>3, <2>1, <2>4, LastIsBefore
    <3>2. LastBefore(match, p(y)) = <<y.i1, y.j1>>
      BY <1>1
    <3> HIDE DEF p
    <3> QED BY <3>1, <3>2
  <2>6. x.i2 + 1 <= y.i1 /\ x.j2 + 1 <= y.j1
    BY <2>5
  <2>7. y.i1 <= y.i2 /\ y.j1 <= y.j2
    BY <1>1
  <2> QED BY <1>2, <2>6, <2>7 DEF Place
<1>4. p(r) # p(s)
  <2> SUFFICES ASSUME p(r) = p(s) PROVE FALSE
    OBVIOUS
  <2>1. r.i2 = s.i2 /\ r.j2 = s.j2
    BY <1>2
  <2>2. <<r.i1, r.j1>> = <<s.i1, s.j1>>
    <3> HIDE DEF p
    <3> QED BY <1>1
  <2>3. r.i1 = s.i1 /\ r.j1 = s.j1
    BY <2>2
  <2> QED BY <1>2, <2>1, <2>3
<1>5. p(r)[1] < p(s)[1] \/ p(s)[1] < p(r)[1]
  <2>1. p(r) \in Ends(old, new, match) /\ p(s) \in Ends(old, new, match)
    BY <1>1
  <2> HIDE DEF p
  <2> QED BY <1>4, <2>1, MatchChain
<1> HIDE DEF p
<1> QED BY <1>3, <1>5

LEMMA FoundPlaced ==
  ASSUME NEW old \in Text, NEW new \in Text, NEW match \in Matches(old, new)
  PROVE  Placed(Found(old, new, match))
<1> DEFINE F == Found(old, new, match)
           f == [p \in Ends(old, new, match) |-> RunTo(match, p)]
<1>1. \A r \in F : Place(r) \in Nat
  <2> SUFFICES ASSUME NEW r \in F PROVE Place(r) \in Nat
    OBVIOUS
  <2>1. r \in Spans
    BY FoundAreRuns DEF IsRun
  <2>2. r.i2 \in Nat /\ r.j2 \in Nat
    BY <2>1 DEF Spans
  <2> QED BY <2>2 DEF Place
<1>2. \A r, s \in F : r # s => Place(r) # Place(s)
  BY <1>1, FoundInOrder
<1>3. IsFiniteSet(F)
  <2>1. IsFiniteSet((1..Len(old)) \X (1..Len(new)))
    <3>1. Len(old) \in Int /\ Len(new) \in Int
      BY LinesOf
    <3>2. IsFiniteSet(1..Len(old)) /\ IsFiniteSet(1..Len(new))
      BY <3>1, FS_Interval
    <3> QED BY <3>2, FS_Product
  <2>2. match \in SUBSET ((1..Len(old)) \X (1..Len(new)))
    BY MatchPairs
  <2>3. IsFiniteSet(match)
    BY <2>1, <2>2, FS_Subset
  <2>4. IsFiniteSet(Ends(old, new, match))
    BY <2>3, FS_AddElement DEF Ends
  <2>5. DOMAIN f = Ends(old, new, match)
    OBVIOUS
  <2>6. F \in SUBSET {f[x] : x \in DOMAIN f}
    BY DEF Found
  <2> HIDE DEF f, F
  <2>7. IsFiniteSet({f[x] : x \in DOMAIN f})
    BY <2>4, <2>5, FiniteValues
  <2> QED BY <2>6, <2>7, FS_Subset
<1> QED BY <1>1, <1>2, <1>3 DEF Placed

\* After a start comes a matched line, the end of the texts, or a run.
LEMMA EveryStart ==
  ASSUME NEW old \in Text, NEW new \in Text, NEW match \in Matches(old, new),
         NEW c \in Starts(match)
  PROVE  \/ <<c[1] + 1, c[2] + 1>> \in Ends(old, new, match)
         \/ \E r \in Found(old, new, match) : r.i1 = c[1] /\ r.j1 = c[2]
<1> DEFINE T == {n \in Nat : \E p \in Ends(old, new, match) : p[1] = n /\ c[1] < n}
<1>0. c[1] \in Nat /\ c[2] \in Nat /\ c[1] <= Len(old) /\ c[2] <= Len(new) /\ c = <<c[1], c[2]>>
  BY MatchChain DEF Point
<1>1. Len(old) \in Nat /\ Len(new) \in Nat
  BY LinesOf
<1>2. \A p \in Ends(old, new, match) : p[1] \in Nat /\ p[2] \in Nat /\ p = <<p[1], p[2]>>
  BY MatchChain DEF Point
<1>3. T \in SUBSET Nat
  OBVIOUS
<1>4. Len(old) + 1 \in T
  <2>1. <<Len(old) + 1, Len(new) + 1>> \in Ends(old, new, match)
    BY DEF Ends
  <2>2. <<Len(old) + 1, Len(new) + 1>>[1] = Len(old) + 1
    OBVIOUS
  <2>3. Len(old) + 1 \in Nat /\ c[1] < Len(old) + 1
    BY <1>0, <1>1
  <2> QED BY <2>1, <2>2, <2>3
<1>5. PICK n \in T : \A m \in T : n <= m
  <2> HIDE DEF T
  <2> QED BY <1>3, <1>4, LeastNat
<1>6. PICK p \in Ends(old, new, match) : p[1] = n /\ c[1] < n
  OBVIOUS
<1>7. \A m \in Ends(old, new, match) : c[1] < m[1] => p[1] <= m[1]
  BY <1>2, <1>5, <1>6
<1>8. LastBefore(match, p) = c
  <2> DEFINE q == LastBefore(match, p)
  <2>1. q \in Starts(match) /\ q[1] < p[1] /\ c[1] <= q[1]
    BY <1>6, LastIsBefore
  <2>2. c[1] < q[1] => q \in Ends(old, new, match)
    <3>1. q = <<0, 0>> \/ q \in match
      BY <2>1 DEF Starts
    <3> HIDE DEF q
    <3> QED BY <1>0, <3>1 DEF Ends
  <2>3. q[1] \in Nat
    BY <2>1, MatchChain DEF Point
  <2>4. p[1] \in Nat
    BY <1>2
  <2>5. ~ (c[1] < q[1])
    BY <1>7, <2>1, <2>2, <2>3, <2>4
  <2>6. q = c \/ c[1] < q[1] \/ q[1] < c[1]
    BY <2>1, MatchChain
  <2> HIDE DEF q
  <2>7. q = c
    BY <1>0, <2>1, <2>3, <2>5, <2>6
  <2> QED BY <2>7 DEF q
<1> DEFINE r == RunTo(match, p)
<1>9. /\ r \in Spans /\ r.i1 <= r.i2 /\ r.j1 <= r.j2
      /\ c = <<r.i1, r.j1>> /\ p = <<r.i2 + 1, r.j2 + 1>>
  BY <1>8, RunToEnd
<1>10. NotEmpty(r) => r \in Found(old, new, match)
  BY DEF Found
<1> HIDE DEF r
<1>11. r.i1 = c[1] /\ r.j1 = c[2]
  BY <1>9
<1>12. ~NotEmpty(r) => r.i2 = r.i1 /\ r.j2 = r.j1
  BY <1>9 DEF NotEmpty, Spans
<1> QED BY <1>6, <1>9, <1>10, <1>11, <1>12
-----------------------------------------------------------------------------
(* Between the runs the two texts have the same lines. *)

\* Where run k ends and the next one starts, in the old and the new text.
From(rs, k) == IF k = 0 THEN <<0, 0>> ELSE <<rs[k].i2, rs[k].j2>>
To(rs, k, old, new) ==
  IF k = Len(rs) THEN <<Len(old), Len(new)>> ELSE <<rs[k + 1].i1, rs[k + 1].j1>>
SameLines(a, b, old, new) ==
  /\ a[1] <= b[1] /\ b[1] - a[1] = b[2] - a[2]
  /\ \A x \in 1..(b[1] - a[1]) : old[a[1] + x] = new[a[2] + x]

Aligned(rs, old, new) ==
  /\ rs \in Seq(Spans)
  /\ \A k \in 1..Len(rs) : IsRun(rs[k], old, new)
  /\ \A k \in 0..Len(rs) : SameLines(From(rs, k), To(rs, k, old, new), old, new)

\* From a start, or a run's end, on: matched lines, as long as no run starts.
LEMMA MatchedOn ==
  ASSUME NEW old \in Text, NEW new \in Text, NEW match \in Matches(old, new),
         NEW a1 \in Nat, NEW a2 \in Nat, NEW b1 \in Nat, a1 <= b1, b1 <= Len(old),
         <<a1, a2>> \in Starts(match) \/ <<a1 + 1, a2 + 1>> \in Ends(old, new, match),
         \A r \in Found(old, new, match) : ~ (a1 <= r.i1 /\ a2 <= r.j1 /\ r.i1 < b1)
  PROVE  \A x \in 1..(b1 - a1) : <<a1 + x, a2 + x>> \in match
<1> DEFINE T == {x \in Nat : x = 0 \/ <<a1 + x, a2 + x>> \in match}
           L == Len(old)
<1>0. L \in Nat /\ b1 <= L /\ b1 - a1 \in Nat
  BY LinesOf
<1> HIDE DEF L
<1>1. \A i, j \in Nat : <<i, j>> \in Ends(old, new, match) /\ i <= L => <<i, j>> \in match
  <2> TAKE i, j \in Nat
  <2>1. i <= L => <<i, j>> # <<L + 1, Len(new) + 1>>
    BY <1>0
  <2> QED BY <2>1 DEF Ends, L
<1>2. ASSUME NEW x \in Nat, x < b1 - a1, x \in T PROVE x + 1 \in T
  <2>1. a1 + x \in Nat /\ a2 + x \in Nat /\ a1 + x < b1 /\ a1 + x + 1 <= L
    BY <1>0, <1>2
  <2>2. <<a1 + x, a2 + x>> \in Starts(match) \/ <<a1 + x + 1, a2 + x + 1>> \in Ends(old, new, match)
    <3>1. CASE x = 0
      BY <3>1
    <3>2. CASE x # 0
      BY <1>2, <3>2 DEF Starts
    <3> QED BY <3>1, <3>2
  <2>3. <<a1 + x + 1, a2 + x + 1>> \in Ends(old, new, match)
    <3> SUFFICES ASSUME <<a1 + x, a2 + x>> \in Starts(match)
                 PROVE  <<a1 + x + 1, a2 + x + 1>> \in Ends(old, new, match)
      BY <2>2
    <3>1. ASSUME NEW r \in Found(old, new, match), r.i1 = a1 + x, r.j1 = a2 + x PROVE FALSE
      BY <2>1, <3>1
    <3> DEFINE c == <<a1 + x, a2 + x>>
    <3>2. c[1] = a1 + x /\ c[2] = a2 + x /\ c \in Starts(match)
      OBVIOUS
    <3> HIDE DEF c
    <3>3. \/ <<c[1] + 1, c[2] + 1>> \in Ends(old, new, match)
          \/ \E r \in Found(old, new, match) : r.i1 = c[1] /\ r.j1 = c[2]
      BY <3>2, EveryStart
    <3> QED BY <3>1, <3>2, <3>3
  <2>4. <<a1 + (x + 1), a2 + (x + 1)>> \in match
    <3>1. a1 + x + 1 = a1 + (x + 1) /\ a2 + x + 1 = a2 + (x + 1)
      BY <1>2
    <3> QED BY <1>1, <2>1, <2>3, <3>1
  <2> QED BY <2>4
<1>3. 0 \in T
  OBVIOUS
<1> HIDE DEF T
<1>4. \A x \in 0..(b1 - a1) : x \in T
  BY <1>0, <1>2, <1>3, NatUpTo
<1>5. \A x \in 1..(b1 - a1) : x \in 0..(b1 - a1) /\ x # 0
  BY <1>0
<1> QED BY <1>4, <1>5 DEF T

\* A gap from a start or a run's end to the next run or the texts' ends.
Gap(old, new, match, a1, a2, b1, b2) ==
  /\ a1 <= b1 /\ b1 <= Len(old)
  /\ \/ <<a1, a2>> \in Starts(match)
     \/ /\ <<a1 + 1, a2 + 1>> \in Ends(old, new, match)
        /\ a1 < b1 \/ (b1 = Len(old) /\ b2 = Len(new))
  /\ \A r \in Found(old, new, match) : ~ (a1 <= r.i1 /\ a2 <= r.j1 /\ r.i1 < b1)
  /\ \/ <<b1, b2>> \in Starts(match)
     \/ /\ b1 = Len(old) /\ b2 = Len(new)
        /\ \A r \in Found(old, new, match) : ~ (a1 <= r.i1 /\ a2 <= r.j1)

LEMMA GapCloses ==
  ASSUME NEW old \in Text, NEW new \in Text, NEW match \in Matches(old, new),
         NEW a1 \in Nat, NEW a2 \in Nat, NEW b1 \in Nat, NEW b2 \in Nat,
         Gap(old, new, match, a1, a2, b1, b2)
  PROVE  SameLines(<<a1, a2>>, <<b1, b2>>, old, new)
<1>g. /\ a1 <= b1 /\ b1 <= Len(old)
      /\ \/ <<a1, a2>> \in Starts(match)
         \/ /\ <<a1 + 1, a2 + 1>> \in Ends(old, new, match)
            /\ a1 < b1 \/ (b1 = Len(old) /\ b2 = Len(new))
      /\ \A r \in Found(old, new, match) : ~ (a1 <= r.i1 /\ a2 <= r.j1 /\ r.i1 < b1)
      /\ \/ <<b1, b2>> \in Starts(match)
         \/ /\ b1 = Len(old) /\ b2 = Len(new)
            /\ \A r \in Found(old, new, match) : ~ (a1 <= r.i1 /\ a2 <= r.j1)
  BY DEF Gap
<1> DEFINE g == b1 - a1
           at == <<b1, a2 + g>>
<1>0. g \in Nat /\ a1 + g = b1 /\ a2 + g \in Nat
  BY <1>g
<1>1. \A x \in 1..g : <<a1 + x, a2 + x>> \in match
  BY <1>g, MatchedOn
<1>2. \A x \in 1..g : old[a1 + x] = new[a2 + x]
  <2> TAKE x \in 1..g
  <2>1. <<a1 + x, a2 + x>> \in match
    BY <1>1
  <2>2. \A p \in match : old[p[1]] = new[p[2]]
    BY MatchPairs
  <2> QED BY <2>1, <2>2
<1>3. at[1] = b1 /\ at[2] = a2 + g
  OBVIOUS
<1>4. at \in Starts(match) \/ (g = 0 /\ b1 = Len(old) /\ b2 = Len(new)
                                   /\ <<a1 + 1, a2 + 1>> \in Ends(old, new, match))
  <2>1. CASE g = 0
    <3>1. a1 = b1 /\ a2 + g = a2
      BY <1>g, <2>1
    <3> QED BY <1>g, <2>1, <3>1
  <2>2. CASE g # 0
    <3>1. g \in 1..g
      BY <1>0, <2>2
    <3>2. at \in match
      BY <1>0, <1>1, <3>1
    <3> QED BY <3>2 DEF Starts
  <2> QED BY <2>1, <2>2
<1> HIDE DEF g, at
<1>5. \A p, q \in Starts(match) \cup Ends(old, new, match) : p[1] = q[1] => p[2] = q[2]
  <2> TAKE p, q \in Starts(match) \cup Ends(old, new, match)
  <2>1. p = q \/ p[1] < q[1] \/ q[1] < p[1]
    BY MatchChain
  <2>2. p[1] \in Nat /\ q[1] \in Nat
    BY MatchChain DEF Point
  <2> QED BY <2>1, <2>2
<1>6. a2 + g = b2
  <2>1. CASE <<b1, b2>> \in Starts(match) /\ at \in Starts(match)
    <3>1. <<b1, b2>>[1] = b1 /\ <<b1, b2>>[2] = b2
      OBVIOUS
    <3> QED BY <1>3, <1>5, <2>1, <3>1
  <2>2. CASE b1 = Len(old) /\ b2 = Len(new) /\ <<b1 + 1, a2 + g + 1>> \in Ends(old, new, match)
    <3>1. <<b1 + 1, b2 + 1>> \in Ends(old, new, match)
      BY <2>2 DEF Ends
    <3>2. /\ <<b1 + 1, b2 + 1>>[1] = b1 + 1 /\ <<b1 + 1, b2 + 1>>[2] = b2 + 1
          /\ <<b1 + 1, a2 + g + 1>>[1] = b1 + 1 /\ <<b1 + 1, a2 + g + 1>>[2] = a2 + g + 1
      OBVIOUS
    <3>3. b2 + 1 = a2 + g + 1
      BY <1>5, <2>2, <3>1, <3>2
    <3> QED BY <1>0, <3>3
  <2>3. ASSUME at \in Starts(match), b1 = Len(old), b2 = Len(new),
               \A r \in Found(old, new, match) : ~ (a1 <= r.i1 /\ a2 <= r.j1)
        PROVE  <<b1 + 1, a2 + g + 1>> \in Ends(old, new, match)
    <3>1. ASSUME NEW r \in Found(old, new, match), r.i1 = b1, r.j1 = a2 + g PROVE FALSE
      <4>1. a1 <= b1 /\ a2 <= a2 + g
        BY <1>0
      <4> QED BY <2>3, <3>1, <4>1
    <3>2. \/ <<at[1] + 1, at[2] + 1>> \in Ends(old, new, match)
          \/ \E r \in Found(old, new, match) : r.i1 = at[1] /\ r.j1 = at[2]
      BY <2>3, EveryStart
    <3> QED BY <1>3, <3>1, <3>2
  <2>4. ASSUME g = 0, <<a1 + 1, a2 + 1>> \in Ends(old, new, match)
        PROVE  <<b1 + 1, a2 + g + 1>> \in Ends(old, new, match)
    <3>1. a1 + 1 = b1 + 1 /\ a2 + 1 = a2 + g + 1
      BY <1>0, <2>4
    <3> QED BY <2>4, <3>1
  <2> QED BY <1>g, <1>4, <2>1, <2>2, <2>3, <2>4
<1>7. b1 - a1 = b2 - a2
  BY <1>0, <1>6
<1> QED BY <1>g, <1>2, <1>7 DEF g, SameLines

Chained(rs, F) ==
  /\ rs \in Seq(F) /\ \A i, j \in 1..Len(rs) : i < j => Place(rs[i]) < Place(rs[j])
  /\ \A r \in F : \E i \in 1..Len(rs) : rs[i] = r

LEMMA ChainedRuns ==
  ASSUME NEW old \in Text, NEW new \in Text, NEW match \in Matches(old, new),
         NEW rs, Chained(rs, Found(old, new, match))
  PROVE  /\ Len(rs) \in Nat
         /\ \A i \in 1..Len(rs) : rs[i] \in Found(old, new, match)
         /\ \A i, j \in 1..Len(rs) : i < j => rs[i].i2 < rs[j].i1 /\ rs[i].j2 < rs[j].j1
<1> DEFINE F == Found(old, new, match)
<1>1. rs \in Seq(F)
  BY DEF Chained
<1>2. Len(rs) \in Nat /\ \A i \in 1..Len(rs) : rs[i] \in F
  BY <1>1, LenProperties
<1>3. ASSUME NEW i \in 1..Len(rs), NEW j \in 1..Len(rs), i < j
      PROVE  rs[i].i2 < rs[j].i1 /\ rs[i].j2 < rs[j].j1
  <2>1. Place(rs[i]) < Place(rs[j])
    BY <1>3 DEF Chained
  <2>2. Place(rs[i]) \in Nat /\ Place(rs[j]) \in Nat
    BY <1>2, FoundPlaced DEF Placed
  <2>3. ~ (Place(rs[j]) < Place(rs[i])) /\ Place(rs[i]) # Place(rs[j])
    BY <2>1, <2>2
  <2>4. rs[i] # rs[j]
    BY <2>3
  <2> QED BY <1>2, <2>3, <2>4, FoundInOrder
<1> QED BY <1>2, <1>3

LEMMA GapsAligned ==
  ASSUME NEW old \in Text, NEW new \in Text, NEW match \in Matches(old, new),
         NEW rs, Chained(rs, Found(old, new, match)), NEW k \in Nat, k <= Len(rs)
  PROVE  SameLines(From(rs, k), To(rs, k, old, new), old, new)
<1> DEFINE n == Len(rs)
           next == k + 1
           a == From(rs, k)
           b == To(rs, k, old, new)
<1>1. /\ n \in Nat /\ \A i \in 1..n : rs[i] \in Found(old, new, match)
      /\ \A i, j \in 1..n : i < j => rs[i].i2 < rs[j].i1 /\ rs[i].j2 < rs[j].j1
  BY ChainedRuns
<1>2. n \in Nat /\ k <= n /\ next \in Nat /\ (k # 0 => k \in 1..n) /\ (k # n => next \in 1..n /\ k < next)
  BY <1>1
<1>3. Len(old) \in Nat /\ Len(new) \in Nat
  BY LinesOf
<1>4. /\ k = 0 => a[1] = 0 /\ a[2] = 0
      /\ k # 0 => a[1] = rs[k].i2 /\ a[2] = rs[k].j2
      /\ k = n => b[1] = Len(old) /\ b[2] = Len(new)
      /\ k # n => b[1] = rs[next].i1 /\ b[2] = rs[next].j1
  BY DEF From, To
<1> HIDE DEF n, next, a, b
<1>5. ASSUME NEW i \in 1..n
      PROVE  /\ rs[i].i1 \in Nat /\ rs[i].i2 \in Nat /\ rs[i].j1 \in Nat /\ rs[i].j2 \in Nat
             /\ rs[i].i1 <= rs[i].i2 /\ rs[i].j1 <= rs[i].j2
             /\ rs[i].i1 < rs[i].i2 \/ rs[i].j1 < rs[i].j2
             /\ rs[i].i2 <= Len(old) /\ rs[i].j2 <= Len(new)
             /\ <<rs[i].i1, rs[i].j1>> \in Starts(match)
             /\ <<rs[i].i2 + 1, rs[i].j2 + 1>> \in Ends(old, new, match)
  <2>1. /\ IsRun(rs[i], old, new) /\ <<rs[i].i1, rs[i].j1>> \in Starts(match)
        /\ <<rs[i].i2 + 1, rs[i].j2 + 1>> \in Ends(old, new, match)
    BY <1>1, FoundAreRuns
  <2> QED BY <2>1 DEF IsRun, Spans, NotEmpty
<1>6. a[1] \in Nat /\ a[2] \in Nat /\ a[1] <= Len(old)
  <2>1. CASE k = 0
    BY <1>3, <1>4, <2>1
  <2>2. CASE k # 0
    <3>1. rs[k].i2 \in Nat /\ rs[k].j2 \in Nat /\ rs[k].i2 <= Len(old)
      BY <1>2, <1>5, <2>2
    <3> QED BY <1>4, <2>2, <3>1
  <2> QED BY <2>1, <2>2
<1>7. b[1] \in Nat /\ b[2] \in Nat /\ a[1] <= b[1] /\ b[1] <= Len(old) /\ (k # 0 /\ k # n => a[1] < b[1])
  <2>1. CASE k = n
    BY <1>3, <1>4, <1>6, <2>1
  <2>2. CASE k # n
    <3>1. /\ rs[next].i1 \in Nat /\ rs[next].j1 \in Nat /\ rs[next].i2 \in Nat
          /\ rs[next].i1 <= rs[next].i2 /\ rs[next].i2 <= Len(old)
      BY <1>2, <1>5, <2>2
    <3>2. k # 0 => rs[k].i2 < rs[next].i1
      BY <1>1, <1>2, <2>2
    <3>3. rs[next].i1 <= Len(old)
      BY <1>3, <3>1
    <3> QED BY <1>4, <1>6, <2>2, <3>1, <3>2, <3>3
  <2> QED BY <2>1, <2>2
\* The runs up to k start before the gap, the others start after it.
<1>8. ASSUME NEW r \in Found(old, new, match), a[1] <= r.i1, a[2] <= r.j1
      PROVE  k # n /\ b[1] <= r.i1
  <2>1. PICK l \in 1..n : rs[l] = r
    BY DEF Chained, n
  <2>2. /\ rs[l].i1 \in Nat /\ rs[l].i2 \in Nat /\ rs[l].j1 \in Nat /\ rs[l].j2 \in Nat
        /\ rs[l].i1 <= rs[l].i2 /\ rs[l].j1 <= rs[l].j2
        /\ rs[l].i1 < rs[l].i2 \/ rs[l].j1 < rs[l].j2
    BY <1>5
  <2>3. l \in Nat /\ 1 <= l /\ l <= n
    BY <1>1
  <2>4. ~ (l <= k)
    <3> SUFFICES ASSUME l <= k PROVE FALSE
      OBVIOUS
    <3>1. k \in 1..n /\ a[1] = rs[k].i2 /\ a[2] = rs[k].j2
      BY <1>2, <1>4, <2>3
    <3>2. rs[l].i2 <= rs[k].i2 /\ rs[l].j2 <= rs[k].j2
      <4>1. CASE l = k
        BY <2>2, <4>1
      <4>2. CASE l < k
        <5>1. rs[l].i2 < rs[k].i1 /\ rs[l].j2 < rs[k].j1
          BY <1>1, <3>1, <4>2
        <5>2. /\ rs[k].i1 \in Nat /\ rs[k].i2 \in Nat /\ rs[k].j1 \in Nat /\ rs[k].j2 \in Nat
              /\ rs[k].i1 <= rs[k].i2 /\ rs[k].j1 <= rs[k].j2
          BY <1>5, <3>1
        <5> QED BY <2>2, <5>1, <5>2
      <4> QED BY <2>3, <4>1, <4>2
    <3>3. rs[k].i2 <= rs[l].i1 /\ rs[k].j2 <= rs[l].j1
      BY <1>8, <2>1, <3>1
    <3>4. rs[k].i2 \in Nat /\ rs[k].j2 \in Nat
      BY <1>5, <3>1
    <3> QED BY <2>2, <3>2, <3>3, <3>4
  <2>5. k # n /\ (l = next \/ next < l) /\ next \in 1..n
    BY <1>2, <2>3, <2>4 DEF next
  <2>6. CASE l = next
    BY <1>4, <2>1, <2>2, <2>5, <2>6
  <2>7. CASE next < l
    <3>1. rs[next].i2 < rs[l].i1
      BY <1>1, <2>5, <2>7
    <3>2. rs[next].i1 \in Nat /\ rs[next].i2 \in Nat /\ rs[next].i1 <= rs[next].i2
      BY <1>5, <2>5
    <3>3. rs[next].i1 <= rs[l].i1
      BY <2>2, <3>1, <3>2
    <3> QED BY <1>4, <2>1, <2>5, <3>3
  <2> QED BY <2>5, <2>6, <2>7
<1>9. \A r \in Found(old, new, match) :
        /\ ~ (a[1] <= r.i1 /\ a[2] <= r.j1 /\ r.i1 < b[1])
        /\ k = n => ~ (a[1] <= r.i1 /\ a[2] <= r.j1)
  <2> TAKE r \in Found(old, new, match)
  <2>1. r.i1 \in Nat
    BY FoundAreRuns DEF IsRun, Spans
  <2> QED BY <1>7, <1>8, <2>1
<1>10. \/ <<a[1], a[2]>> \in Starts(match)
       \/ /\ <<a[1] + 1, a[2] + 1>> \in Ends(old, new, match)
          /\ a[1] < b[1] \/ (b[1] = Len(old) /\ b[2] = Len(new))
  <2>1. CASE k = 0
    BY <1>4, <2>1 DEF Starts
  <2>2. CASE k # 0
    <3>1. <<rs[k].i2 + 1, rs[k].j2 + 1>> \in Ends(old, new, match)
      BY <1>2, <1>5, <2>2
    <3> QED BY <1>4, <1>7, <2>2, <3>1
  <2> QED BY <2>1, <2>2
<1>11. \/ <<b[1], b[2]>> \in Starts(match)
       \/ b[1] = Len(old) /\ b[2] = Len(new) /\ k = n
  <2>1. CASE k # n
    <3>1. <<rs[next].i1, rs[next].j1>> \in Starts(match)
      BY <1>2, <1>5, <2>1
    <3> QED BY <1>4, <2>1, <3>1
  <2> QED BY <1>4, <2>1
<1>12. Gap(old, new, match, a[1], a[2], b[1], b[2])
  BY <1>7, <1>9, <1>10, <1>11 DEF Gap
<1>13. a = <<a[1], a[2]>> /\ b = <<b[1], b[2]>>
  BY DEF a, b, From, To
<1>14. SameLines(a, b, old, new)
  BY <1>6, <1>7, <1>12, <1>13, GapCloses
<1> QED BY <1>14 DEF a, b

LEMMA RunsAligned ==
  ASSUME NEW old \in Text, NEW new \in Text, NEW match \in Matches(old, new)
  PROVE  Aligned(Runs(old, new, match), old, new)
<1> DEFINE F == Found(old, new, match)
           rs == Runs(old, new, match)
<1>1. /\ Lists(rs, F) /\ rs \in Seq(F) /\ DOMAIN rs = 1..Len(rs)
      /\ \A r \in F : \E i \in 1..Len(rs) : rs[i] = r
  BY FoundPlaced, RunsAreFound, InOrderLists
<1>2. \A r \in F : IsRun(r, old, new) /\ r \in Spans
  BY FoundAreRuns DEF IsRun
<1> HIDE DEF rs
<1>3. \A k \in 0..Len(rs) : SameLines(From(rs, k), To(rs, k, old, new), old, new)
  <2>1. \A i, j \in 1..Len(rs) : i < j => Place(rs[i]) < Place(rs[j])
    BY <1>1 DEF Lists, Climbs
  <2>2. Chained(rs, F) /\ Len(rs) \in Nat
    BY <1>1, <2>1, LenProperties DEF Chained
  <2>3. \A k \in 0..Len(rs) : k \in Nat /\ k <= Len(rs)
    BY <2>2
  <2> QED BY <2>2, <2>3, GapsAligned
<1> HIDE DEF F
<1>4. rs \in Seq(Spans)
  BY <1>1, <1>2, SeqMonotonic
<1>5. \A k \in 1..Len(rs) : IsRun(rs[k], old, new)
  BY <1>1, <1>2, ElementOfSeq
<1>6. Aligned(rs, old, new)
  BY <1>3, <1>4, <1>5 DEF Aligned
<1> QED BY <1>6 DEF rs
-----------------------------------------------------------------------------
(* Where a block may slide. *)

LEMMA LeastBy ==
  ASSUME NEW D, D # {}, NEW f, \A n \in D : f[n] \in Nat
  PROVE  \E n \in D : \A m \in D : f[n] <= f[m]
<1> DEFINE T == {v \in Nat : \E n \in D : f[n] = v}
<1>1. T \in SUBSET Nat /\ (\A n \in D : f[n] \in T) /\ \A v \in T : \E n \in D : f[n] = v
  OBVIOUS
<1> HIDE DEF T
<1>2. T # {}
  BY <1>1
<1>3. PICK v \in T : \A w \in T : v <= w
  BY <1>1, <1>2, LeastNat
<1> QED BY <1>1, <1>3

\* Of several places one has the lowest rank, and is the topmost with it.
LEMMA BestPlace ==
  ASSUME NEW D \in SUBSET Nat, D # {}, NEW b, NEW f, \A n \in D : b[n] \in Nat /\ f[n] \in Nat
  PROVE  \E n \in D : \A m \in D :
           b[n] < b[m] \/ (b[n] = b[m] /\ (f[n] < f[m] \/ (f[n] = f[m] /\ n <= m)))
<1>1. PICK n1 \in D : \A m \in D : b[n1] <= b[m]
  BY LeastBy
<1> DEFINE D1 == {m \in D : b[m] = b[n1]}
<1>2. n1 \in D1 /\ \A m \in D1 : f[m] \in Nat /\ m \in D /\ b[m] = b[n1]
  OBVIOUS
<1>3. PICK n2 \in D1 : \A m \in D1 : f[n2] <= f[m]
  <2> HIDE DEF D1
  <2>1. D1 # {}
    BY <1>2
  <2> QED BY <1>2, <2>1, LeastBy
<1> DEFINE D2 == {m \in D1 : f[m] = f[n2]}
<1>4. n2 \in D2 /\ D2 \in SUBSET Nat
  OBVIOUS
<1>5. PICK n \in D2 : \A m \in D2 : n <= m
  <2> HIDE DEF D2
  <2> QED BY <1>4, LeastNat
<1>6. n \in D /\ b[n] = b[n1] /\ f[n] = f[n2]
  OBVIOUS
<1>7. ASSUME NEW m \in D
      PROVE  b[n] < b[m] \/ (b[n] = b[m] /\ (f[n] < f[m] \/ (f[n] = f[m] /\ n <= m)))
  <2>1. b[n1] <= b[m] /\ b[n1] \in Nat /\ b[m] \in Nat /\ f[n2] \in Nat /\ f[m] \in Nat
    BY <1>1, <1>2, <1>6
  <2>2. b[m] = b[n1] => f[n2] <= f[m]
    BY <1>3
  <2>3. b[m] = b[n1] /\ f[m] = f[n2] => n <= m
    BY <1>5
  <2> QED BY <1>6, <2>1, <2>2, <2>3
<1> QED BY <1>6, <1>7

\* Each line that a block slides over is equal to the one it makes room for.
Slides(lines, start, stop, low, high, t) ==
  /\ t \in Nat /\ low <= t /\ t + (stop - start) <= high
  /\ \A z \in Nat : (t < z /\ z <= start) \/ (start < z /\ z <= t) =>
       lines[z] = lines[z + (stop - start)]

LEMMA BlockSlides ==
  ASSUME NEW lines \in Text, NEW start \in Nat, NEW stop \in Nat, NEW low \in Nat, NEW high \in Nat,
         low <= start, start < stop, stop <= high, high <= Len(lines)
  PROVE  Slides(lines, start, stop, low, high, SlideBlock(lines, start, stop, low, high))
<1> DEFINE up == {n \in 0..(start - low) : \A k \in 0..(n - 1) : lines[start - k] = lines[stop - k]}
           u == Max(up)
           top == start - u
           end == stop - u
           down == {n \in 0..(high - end) : \A k \in 1..n : lines[top + k] = lines[end + k]}
           w == stop - start
           Rank(n) == StanzaStartRank(lines[top + n + 1])
           Best(n) == \A m \in down : Below(Rank(n), Rank(m)) \/ (Rank(n) = Rank(m) /\ n <= m)
           t == top + (CHOOSE n \in down : Best(n))
<1>0. SlideBlock(lines, start, stop, low, high) = t
  BY DEF SlideBlock
<1>1. u \in up
  <2>1. start - low \in Nat
    OBVIOUS
  <2>2. 0 \in up
    OBVIOUS
  <2>3. up \in SUBSET (0..(start - low))
    OBVIOUS
  <2> HIDE DEF up
  <2>4. up # {}
    BY <2>2
  <2> QED BY <2>1, <2>3, <2>4, MaxOf
<1>2. u \in 0..(start - low) /\ \A k \in 0..(u - 1) : lines[start - k] = lines[stop - k]
  BY <1>1
<1> HIDE DEF up, u
<1>3. /\ u \in Nat /\ top \in Nat /\ end \in Nat /\ w \in Nat /\ w >= 1
      /\ low <= top /\ top <= start /\ end = top + w /\ end <= high /\ high - end \in Nat
  BY <1>2
<1>4. 0 \in down /\ down \in SUBSET Nat
  <2>1. down \in SUBSET (0..(high - end))
    OBVIOUS
  <2>2. 0 \in down
    BY <1>3
  <2> QED BY <1>3, <2>1, <2>2
<1>5. \A n \in down : n \in Nat /\ n <= high - end /\ \A k \in 1..n : lines[top + k] = lines[end + k]
  BY <1>3
<1>z. \A z \in Nat : top < z /\ z <= start => lines[z] = lines[z + w]
  <2> SUFFICES ASSUME NEW z \in Nat, top < z, z <= start PROVE lines[z] = lines[z + w]
    OBVIOUS
  <2>1. start - z \in 0..(u - 1)
    BY <1>3
  <2>2. start - (start - z) = z /\ stop - (start - z) = z + w
    OBVIOUS
  <2> QED BY <1>2, <2>1, <2>2
<1> HIDE DEF down, top, end, w
<1>6. ASSUME NEW n \in down
      PROVE  lines[top + n + 1].indent \in Nat /\ lines[top + n + 1].mark \in BOOLEAN
  <2>1. Len(lines) \in Nat /\ \A i \in 1..Len(lines) : lines[i] \in TextLine
    BY LinesOf
  <2>2. n \in Nat /\ n <= high - end
    BY <1>5
  <2>3. top + n + 1 \in 1..Len(lines)
    BY <1>3, <2>1, <2>2
  <2>4. lines[top + n + 1] \in TextLine
    BY <2>1, <2>3
  <2> QED BY <2>4 DEF TextLine
<1>7. \E n \in down : Best(n)
  <2> DEFINE b == [n \in down |-> IF lines[top + n + 1].mark THEN 1 ELSE 0]
             f == [n \in down |-> lines[top + n + 1].indent]
  <2>1. \A n \in down : b[n] \in Nat /\ f[n] \in Nat
    BY <1>6
  <2>2. \A n \in down : Rank(n) = <<b[n], f[n]>>
    BY DEF StanzaStartRank
  <2> HIDE DEF b, f, Rank
  <2>3. PICK n \in down : \A m \in down :
          b[n] < b[m] \/ (b[n] = b[m] /\ (f[n] < f[m] \/ (f[n] = f[m] /\ n <= m)))
    BY <1>4, <2>1, BestPlace
  <2>4. ASSUME NEW m \in down PROVE Below(Rank(n), Rank(m)) \/ (Rank(n) = Rank(m) /\ n <= m)
    <3>1. Rank(n) = <<b[n], f[n]>> /\ Rank(m) = <<b[m], f[m]>>
      BY <2>2
    <3>2. CASE b[n] = b[m] /\ f[n] = f[m] /\ n <= m
      BY <3>1, <3>2
    <3>3. CASE b[n] < b[m] \/ (b[n] = b[m] /\ f[n] < f[m])
      BY <3>1, <3>3 DEF Below
    <3> QED BY <2>3, <3>2, <3>3
  <2> QED BY <2>4
<1> HIDE DEF Best
<1>8. PICK n \in down : t = top + n
  BY <1>7
<1> HIDE DEF t
<1>9. n \in Nat /\ n <= high - end /\ \A k \in 1..n : lines[top + k] = lines[end + k]
  BY <1>5
<1>10. t \in Nat /\ top <= t /\ low <= t /\ t + w <= high
  BY <1>3, <1>8, <1>9
<1>11. \A z \in Nat : top < z /\ z <= t => lines[z] = lines[z + w]
  <2> SUFFICES ASSUME NEW z \in Nat, top < z, z <= t PROVE lines[z] = lines[z + w]
    OBVIOUS
  <2>1. z - top \in 1..n
    BY <1>3, <1>8, <1>9
  <2>2. top + (z - top) = z /\ end + (z - top) = z + w
    BY <1>3
  <2> QED BY <1>9, <2>1, <2>2
<1>12. ASSUME NEW z \in Nat, (t < z /\ z <= start) \/ (start < z /\ z <= t)
       PROVE  lines[z] = lines[z + w]
  <2>1. top < z
    BY <1>3, <1>10, <1>12
  <2> QED BY <1>11, <1>12, <1>z, <2>1
<1> QED BY <1>0, <1>10, <1>12 DEF Slides, w

\* The same lines, m of them, after line i of the one text and j of the other.
Equal(A, B, i, j, m) == \A x \in 1..m : A[i + x] = B[j + x]

\* An empty run of A against the block (b1, b2] of B, between gaps of the same
\* lines: the gaps still are when the block has slid.
LEMMA GapsSlide ==
  ASSUME NEW A, NEW B, NEW aLow \in Nat, NEW bLow \in Nat, NEW a \in Nat, NEW b1 \in Nat, NEW b2 \in Nat,
         NEW aHigh \in Nat, NEW bHigh \in Nat, NEW t, NEW s, s = t - b1,
         b1 < b2, aLow <= a, a <= aHigh, a - aLow = b1 - bLow, aHigh - a = bHigh - b2,
         Equal(A, B, aLow, bLow, a - aLow), Equal(A, B, a, b2, aHigh - a),
         Slides(B, b1, b2, bLow, bHigh, t)
  PROVE  /\ s \in Int /\ a + s \in Nat /\ b1 + s \in Nat /\ b2 + s \in Nat
         /\ aLow <= a + s /\ a + s <= aHigh /\ b2 + s <= bHigh
         /\ Equal(A, B, aLow, bLow, (a + s) - aLow) /\ Equal(A, B, a + s, b2 + s, aHigh - (a + s))
<1> DEFINE w == b2 - b1
<1>1. t \in Nat /\ bLow <= t /\ t + w <= bHigh
      /\ \A z \in Nat : (t < z /\ z <= b1) \/ (b1 < z /\ z <= t) => B[z] = B[z + w]
  BY DEF Slides
<1>2. /\ \A x \in 1..(a - aLow) : A[aLow + x] = B[bLow + x]
      /\ \A x \in 1..(aHigh - a) : A[a + x] = B[b2 + x]
  BY DEF Equal
<1>3. w \in Nat /\ w >= 1 /\ b2 = b1 + w
  OBVIOUS
<1> HIDE DEF w
<1>4. /\ s \in Int /\ t = b1 + s /\ a + s \in Nat /\ b1 + s \in Nat /\ b2 + s \in Nat
      /\ aLow <= a + s /\ a + s <= aHigh /\ b2 + s <= bHigh
  BY <1>1, <1>3
<1>5. ASSUME NEW x \in 1..((a + s) - aLow) PROVE A[aLow + x] = B[bLow + x]
  <2>1. CASE x \in 1..(a - aLow)
    BY <1>2, <2>1
  <2>2. CASE ~ (x \in 1..(a - aLow))
    <3> DEFINE y == x - (a - aLow)
               z == b1 + y
    <3>1. y \in 1..(aHigh - a) /\ aLow + x = a + y /\ bLow + x = b1 + y
      BY <1>4, <2>2
    <3>2. A[a + y] = B[b2 + y]
      BY <1>2, <3>1
    <3>3. z \in Nat /\ b1 < z /\ z <= t /\ z + w = b2 + y
      BY <1>3, <1>4, <2>2
    <3>4. B[z] = B[z + w]
      BY <1>1, <3>3
    <3> QED BY <3>1, <3>2, <3>3, <3>4
  <2> QED BY <2>1, <2>2
<1>6. ASSUME NEW x \in 1..(aHigh - (a + s)) PROVE A[(a + s) + x] = B[(b2 + s) + x]
  <2> DEFINE y == s + x
  <2>0. y \in Int /\ (a + s) + x = a + y /\ (b2 + s) + x = b2 + y
    BY <1>4
  <2>1. CASE y >= 1
    <3>1. y \in 1..(aHigh - a)
      BY <1>4, <2>0, <2>1
    <3>2. A[a + y] = B[b2 + y]
      BY <1>2, <3>1
    <3> QED BY <2>0, <3>2
  <2>2. CASE y < 1
    <3> DEFINE v == (a - aLow) + y
               z == b1 + y
    <3>1. v \in 1..(a - aLow) /\ aLow + v = a + y /\ bLow + v = b1 + y
      BY <1>4, <2>2
    <3>2. A[a + y] = B[b1 + y]
      BY <1>2, <3>1
    <3>3. z \in Nat /\ t < z /\ z <= b1 /\ z + w = b2 + y
      BY <1>3, <1>4, <2>2
    <3>4. B[z] = B[z + w]
      BY <1>1, <3>3
    <3> QED BY <2>0, <3>2, <3>3, <3>4
  <2> QED BY <2>0, <2>1, <2>2
<1> QED BY <1>4, <1>5, <1>6 DEF Equal

LEMMA EqualTurns ==
  ASSUME NEW A, NEW B, NEW i, NEW j, NEW m
  PROVE  Equal(A, B, i, j, m) <=> Equal(B, A, j, i, m)
BY DEF Equal

\* A run (i1, i2] against (j1, j2] between gaps of the same lines, which reach
\* from (a1, a2) and to (b1, b2).
Fits(i1, i2, j1, j2, a1, a2, b1, b2, old, new) ==
  /\ i1 \in Nat /\ i2 \in Nat /\ j1 \in Nat /\ j2 \in Nat
  /\ i1 <= i2 /\ j1 <= j2 /\ (i1 < i2 \/ j1 < j2)
  /\ a1 <= i1 /\ i1 - a1 = j1 - a2 /\ Equal(old, new, a1, a2, i1 - a1)
  /\ i2 <= b1 /\ b1 - i2 = b2 - j2 /\ Equal(old, new, i2, j2, b1 - i2)

LEMMA FitsTurns ==
  ASSUME NEW old, NEW new, NEW i1, NEW i2, NEW j1, NEW j2,
         NEW a1 \in Nat, NEW a2 \in Nat, NEW b1 \in Nat, NEW b2 \in Nat,
         Fits(i1, i2, j1, j2, a1, a2, b1, b2, old, new)
  PROVE  Fits(j1, j2, i1, i2, a2, a1, b2, b1, new, old)
<1>1. /\ Equal(new, old, a2, a1, j1 - a2) /\ Equal(new, old, j2, i2, b2 - j2)
  BY EqualTurns DEF Fits
<1> QED BY <1>1 DEF Fits

LEMMA InsertFits ==
  ASSUME NEW old, NEW new, NEW i, NEW j1, NEW j2,
         NEW a1 \in Nat, NEW a2 \in Nat, NEW b1 \in Nat, NEW b2 \in Nat,
         Fits(i, i, j1, j2, a1, a2, b1, b2, old, new),
         NEW t, Slides(new, j1, j2, a2, b2, t), NEW s, s = t - j1
  PROVE  Fits(i + s, i + s, j1 + s, j2 + s, a1, a2, b1, b2, old, new)
<1>1. /\ i \in Nat /\ j1 \in Nat /\ j2 \in Nat /\ j1 < j2
      /\ a1 <= i /\ i - a1 = j1 - a2 /\ Equal(old, new, a1, a2, i - a1)
      /\ i <= b1 /\ b1 - i = b2 - j2 /\ Equal(old, new, i, j2, b1 - i)
  BY DEF Fits
<1>2. /\ s \in Int /\ i + s \in Nat /\ j1 + s \in Nat /\ j2 + s \in Nat
      /\ a1 <= i + s /\ i + s <= b1 /\ j2 + s <= b2
      /\ Equal(old, new, a1, a2, (i + s) - a1) /\ Equal(old, new, i + s, j2 + s, b1 - (i + s))
  BY <1>1, GapsSlide
<1> QED BY <1>1, <1>2 DEF Fits

\* Where _text_opcodes leaves a run r that lies between (a1, a2) and (b1, b2).
SettledTo(r, a1, a2, b1, b2, old, new) ==
  IF r.i1 < r.i2 /\ r.j1 < r.j2 THEN r
  ELSE IF r.i1 = r.i2 THEN Moved(r, SlideBlock(new, r.j1, r.j2, a2, b2) - r.j1)
  ELSE Moved(r, SlideBlock(old, r.i1, r.i2, a1, b1) - r.i1)
Between(r, a1, a2, b1, b2, old, new) ==
  r \in Spans /\ Fits(r.i1, r.i2, r.j1, r.j2, a1, a2, b1, b2, old, new)

LEMMA RunSettles ==
  ASSUME NEW old \in Text, NEW new \in Text, NEW r,
         NEW a1 \in Nat, NEW a2 \in Nat, NEW b1 \in Nat, NEW b2 \in Nat, b1 <= Len(old), b2 <= Len(new),
         Between(r, a1, a2, b1, b2, old, new)
  PROVE  Between(SettledTo(r, a1, a2, b1, b2, old, new), a1, a2, b1, b2, old, new)
<1> DEFINE q == SettledTo(r, a1, a2, b1, b2, old, new)
           i1 == r.i1
           i2 == r.i2
           j1 == r.j1
           j2 == r.j2
<1>1. r \in Spans /\ Fits(i1, i2, j1, j2, a1, a2, b1, b2, old, new)
  BY DEF Between
<1>m. \A s : Moved(r, s) = [i1 |-> i1 + s, i2 |-> i2 + s, j1 |-> j1 + s, j2 |-> j2 + s]
  BY DEF Moved
<1>2. q = IF i1 < i2 /\ j1 < j2 THEN r
          ELSE IF i1 = i2 THEN Moved(r, SlideBlock(new, j1, j2, a2, b2) - j1)
          ELSE Moved(r, SlideBlock(old, i1, i2, a1, b1) - i1)
  BY DEF SettledTo
<1>3. ASSUME NEW k1, NEW k2, NEW l1, NEW l2, Fits(k1, k2, l1, l2, a1, a2, b1, b2, old, new),
             NEW p, p = [i1 |-> k1, i2 |-> k2, j1 |-> l1, j2 |-> l2]
      PROVE  Between(p, a1, a2, b1, b2, old, new)
  <2>1. p.i1 = k1 /\ p.i2 = k2 /\ p.j1 = l1 /\ p.j2 = l2
    BY <1>3
  <2>2. p \in Spans
    BY <1>3 DEF Spans, Fits
  <2> QED BY <1>3, <2>1, <2>2 DEF Between
<1>x. Between(r, a1, a2, b1, b2, old, new)
  OBVIOUS
<1> HIDE DEF q, i1, i2, j1, j2
<1>4. ASSUME i1 < i2 /\ j1 < j2 PROVE Between(q, a1, a2, b1, b2, old, new)
  BY <1>2, <1>4, <1>x
<1>5. ASSUME ~ (i1 < i2 /\ j1 < j2) /\ i1 = i2 PROVE Between(q, a1, a2, b1, b2, old, new)
  <2> DEFINE t == SlideBlock(new, j1, j2, a2, b2)
             s == t - j1
  <2>1. a2 <= j1 /\ j1 < j2 /\ j2 <= b2 /\ j1 \in Nat /\ j2 \in Nat
    BY <1>1, <1>5 DEF Fits
  <2>2. Slides(new, j1, j2, a2, b2, t)
    BY <2>1, BlockSlides
  <2>3. q = Moved(r, s)
    BY <1>2, <1>5
  <2>4. Fits(i1, i1, j1, j2, a1, a2, b1, b2, old, new)
    BY <1>1, <1>5
  <2> HIDE DEF t
  <2>5. Fits(i1 + s, i1 + s, j1 + s, j2 + s, a1, a2, b1, b2, old, new)
    BY <2>2, <2>4, InsertFits
  <2>6. q = [i1 |-> i1 + s, i2 |-> i1 + s, j1 |-> j1 + s, j2 |-> j2 + s]
    BY <1>m, <1>5, <2>3
  <2>7. Between(q, a1, a2, b1, b2, old, new)
    BY <1>3, <2>5, <2>6
  <2> QED BY <2>7
<1>6. ASSUME ~ (i1 < i2 /\ j1 < j2) /\ i1 # i2 PROVE Between(q, a1, a2, b1, b2, old, new)
  <2> DEFINE t == SlideBlock(old, i1, i2, a1, b1)
             s == t - i1
  <2>1. a1 <= i1 /\ i1 < i2 /\ i2 <= b1 /\ i1 \in Nat /\ i2 \in Nat /\ j1 = j2
    BY <1>1, <1>6 DEF Fits
  <2>2. Slides(old, i1, i2, a1, b1, t)
    BY <2>1, BlockSlides
  <2>3. q = Moved(r, s)
    BY <1>2, <1>6
  <2>4. Fits(j1, j1, i1, i2, a2, a1, b2, b1, new, old)
    BY <1>1, <2>1, FitsTurns
  <2> HIDE DEF t
  <2>5. Fits(j1 + s, j1 + s, i1 + s, i2 + s, a2, a1, b2, b1, new, old)
    BY <2>2, <2>4, InsertFits
  <2>6. Fits(i1 + s, i2 + s, j1 + s, j1 + s, a1, a2, b1, b2, old, new)
    BY <2>5, FitsTurns
  <2>7. q = [i1 |-> i1 + s, i2 |-> i2 + s, j1 |-> j1 + s, j2 |-> j1 + s]
    BY <1>m, <2>1, <2>3
  <2>8. Between(q, a1, a2, b1, b2, old, new)
    BY <1>3, <2>6, <2>7
  <2> QED BY <2>8
<1>7. Between(q, a1, a2, b1, b2, old, new)
  BY <1>1, <1>4, <1>5, <1>6
<1> QED BY <1>7 DEF q
-----------------------------------------------------------------------------
(* The runs settle one after the other, and stay between gaps of the same  *)
(* lines.                                                                  *)

LEMMA AlignedRun ==
  ASSUME NEW old \in Text, NEW new \in Text, NEW rs, Aligned(rs, old, new), NEW k \in 1..Len(rs),
         NEW a, NEW b, a = From(rs, k - 1), b = To(rs, k, old, new)
  PROVE  /\ a[1] \in Nat /\ a[2] \in Nat /\ b[1] \in Nat /\ b[2] \in Nat
         /\ b[1] <= Len(old) /\ b[2] <= Len(new)
         /\ Between(rs[k], a[1], a[2], b[1], b[2], old, new)
         /\ Settle(rs, k, old, new) = SettledTo(rs[k], a[1], a[2], b[1], b[2], old, new)
<1> DEFINE n == Len(rs)
           last == k - 1
           next == k + 1
           r == rs[k]
<1>0. /\ n \in Nat /\ last \in Nat /\ last \in 0..n /\ last # n /\ last + 1 = k
      /\ (last # 0 => last \in 1..n)
      /\ next \in Nat /\ (k # n => next \in 1..n) /\ k \in 0..n /\ k # 0 /\ (last = 0 <=> k = 1)
  BY LenProperties DEF Aligned
<1>1. Len(old) \in Nat /\ Len(new) \in Nat
  BY LinesOf
<1>2. /\ \A i \in 1..n : IsRun(rs[i], old, new)
      /\ SameLines(From(rs, last), To(rs, last, old, new), old, new)
      /\ SameLines(From(rs, k), To(rs, k, old, new), old, new)
  BY <1>0 DEF Aligned
<1>3. \A i \in 1..n : /\ rs[i].i1 \in Nat /\ rs[i].i2 \in Nat /\ rs[i].j1 \in Nat /\ rs[i].j2 \in Nat
                      /\ rs[i].i1 <= rs[i].i2 /\ rs[i].j1 <= rs[i].j2
                      /\ rs[i].i2 <= Len(old) /\ rs[i].j2 <= Len(new)
  BY <1>2 DEF IsRun, Spans
<1>4. /\ last = 0 => a[1] = 0 /\ a[2] = 0
      /\ last # 0 => a[1] = rs[last].i2 /\ a[2] = rs[last].j2
      /\ k = n => b[1] = Len(old) /\ b[2] = Len(new)
      /\ k # n => b[1] = rs[next].i1 /\ b[2] = rs[next].j1
      /\ To(rs, last, old, new) = <<r.i1, r.j1>> /\ From(rs, k) = <<r.i2, r.j2>>
  BY <1>0 DEF From, To
<1>5. SameLines(a, <<r.i1, r.j1>>, old, new) /\ SameLines(<<r.i2, r.j2>>, b, old, new)
  BY <1>2, <1>4
<1>6. Settle(rs, k, old, new) = SettledTo(r, a[1], a[2], b[1], b[2], old, new)
  <2>1. k = 1 => a[1] = 0 /\ a[2] = 0
    BY <1>0, <1>4
  <2>2. k # 1 => a[1] = rs[k - 1].i2 /\ a[2] = rs[k - 1].j2
    BY <1>0, <1>4
  <2>3. k # n => b[1] = rs[k + 1].i1 /\ b[2] = rs[k + 1].j1
    BY <1>4
  <2>4. CASE r.i1 < r.i2 /\ r.j1 < r.j2
    BY <2>4 DEF Settle, SettledTo
  <2>5. CASE ~ (r.i1 < r.i2 /\ r.j1 < r.j2) /\ r.i1 = r.i2
    <3>1. Settle(rs, k, old, new)
            = Moved(r, SlideBlock(new, r.j1, r.j2, IF k = 1 THEN 0 ELSE rs[k - 1].j2,
                                  IF k = n THEN Len(new) ELSE rs[k + 1].j1) - r.j1)
      BY <2>5 DEF Settle
    <3>2. (IF k = 1 THEN 0 ELSE rs[k - 1].j2) = a[2] /\ (IF k = n THEN Len(new) ELSE rs[k + 1].j1) = b[2]
      BY <1>4, <2>1, <2>2, <2>3
    <3> HIDE DEF r, n
    <3> QED BY <2>5, <3>1, <3>2 DEF SettledTo
  <2>6. CASE ~ (r.i1 < r.i2 /\ r.j1 < r.j2) /\ r.i1 # r.i2
    <3>1. Settle(rs, k, old, new)
            = Moved(r, SlideBlock(old, r.i1, r.i2, IF k = 1 THEN 0 ELSE rs[k - 1].i2,
                                  IF k = n THEN Len(old) ELSE rs[k + 1].i1) - r.i1)
      BY <2>6 DEF Settle
    <3>2. (IF k = 1 THEN 0 ELSE rs[k - 1].i2) = a[1] /\ (IF k = n THEN Len(old) ELSE rs[k + 1].i1) = b[1]
      BY <1>4, <2>1, <2>2, <2>3
    <3> HIDE DEF r, n
    <3> QED BY <2>6, <3>1, <3>2 DEF SettledTo
  <2> QED BY <2>4, <2>5, <2>6
<1>7. a[1] \in Nat /\ a[2] \in Nat
  BY <1>0, <1>3, <1>4
<1>8. b[1] \in Nat /\ b[2] \in Nat /\ b[1] <= Len(old) /\ b[2] <= Len(new)
  <2>1. CASE k = n
    BY <1>1, <1>4, <2>1
  <2>2. CASE k # n
    <3>1. /\ rs[next].i1 \in Nat /\ rs[next].i2 \in Nat /\ rs[next].j1 \in Nat /\ rs[next].j2 \in Nat
          /\ rs[next].i1 <= rs[next].i2 /\ rs[next].j1 <= rs[next].j2
          /\ rs[next].i2 <= Len(old) /\ rs[next].j2 <= Len(new)
      BY <1>0, <1>3, <2>2
    <3>2. rs[next].i1 <= Len(old) /\ rs[next].j1 <= Len(new)
      BY <1>1, <3>1
    <3> QED BY <1>4, <2>2, <3>1, <3>2
  <2> QED BY <2>1, <2>2
<1>9. IsRun(r, old, new)
  BY <1>2
<1> HIDE DEF r, n, last, next
<1>10. Between(r, a[1], a[2], b[1], b[2], old, new)
  <2>1. /\ a[1] <= r.i1 /\ r.i1 - a[1] = r.j1 - a[2] /\ Equal(old, new, a[1], a[2], r.i1 - a[1])
        /\ r.i2 <= b[1] /\ b[1] - r.i2 = b[2] - r.j2 /\ Equal(old, new, r.i2, r.j2, b[1] - r.i2)
    BY <1>5 DEF SameLines, Equal
  <2>2. /\ r \in Spans /\ r.i1 \in Nat /\ r.i2 \in Nat /\ r.j1 \in Nat /\ r.j2 \in Nat
        /\ r.i1 <= r.i2 /\ r.j1 <= r.j2 /\ (r.i1 < r.i2 \/ r.j1 < r.j2)
    BY <1>9 DEF IsRun, Spans, NotEmpty
  <2> QED BY <2>1, <2>2 DEF Between, Fits
<1> QED BY <1>6, <1>7, <1>8, <1>10 DEF r

LEMMA SettleAligned ==
  ASSUME NEW old \in Text, NEW new \in Text, NEW rs, Aligned(rs, old, new), NEW k \in 1..Len(rs),
         NEW rs2, rs2 = [rs EXCEPT ![k] = Settle(rs, k, old, new)]
  PROVE  Aligned(rs2, old, new) /\ Len(rs2) = Len(rs)
<1> DEFINE n == Len(rs)
           last == k - 1
           q == Settle(rs, k, old, new)
           a == From(rs, last)
           b == To(rs, k, old, new)
<1>0. rs \in Seq(Spans) /\ n \in Nat /\ k \in Nat /\ last \in Nat
      /\ last + 1 = k /\ last # n /\ k # 0 /\ last \in 0..n
  BY LenProperties DEF Aligned
<1>1. Len(old) \in Nat /\ Len(new) \in Nat
  BY LinesOf
<1>2. /\ a[1] \in Nat /\ a[2] \in Nat /\ b[1] \in Nat /\ b[2] \in Nat
      /\ b[1] <= Len(old) /\ b[2] <= Len(new)
      /\ Between(q, a[1], a[2], b[1], b[2], old, new)
  <2>1. /\ a[1] \in Nat /\ a[2] \in Nat /\ b[1] \in Nat /\ b[2] \in Nat
        /\ b[1] <= Len(old) /\ b[2] <= Len(new)
        /\ Between(rs[k], a[1], a[2], b[1], b[2], old, new)
        /\ q = SettledTo(rs[k], a[1], a[2], b[1], b[2], old, new)
    <3> HIDE DEF a, b, q
    <3> QED BY AlignedRun DEF a, b, q, last
  <2> HIDE DEF a, b, q
  <2>2. Between(SettledTo(rs[k], a[1], a[2], b[1], b[2], old, new), a[1], a[2], b[1], b[2], old, new)
    BY <2>1, RunSettles
  <2> QED BY <2>1, <2>2
<1>3. q \in Spans /\ Fits(q.i1, q.i2, q.j1, q.j2, a[1], a[2], b[1], b[2], old, new)
  BY <1>2 DEF Between
<1>4. rs2 \in Seq(Spans) /\ Len(rs2) = n /\ rs2[k] = q /\ \A i \in 1..n : i # k => rs2[i] = rs[i]
  <2> HIDE DEF q
  <2> QED BY <1>0, <1>3, ExceptSeq DEF q
<1>5. From(rs2, last) = a /\ To(rs2, last, old, new) = <<q.i1, q.j1>>
  BY <1>0, <1>4 DEF From, To
<1>6. From(rs2, k) = <<q.i2, q.j2>> /\ To(rs2, k, old, new) = b
  BY <1>0, <1>4 DEF From, To
<1>7. \A m \in 0..n :
        m # last /\ m # k => From(rs2, m) = From(rs, m) /\ To(rs2, m, old, new) = To(rs, m, old, new)
  <2> SUFFICES ASSUME NEW m \in 0..n, m # last, m # k
               PROVE  From(rs2, m) = From(rs, m) /\ To(rs2, m, old, new) = To(rs, m, old, new)
    OBVIOUS
  <2>1. m # 0 => rs2[m] = rs[m]
    BY <1>0, <1>4
  <2>2. m # n => m + 1 \in 1..n /\ m + 1 # k
    BY <1>0
  <2>3. m # n => rs2[m + 1] = rs[m + 1]
    BY <1>4, <2>2
  <2> QED BY <1>4, <2>1, <2>3 DEF From, To
<1>ab. a = <<a[1], a[2]>> /\ b = <<b[1], b[2]>>
  BY DEF From, To
<1> HIDE DEF q, a, b
<1>8. IsRun(q, old, new)
  <2>1. /\ q.i1 \in Nat /\ q.i2 \in Nat /\ q.j1 \in Nat /\ q.j2 \in Nat
        /\ q.i1 <= q.i2 /\ q.j1 <= q.j2 /\ (q.i1 < q.i2 \/ q.j1 < q.j2)
        /\ q.i2 <= b[1] /\ b[1] - q.i2 = b[2] - q.j2
    BY <1>3 DEF Fits
  <2>2. q.i2 <= Len(old) /\ q.j2 <= Len(new)
    <3>1. b[1] \in Nat /\ b[2] \in Nat /\ b[1] <= Len(old) /\ b[2] <= Len(new)
      BY <1>2
    <3> QED BY ONLY <1>1, <2>1, <3>1
  <2> QED BY <1>3, <2>1, <2>2 DEF IsRun, NotEmpty
<1>9. SameLines(a, <<q.i1, q.j1>>, old, new) /\ SameLines(<<q.i2, q.j2>>, b, old, new)
  BY <1>3, <1>ab DEF Fits, Equal, SameLines
<1>10. \A m \in 0..n : SameLines(From(rs, m), To(rs, m, old, new), old, new)
  BY DEF Aligned
<1>11. \A m \in 0..n : SameLines(From(rs2, m), To(rs2, m, old, new), old, new)
  BY <1>5, <1>6, <1>7, <1>9, <1>10
<1>12. \A i \in 1..n : IsRun(rs2[i], old, new)
  BY <1>4, <1>8 DEF Aligned
<1> QED BY <1>4, <1>11, <1>12 DEF Aligned

\* The runs after the first k of them have settled.
OneSettles(rs, old, new, k) == [rs EXCEPT ![k] = Settle(rs, k, old, new)]
SettledStep(it, rs, old, new, k) == IF k = 0 THEN rs ELSE OneSettles(it[k - 1], old, new, k)
SettledTable(rs, old, new) ==
  CHOOSE it : it = [k \in 0..Len(rs) |-> SettledStep(it, rs, old, new, k)]
LEMMA SettledUnfolds ==
  ASSUME NEW rs, NEW old, NEW new
  PROVE  SettledRuns(rs, old, new) = SettledTable(rs, old, new)[Len(rs)]
BY DEF SettledRuns, SettledTable, SettledStep, OneSettles

LEMMA SettledTableExists ==
  ASSUME NEW rs, NEW old, NEW new, NEW n \in Nat
  PROVE  \E it : it = [k \in 0..n |-> SettledStep(it, rs, old, new, k)]
<1> DEFINE Step(it, k) == SettledStep(it, rs, old, new, k)
           T == {m \in Nat : \E it : it = [k \in 0..m |-> Step(it, k)]}
<1>1. 0 \in T
  <2> DEFINE it == [k \in 0..0 |-> rs]
  <2>1. it = [k \in 0..0 |-> Step(it, k)]
    BY DEF SettledStep
  <2> QED BY <2>1
<1>2. ASSUME NEW m \in Nat, m < n, m \in T PROVE m + 1 \in T
  <2>1. PICK it : it = [k \in 0..m |-> Step(it, k)]
    BY <1>2
  <2> DEFINE it2 == [k \in 0..(m + 1) |-> IF k <= m THEN it[k] ELSE Step(it, k)]
  <2>2. ASSUME NEW k \in 0..(m + 1) PROVE it2[k] = Step(it2, k)
    <3>1. CASE k <= m
      <4>1. k = 0 => Step(it2, k) = Step(it, k)
        BY DEF SettledStep
      <4>2. k # 0 => k - 1 \in 0..(m + 1) /\ k - 1 <= m
        BY <3>1
      <4>3. k # 0 => it2[k - 1] = it[k - 1]
        BY <4>2
      <4>4. Step(it2, k) = Step(it, k)
        BY <4>1, <4>3 DEF SettledStep
      <4>5. it2[k] = it[k] /\ k \in 0..m
        BY <3>1
      <4>6. it[k] = Step(it, k)
        BY <2>1, <4>5
      <4> QED BY <4>4, <4>5, <4>6
    <3>2. CASE ~ (k <= m)
      <4>1. k - 1 \in 0..(m + 1) /\ k - 1 <= m /\ k # 0
        BY <3>2
      <4>2. it2[k - 1] = it[k - 1]
        BY <4>1
      <4>3. Step(it2, k) = Step(it, k)
        BY <4>1, <4>2 DEF SettledStep
      <4>4. it2[k] = Step(it, k)
        BY <3>2
      <4> QED BY <4>3, <4>4
    <3> QED BY <3>1, <3>2
  <2>3. it2 = [k \in 0..(m + 1) |-> it2[k]]
    OBVIOUS
  <2> HIDE DEF it2
  <2>4. it2 = [k \in 0..(m + 1) |-> Step(it2, k)]
    BY <2>2, <2>3
  <2> QED BY <2>4
<1> HIDE DEF T
<1>3. n \in T
  <2>1. \A m \in 0..n : m \in T
    BY <1>1, <1>2, NatUpTo
  <2> QED BY <2>1
<1> QED BY <1>3 DEF T

\* _text_opcodes: wherever the blocks have been moved to, the lines between the
\* runs are the same.
LEMMA SettledAligned ==
  ASSUME NEW old \in Text, NEW new \in Text, NEW rs, Aligned(rs, old, new)
  PROVE  Aligned(SettledRuns(rs, old, new), old, new) /\ Len(SettledRuns(rs, old, new)) = Len(rs)
<1> DEFINE n == Len(rs)
           it == SettledTable(rs, old, new)
           T == {k \in Nat : Aligned(it[k], old, new) /\ Len(it[k]) = n}
<1>0. n \in Nat
  BY LenProperties DEF Aligned
<1>1. it = [k \in 0..n |-> SettledStep(it, rs, old, new, k)]
  BY <1>0, SettledTableExists DEF SettledTable
<1> HIDE DEF it
<1>2. \A k \in 0..n : it[k] = SettledStep(it, rs, old, new, k)
  BY <1>1
<1>3. 0 \in T
  <2>1. 0 \in 0..n /\ SettledStep(it, rs, old, new, 0) = rs
    BY <1>0 DEF SettledStep
  <2>2. it[0] = rs
    BY <1>2, <2>1
  <2> QED BY <2>2
<1>4. ASSUME NEW k \in Nat, k < n, k \in T PROVE k + 1 \in T
  <2>1. Aligned(it[k], old, new) /\ Len(it[k]) = n
    BY <1>4
  <2>2. k + 1 \in 0..n /\ k + 1 \in 1..n /\ k + 1 # 0 /\ (k + 1) - 1 = k
    BY <1>0, <1>4
  <2>3. it[k + 1] = [it[k] EXCEPT ![k + 1] = Settle(it[k], k + 1, old, new)]
    BY <1>2, <2>2 DEF SettledStep, OneSettles
  <2>4. Aligned(it[k + 1], old, new) /\ Len(it[k + 1]) = Len(it[k])
    BY <2>1, <2>2, <2>3, SettleAligned
  <2> QED BY <2>1, <2>4
<1> HIDE DEF T
<1>5. n \in T
  <2>1. \A m \in 0..n : m \in T
    BY <1>0, <1>3, <1>4, NatUpTo
  <2> QED BY <1>0, <2>1
<1>6. SettledRuns(rs, old, new) = it[n]
  BY SettledUnfolds DEF it
<1> QED BY <1>5, <1>6 DEF T
-----------------------------------------------------------------------------
(* The hunks of runs between the same lines make the one text the other.   *)

\* The m lines after line p, and the text as far as it is known after line p of
\* the old text.
Part(text, p, m) == SubSeq(text, p + 1, p + m)
Got(new, p, q) == [text |-> SubSeq(new, 1, q), at |-> p, fits |-> TRUE]

LEMMA SamePart ==
  ASSUME NEW old \in Text, NEW new \in Text, NEW p \in Nat, NEW q \in Nat, NEW m \in Nat,
         p + m <= Len(old), q + m <= Len(new), Equal(old, new, p, q, m)
  PROVE  Part(old, p, m) = Part(new, q, m)
<1>1. /\ Len(old) \in Nat /\ Len(new) \in Nat
      /\ (\A i \in 1..Len(old) : old[i] \in TextLine) /\ (\A i \in 1..Len(new) : new[i] \in TextLine)
  BY LinesOf
<1>2. /\ SubSeq(old, p + 1, p + m) \in Text /\ Len(SubSeq(old, p + 1, p + m)) = m
      /\ \A x \in 1..m : SubSeq(old, p + 1, p + m)[x] = old[p + x]
  <2> DEFINE i == p + 1
             j == p + m
  <2>1. i \in Int /\ j \in Int /\ (\A x \in i..j : old[x] \in TextLine)
    BY <1>1
  <2>2. j - i + 1 = m /\ (i <= j <=> m > 0) /\ \A x \in 1..m : i + x - 1 = p + x
    OBVIOUS
  <2> HIDE DEF i, j
  <2>3. /\ SubSeq(old, i, j) \in Seq(TextLine)
        /\ Len(SubSeq(old, i, j)) = IF i <= j THEN j - i + 1 ELSE 0
        /\ \A x \in 1..(j - i + 1) : SubSeq(old, i, j)[x] = old[i + x - 1]
    BY <2>1, SubSeqProperties
  <2>4. Len(SubSeq(old, i, j)) = m
    BY <2>2, <2>3
  <2>5. \A x \in 1..m : SubSeq(old, i, j)[x] = old[p + x]
    BY <2>2, <2>3
  <2> QED BY <2>3, <2>4, <2>5 DEF Text, i, j
<1>3. /\ SubSeq(new, q + 1, q + m) \in Text /\ Len(SubSeq(new, q + 1, q + m)) = m
      /\ \A x \in 1..m : SubSeq(new, q + 1, q + m)[x] = new[q + x]
  <2> DEFINE i == q + 1
             j == q + m
  <2>1. i \in Int /\ j \in Int /\ (\A x \in i..j : new[x] \in TextLine)
    BY <1>1
  <2>2. j - i + 1 = m /\ (i <= j <=> m > 0) /\ \A x \in 1..m : i + x - 1 = q + x
    OBVIOUS
  <2> HIDE DEF i, j
  <2>3. /\ SubSeq(new, i, j) \in Seq(TextLine)
        /\ Len(SubSeq(new, i, j)) = IF i <= j THEN j - i + 1 ELSE 0
        /\ \A x \in 1..(j - i + 1) : SubSeq(new, i, j)[x] = new[i + x - 1]
    BY <2>1, SubSeqProperties
  <2>4. Len(SubSeq(new, i, j)) = m
    BY <2>2, <2>3
  <2>5. \A x \in 1..m : SubSeq(new, i, j)[x] = new[q + x]
    BY <2>2, <2>3
  <2> QED BY <2>3, <2>4, <2>5 DEF Text, i, j
<1>4. \A x \in 1..m : SubSeq(old, p + 1, p + m)[x] = SubSeq(new, q + 1, q + m)[x]
  BY <1>2, <1>3 DEF Equal
<1> HIDE DEF Text
<1> DEFINE u == SubSeq(old, p + 1, p + m)
           v == SubSeq(new, q + 1, q + m)
<1>5. u \in Seq(TextLine) /\ v \in Seq(TextLine) /\ Len(u) = m /\ Len(v) = m /\ \A x \in 1..m : u[x] = v[x]
  BY <1>2, <1>3, <1>4 DEF Text
<1> HIDE DEF u, v
<1>6. u = v
  BY <1>5, SeqEqual
<1> QED BY <1>6 DEF u, v, Part

LEMMA UpTo ==
  ASSUME NEW text \in Text, NEW m \in Nat, NEW n \in Nat, m <= n, n <= Len(text)
  PROVE  /\ SubSeq(text, 1, m) \o SubSeq(text, m + 1, n) = SubSeq(text, 1, n)
         /\ Len(SubSeq(text, 1, m)) = m
<1>0. Len(text) \in Nat /\ \A i \in 1..Len(text) : text[i] \in TextLine
  BY LinesOf
<1>1. 1 \in 1..(Len(text) + 1) /\ m \in (1 - 1)..Len(text) /\ n \in m..Len(text)
  BY <1>0
<1>2. SubSeq(text, 1, m) \o SubSeq(text, m + 1, n) = SubSeq(text, 1, n)
  BY <1>1, ConcatAdjacentSubSeq DEF Text
<1>3. \A i \in 1..m : text[i] \in TextLine
  BY <1>0
<1>4. Len(SubSeq(text, 1, m)) = IF 1 <= m THEN m - 1 + 1 ELSE 0
  BY <1>3, SubSeqProperties
<1>5. Len(SubSeq(text, 1, m)) = m
  BY <1>4
<1> QED BY <1>2, <1>5

Turns(h, i1, i2, j1, j2, old, new) ==
  /\ h.i1 = i1 /\ h.i2 = i2 /\ h.j1 = j1
  /\ h.old = SubSeq(old, i1 + 1, i2) /\ h.new = SubSeq(new, j1 + 1, j2)

LEMMA PatchFits ==
  ASSUME NEW old \in Text, NEW new \in Text, NEW i1, NEW i2, NEW j1, NEW j2,
         NEW a1 \in Nat, NEW a2 \in Nat, NEW b1 \in Nat, NEW b2 \in Nat, b1 <= Len(old), b2 <= Len(new),
         Fits(i1, i2, j1, j2, a1, a2, b1, b2, old, new),
         NEW h, Turns(h, i1, i2, j1, j2, old, new)
  PROVE  Patch(Got(new, a1, a2), h, old) = Got(new, i2, j2)
<1> DEFINE m == i1 - a1
           sofar == [text |-> SubSeq(new, 1, a2), at |-> a1, fits |-> TRUE]
<1>1. /\ i1 \in Nat /\ i2 \in Nat /\ j1 \in Nat /\ j2 \in Nat /\ i1 <= i2 /\ j1 <= j2
      /\ a1 <= i1 /\ i1 - a1 = j1 - a2 /\ Equal(old, new, a1, a2, i1 - a1)
      /\ i2 <= b1 /\ b1 - i2 = b2 - j2
  BY DEF Fits
<1>h. /\ h.i1 = i1 /\ h.i2 = i2 /\ h.j1 = j1
      /\ h.old = SubSeq(old, i1 + 1, i2) /\ h.new = SubSeq(new, j1 + 1, j2)
  BY DEF Turns
<1>2. Len(old) \in Nat /\ Len(new) \in Nat
  BY LinesOf
<1>3. /\ m \in Nat /\ a1 + m = i1 /\ a2 + m = j1 /\ i1 <= Len(old)
      /\ j1 <= Len(new) /\ j2 <= Len(new) /\ a2 <= j1
      /\ j1 = a2 + i1 - a1
  BY <1>1, <1>2
<1>4. SubSeq(old, a1 + 1, i1) = SubSeq(new, a2 + 1, j1)
  <2> HIDE DEF m
  <2>1. SubSeq(old, a1 + 1, a1 + m) = SubSeq(new, a2 + 1, a2 + m)
    <3>1. m \in Nat /\ a1 + m <= Len(old) /\ a2 + m <= Len(new) /\ Equal(old, new, a1, a2, m)
      BY <1>1, <1>3 DEF m
    <3>2. Part(old, a1, m) = Part(new, a2, m)
      BY <3>1, SamePart
    <3> QED BY <3>2 DEF Part
  <2> QED BY <1>3, <2>1
<1>5. /\ SubSeq(new, 1, a2) \o SubSeq(new, a2 + 1, j1) = SubSeq(new, 1, j1) /\ Len(SubSeq(new, 1, a2)) = a2
      /\ SubSeq(new, 1, j1) \o SubSeq(new, j1 + 1, j2) = SubSeq(new, 1, j2)
  BY <1>1, <1>3, UpTo
<1>6. sofar.text = SubSeq(new, 1, a2) /\ sofar.at = a1 /\ sofar.fits = TRUE
  OBVIOUS
<1> HIDE DEF m, sofar
<1>7. sofar.text \o SubSeq(old, sofar.at + 1, h.i1) \o h.new = SubSeq(new, 1, j2)
  BY <1>4, <1>5, <1>6, <1>h
<1>8. /\ sofar.fits /\ sofar.at <= h.i1 /\ h.old = SubSeq(old, h.i1 + 1, h.i2)
      /\ h.j1 = Len(sofar.text) + h.i1 - sofar.at
  BY <1>1, <1>3, <1>5, <1>6, <1>h
<1>9. Patch(sofar, h, old) = [text |-> SubSeq(new, 1, j2), at |-> i2, fits |-> TRUE]
  BY <1>7, <1>8, <1>h DEF Patch
<1> QED BY <1>9 DEF sofar, Got

\* What the first n hunks have made of the old text.
Reached(rs, n, new) == Got(new, From(rs, n)[1], From(rs, n)[2])

LEMMA PatchReaches ==
  ASSUME NEW old \in Text, NEW new \in Text, NEW rs, Aligned(rs, old, new), NEW k \in 1..Len(rs)
  PROVE  Patch(Reached(rs, k - 1, new), Hunk(rs[k], old, new), old) = Reached(rs, k, new)
<1> DEFINE a == From(rs, k - 1)
           b == To(rs, k, old, new)
           r == rs[k]
           h == Hunk(rs[k], old, new)
<1>1. /\ a[1] \in Nat /\ a[2] \in Nat /\ b[1] \in Nat /\ b[2] \in Nat
      /\ b[1] <= Len(old) /\ b[2] <= Len(new)
      /\ Between(r, a[1], a[2], b[1], b[2], old, new)
  <2> HIDE DEF a, b
  <2> QED BY AlignedRun DEF a, b
<1>2. Turns(h, r.i1, r.i2, r.j1, r.j2, old, new)
  BY DEF Hunk, Turns
<1>3. From(rs, k) = <<r.i2, r.j2>>
  BY DEF From
<1> HIDE DEF a, b, r, h
<1>4. Fits(r.i1, r.i2, r.j1, r.j2, a[1], a[2], b[1], b[2], old, new)
  BY <1>1 DEF Between
<1>5. Patch(Got(new, a[1], a[2]), h, old) = Got(new, r.i2, r.j2)
  BY <1>1, <1>2, <1>4, PatchFits
<1> QED BY <1>3, <1>5 DEF Reached, a, h

PatchStep(it, old, hunks, n) ==
  IF n = 0 THEN [text |-> <<>>, at |-> 0, fits |-> TRUE] ELSE Patch(it[n - 1], hunks[n], old)
PatchTable(old, hunks) ==
  CHOOSE it : it = [n \in 0..Len(hunks) |-> PatchStep(it, old, hunks, n)]
LEMMA PatchUnfolds ==
  ASSUME NEW old, NEW hunks, NEW end, end = PatchTable(old, hunks)[Len(hunks)]
  PROVE  Patched(old, hunks) = [text |-> end.text \o SubSeq(old, end.at + 1, Len(old)), fits |-> end.fits]
BY DEF Patched, PatchTable, PatchStep

\* After line a1 of the old text and a2 of the new the texts have the same lines.
RestSame(old, new, a1, a2) ==
  a1 <= Len(old) /\ Len(old) - a1 = Len(new) - a2 /\ Equal(old, new, a1, a2, Len(old) - a1)

LEMMA RestJoins ==
  ASSUME NEW old \in Text, NEW new \in Text, NEW a1 \in Nat, NEW a2 \in Nat, RestSame(old, new, a1, a2)
  PROVE  SubSeq(new, 1, a2) \o SubSeq(old, a1 + 1, Len(old)) = new
<1> DEFINE m == Len(old) - a1
           n == Len(new)
<1>1. a1 <= Len(old) /\ Len(old) - a1 = n - a2 /\ Equal(old, new, a1, a2, m)
  BY DEF RestSame
<1>2. Len(old) \in Nat /\ n \in Nat
  BY LinesOf
<1>3. /\ m \in Nat /\ a1 + m = Len(old) /\ a2 + m = n
      /\ a1 + m <= Len(old) /\ a2 + m <= n /\ a2 <= n /\ n <= n
  BY <1>1, <1>2
<1>4. Part(old, a1, m) = Part(new, a2, m)
  <2> HIDE DEF m
  <2> QED BY <1>1, <1>3, SamePart
<1>5. SubSeq(old, a1 + 1, Len(old)) = SubSeq(new, a2 + 1, n)
  BY <1>3, <1>4 DEF Part
<1>6. SubSeq(new, 1, a2) \o SubSeq(new, a2 + 1, n) = SubSeq(new, 1, n)
  <2> HIDE DEF n
  <2> QED BY <1>2, <1>3, UpTo DEF n
<1>7. SubSeq(new, 1, n) = new
  BY SubSeqFull DEF Text
<1> QED BY <1>5, <1>6, <1>7

HunksFor(hunks, rs, old, new) ==
  Len(hunks) = Len(rs) /\ \A i \in 1..Len(rs) : hunks[i] = Hunk(rs[i], old, new)

\* _text_hunks: patched with the hunks of aligned runs, the old text is the new.
LEMMA PatchedBack ==
  ASSUME NEW old \in Text, NEW new \in Text, NEW rs, Aligned(rs, old, new),
         NEW hunks, HunksFor(hunks, rs, old, new)
  PROVE  Patched(old, hunks) = [text |-> new, fits |-> TRUE]
<1> DEFINE n == Len(rs)
           Step(it, k) == PatchStep(it, old, hunks, k)
           it == PatchTable(old, hunks)
           a == From(rs, n)
<1>0. n \in Nat /\ Len(hunks) = n /\ \A i \in 1..n : hunks[i] = Hunk(rs[i], old, new)
  BY LenProperties DEF Aligned, HunksFor
<1>1. Reached(rs, 0, new) = [text |-> <<>>, at |-> 0, fits |-> TRUE]
  <2>1. SubSeq(new, 1, 0) = <<>>
    BY SubSeqEmpty
  <2> QED BY <2>1 DEF Reached, Got, From
<1>2. \A k \in 1..n : Patch(Reached(rs, k - 1, new), hunks[k], old) = Reached(rs, k, new)
  BY <1>0, PatchReaches
<1>3. \E f : f = [k \in 0..n |-> Step(f, k)]
  <2> DEFINE f == [k \in 0..n |-> Reached(rs, k, new)]
  <2>1. ASSUME NEW k \in 0..n PROVE f[k] = Step(f, k)
    <3>1. CASE k = 0
      <4>1. f[k] = Reached(rs, 0, new)
        BY <3>1
      <4> QED BY <1>1, <3>1, <4>1 DEF PatchStep
    <3>2. CASE k # 0
      <4>1. k \in 1..n /\ k - 1 \in 0..n
        BY <1>0, <3>2
      <4>2. f[k] = Reached(rs, k, new) /\ f[k - 1] = Reached(rs, k - 1, new)
        BY <4>1
      <4> HIDE DEF f
      <4>3. Patch(f[k - 1], hunks[k], old) = f[k]
        BY <1>2, <4>1, <4>2
      <4> QED BY <3>2, <4>3 DEF PatchStep
    <3> QED BY <3>1, <3>2
  <2>2. f = [k \in 0..n |-> f[k]]
    OBVIOUS
  <2> HIDE DEF f
  <2>3. f = [k \in 0..n |-> Step(f, k)]
    BY <2>1, <2>2
  <2> QED BY <2>3
<1>4. it = [k \in 0..n |-> Step(it, k)]
  BY <1>0, <1>3 DEF PatchTable
<1> HIDE DEF it, n
<1>5. \A k \in 0..n : it[k] = PatchStep(it, old, hunks, k)
  BY <1>4
<1> DEFINE T == {k \in Nat : it[k] = Reached(rs, k, new)}
<1>6. 0 \in T
  <2>1. 0 \in 0..n
    BY <1>0
  <2>2. it[0] = PatchStep(it, old, hunks, 0)
    BY <1>5, <2>1
  <2>3. it[0] = Reached(rs, 0, new)
    BY <1>1, <2>2 DEF PatchStep
  <2> QED BY <2>3
<1>7. ASSUME NEW k \in Nat, k < n, k \in T PROVE k + 1 \in T
  <2>1. k + 1 \in 0..n /\ k + 1 \in 1..n /\ (k + 1) - 1 = k /\ k + 1 # 0 /\ it[k] = Reached(rs, k, new)
    BY <1>0, <1>7
  <2>2. it[k + 1] = PatchStep(it, old, hunks, k + 1)
    BY <1>5, <2>1
  <2>3. it[k + 1] = Patch(it[k], hunks[k + 1], old)
    BY <2>1, <2>2 DEF PatchStep
  <2>4. Patch(Reached(rs, k, new), hunks[k + 1], old) = Reached(rs, k + 1, new)
    BY <1>2, <2>1
  <2>5. it[k + 1] = Reached(rs, k + 1, new)
    BY <2>1, <2>3, <2>4
  <2> QED BY <2>5
<1> HIDE DEF T
<1>8. \A k \in 0..n : k \in T
  BY <1>0, <1>6, <1>7, NatUpTo
<1>9. it[n] = Reached(rs, n, new)
  <2>1. n \in T
    BY <1>0, <1>8
  <2> QED BY <2>1 DEF T
<1> DEFINE end == Reached(rs, n, new)
<1>10. end.text = SubSeq(new, 1, a[2]) /\ end.at = a[1] /\ end.fits = TRUE
  BY DEF Reached, Got
<1>11. Patched(old, hunks) = [text |-> end.text \o SubSeq(old, end.at + 1, Len(old)), fits |-> end.fits]
  <2> HIDE DEF end
  <2> QED BY <1>0, <1>9, PatchUnfolds DEF it, end
\* After the last run the texts have the same lines.
<1>12. /\ a[1] \in Nat /\ a[2] \in Nat /\ a[1] <= Len(old) /\ Len(old) - a[1] = Len(new) - a[2]
       /\ Equal(old, new, a[1], a[2], Len(old) - a[1])
  <2>1. SameLines(a, To(rs, n, old, new), old, new)
    <3>1. n \in 0..n
      BY <1>0
    <3> QED BY <3>1 DEF Aligned, n
  <2>2. To(rs, n, old, new) = <<Len(old), Len(new)>>
    BY DEF To, n
  <2>3. a[1] \in Nat /\ a[2] \in Nat
    <3>1. n # 0 => rs[n] \in Spans
      BY <1>0 DEF Aligned, n
    <3> QED BY <3>1 DEF From, Spans
  <2> HIDE DEF a
  <2> QED BY <2>1, <2>2, <2>3 DEF SameLines, Equal
<1> HIDE DEF end, a
<1>14. SubSeq(new, 1, a[2]) \o SubSeq(old, a[1] + 1, Len(old)) = new
  <2>1. RestSame(old, new, a[1], a[2])
    BY <1>12 DEF RestSame
  <2> QED BY <1>12, <2>1, RestJoins
<1> QED BY <1>10, <1>11, <1>14
-----------------------------------------------------------------------------
(* The hunks of a text, listed in their order. *)

LEMMA LaterIsHigher ==
  ASSUME NEW a \in Nat, NEW b \in Nat, NEW i1 \in Nat, NEW i2 \in Nat, NEW j1 \in Nat, NEW j2 \in Nat,
         a <= i1, i1 - a = j1 - b, i1 <= i2, j1 <= j2, i1 < i2 \/ j1 < j2
  PROVE  a + b < i2 + j2
OBVIOUS

LEMMA AlignedClimbs ==
  ASSUME NEW old \in Text, NEW new \in Text, NEW rs, Aligned(rs, old, new)
  PROVE  /\ \A i \in 1..Len(rs) : Place(rs[i]) \in Nat
         /\ \A i, j \in 1..Len(rs) : i < j => Place(rs[i]) < Place(rs[j])
<1> DEFINE n == Len(rs)
           T == {d \in Nat : \A i \in 1..n : i + d + 1 <= n => Place(rs[i]) < Place(rs[i + d + 1])}
<1>0. n \in Nat /\ (\A i \in 1..n : IsRun(rs[i], old, new))
      /\ \A k \in 0..n : SameLines(From(rs, k), To(rs, k, old, new), old, new)
  BY LenProperties DEF Aligned
<1>1. \A i \in 1..n : /\ rs[i].i1 \in Nat /\ rs[i].i2 \in Nat /\ rs[i].j1 \in Nat /\ rs[i].j2 \in Nat
                      /\ rs[i].i1 <= rs[i].i2 /\ rs[i].j1 <= rs[i].j2
                      /\ (rs[i].i1 < rs[i].i2 \/ rs[i].j1 < rs[i].j2)
  BY <1>0 DEF IsRun, Spans, NotEmpty
<1>2. \A i \in 1..n : Place(rs[i]) \in Nat
  BY <1>1 DEF Place
<1>3. ASSUME NEW i \in 1..n, i + 1 \in 1..n PROVE Place(rs[i]) < Place(rs[i + 1])
  <2>1. i # 0 /\ i # n /\ i \in 0..n
    BY <1>0, <1>3
  <2>2. From(rs, i) = <<rs[i].i2, rs[i].j2>> /\ To(rs, i, old, new) = <<rs[i + 1].i1, rs[i + 1].j1>>
    BY <2>1 DEF From, To
  <2>3. SameLines(From(rs, i), To(rs, i, old, new), old, new)
    BY <1>0, <2>1
  <2>4. rs[i].i2 <= rs[i + 1].i1 /\ rs[i + 1].i1 - rs[i].i2 = rs[i + 1].j1 - rs[i].j2
    BY <2>2, <2>3 DEF SameLines
  <2>5. /\ rs[i].i2 \in Nat /\ rs[i].j2 \in Nat
        /\ rs[i + 1].i1 \in Nat /\ rs[i + 1].i2 \in Nat /\ rs[i + 1].j1 \in Nat /\ rs[i + 1].j2 \in Nat
        /\ rs[i + 1].i1 <= rs[i + 1].i2 /\ rs[i + 1].j1 <= rs[i + 1].j2
        /\ (rs[i + 1].i1 < rs[i + 1].i2 \/ rs[i + 1].j1 < rs[i + 1].j2)
    BY <1>1, <1>3
  <2>6. rs[i].i2 + rs[i].j2 < rs[i + 1].i2 + rs[i + 1].j2
    BY <2>4, <2>5, LaterIsHigher
  <2> QED BY <2>6 DEF Place
<1> HIDE DEF n
<1>4. 0 \in T
  <2>1. \A i \in 1..n : i + 0 + 1 <= n => i + 1 \in 1..n /\ i + 0 + 1 = i + 1
    BY <1>0
  <2> QED BY <1>3, <2>1
<1>5. ASSUME NEW d \in Nat, d < n, d \in T PROVE d + 1 \in T
  <2> SUFFICES ASSUME NEW i \in 1..n, i + (d + 1) + 1 <= n
               PROVE  Place(rs[i]) < Place(rs[i + (d + 1) + 1])
    OBVIOUS
  <2> DEFINE j == i + d + 1
  <2>1. j \in 1..n /\ j + 1 \in 1..n /\ i + (d + 1) + 1 = j + 1 /\ i + d + 1 <= n
    BY <1>0
  <2>2. Place(rs[i]) < Place(rs[j])
    BY <1>5, <2>1
  <2> HIDE DEF j
  <2>3. Place(rs[j]) < Place(rs[j + 1])
    BY <1>3, <2>1
  <2>4. Place(rs[i]) \in Nat /\ Place(rs[j]) \in Nat /\ Place(rs[j + 1]) \in Nat
    BY <1>2, <2>1
  <2>5. Place(rs[i]) < Place(rs[j + 1])
    BY <2>2, <2>3, <2>4
  <2> QED BY <2>1, <2>5
<1>6. ASSUME NEW i \in 1..n, NEW j \in 1..n, i < j PROVE Place(rs[i]) < Place(rs[j])
  <2> DEFINE d == j - i - 1
  <2>1. d \in 0..n /\ i + d + 1 = j /\ i + d + 1 <= n
    BY <1>0, <1>6
  <2> HIDE DEF T, d
  <2>2. d \in T
    BY <1>0, <1>4, <1>5, <2>1, NatUpTo
  <2>3. Place(rs[i]) < Place(rs[i + d + 1])
    BY <2>1, <2>2 DEF T
  <2> QED BY <2>1, <2>3
<1> QED BY <1>2, <1>6 DEF n

\* A list whose places climb is the order of its members.
LEMMA ClimbingList ==
  ASSUME NEW n \in Nat, NEW list, DOMAIN list = 1..n, list = [i \in 1..n |-> list[i]],
         \A i \in 1..n : Place(list[i]) \in Nat,
         \A i, j \in 1..n : i < j => Place(list[i]) < Place(list[j]),
         NEW S, S = {list[i] : i \in 1..n}
  PROVE  Placed(S) /\ Cardinality(S) = n /\ InOrder(S) = list
<1>1. \A i, j \in 1..n : list[i] = list[j] => i = j
  <2> SUFFICES ASSUME NEW i \in 1..n, NEW j \in 1..n, list[i] = list[j], i # j PROVE FALSE
    OBVIOUS
  <2>1. i < j \/ j < i
    OBVIOUS
  <2>2. Place(list[i]) < Place(list[j]) \/ Place(list[j]) < Place(list[i])
    BY <2>1
  <2> QED BY <2>2
<1>2. list \in [1..n -> S]
  OBVIOUS
<1>3. list \in Injection(1..n, S) /\ list \in Surjection(1..n, S)
  <2>1. list \in Injection(1..n, S)
    BY <1>1, <1>2 DEF Injection, IsInjective
  <2>2. \A r \in S : \E i \in 1..n : list[i] = r
    OBVIOUS
  <2> QED BY <1>2, <2>1, <2>2 DEF Surjection
<1>4. IsFiniteSet(1..n) /\ Cardinality(1..n) = n
  BY FS_Interval
<1>5. IsFiniteSet(S) /\ Cardinality(S) = n
  BY <1>3, <1>4, FS_Surjection
<1>6. Placed(S)
  <2>1. \A r \in S : Place(r) \in Nat
    OBVIOUS
  <2>2. \A r, s \in S : r # s => Place(r) # Place(s)
    <3> SUFFICES ASSUME NEW i \in 1..n, NEW j \in 1..n, list[i] # list[j]
                 PROVE  Place(list[i]) # Place(list[j])
      OBVIOUS
    <3>1. i < j \/ j < i
      OBVIOUS
    <3>2. Place(list[i]) < Place(list[j]) \/ Place(list[j]) < Place(list[i])
      BY <3>1
    <3>3. Place(list[i]) \in Nat /\ Place(list[j]) \in Nat
      OBVIOUS
    <3> QED BY <3>2, <3>3
  <2> QED BY <1>5, <2>1, <2>2 DEF Placed
<1>7. Lists(list, S)
  BY <1>2, <1>5 DEF Lists, Climbs
<1> QED BY <1>5, <1>6, <1>7, OneOrder

\* _text_hunks, wherever the lines match: in their order the hunks turn the old
\* text into the new, and there are none exactly when the texts are equal.
LEMMA HunksListed ==
  ASSUME NEW old \in Text, NEW new \in Text, NEW match \in Matches(old, new)
  PROVE  /\ IsFiniteSet(Hunks(old, new, match))
         /\ Patched(old, InOrder(Hunks(old, new, match))) = [text |-> new, fits |-> TRUE]
         /\ Hunks(old, new, match) = {} <=> old = new
<1> DEFINE runs == Runs(old, new, match)
           rs == SettledRuns(runs, old, new)
           n == Len(rs)
           list == [i \in 1..n |-> Hunk(rs[i], old, new)]
           S == Hunks(old, new, match)
<1>1. Aligned(rs, old, new) /\ n = Len(runs)
  <2>1. Aligned(runs, old, new)
    BY RunsAligned
  <2> HIDE DEF runs
  <2> QED BY <2>1, SettledAligned
<1>2. S = {Hunk(rs[i], old, new) : i \in DOMAIN rs}
  BY DEF Hunks
<1> HIDE DEF rs
<1>3. n \in Nat /\ DOMAIN rs = 1..n
  BY <1>1, LenProperties DEF Aligned
<1>4. /\ \A i \in 1..n : Place(rs[i]) \in Nat
      /\ \A i, j \in 1..n : i < j => Place(rs[i]) < Place(rs[j])
  BY <1>1, AlignedClimbs
<1> HIDE DEF n, S
<1>5. S = {list[i] : i \in 1..n}
  BY <1>2, <1>3
<1>6. \A i \in 1..n : Place(list[i]) = Place(rs[i])
  BY DEF Place, Hunk
<1>7. /\ DOMAIN list = 1..n /\ list = [i \in 1..n |-> list[i]]
      /\ \A i \in 1..n : Place(list[i]) \in Nat
      /\ \A i, j \in 1..n : i < j => Place(list[i]) < Place(list[j])
  <2>1. DOMAIN list = 1..n /\ list = [i \in 1..n |-> list[i]]
    OBVIOUS
  <2> HIDE DEF list
  <2> QED BY <1>4, <1>6, <2>1
<1>8. Placed(S) /\ Cardinality(S) = n /\ InOrder(S) = list
  <2> HIDE DEF list
  <2> QED BY <1>3, <1>5, <1>7, ClimbingList
<1>9. HunksFor(list, rs, old, new)
  <2>1. Len(list) = n
    BY <1>3
  <2> QED BY <2>1 DEF HunksFor, n
<1>10. Patched(old, InOrder(S)) = [text |-> new, fits |-> TRUE]
  <2> HIDE DEF list
  <2> QED BY <1>1, <1>8, <1>9, PatchedBack
<1>11. S = {} <=> n = 0
  BY <1>8, FS_EmptySet DEF Placed
<1>12. ASSUME n = 0 PROVE old = new
  <2>1. From(rs, 0) = <<0, 0>> /\ To(rs, 0, old, new) = <<Len(old), Len(new)>>
    BY <1>12 DEF From, To, n
  <2>2. SameLines(<<0, 0>>, <<Len(old), Len(new)>>, old, new)
    BY <1>1, <1>3, <1>12, <2>1 DEF Aligned, n
  <2>3. RestSame(old, new, 0, 0)
    BY <2>2 DEF SameLines, RestSame, Equal
  <2>4. SubSeq(new, 1, 0) \o SubSeq(old, 0 + 1, Len(old)) = new
    BY <2>3, RestJoins
  <2>5. SubSeq(new, 1, 0) = <<>> /\ SubSeq(old, 0 + 1, Len(old)) = old /\ <<>> \o old = old
    BY SubSeqEmpty, SubSeqFull, ConcatEmptySeq DEF Text
  <2> QED BY <2>4, <2>5
<1>13. ASSUME old = new PROVE n = 0
  <2>1. match = {<<i, i>> : i \in 1..Len(old)}
    BY <1>13 DEF Matches
  <2>2. ASSUME NEW r \in Found(old, new, match) PROVE FALSE
    <3>1. /\ IsRun(r, old, new) /\ <<r.i1, r.j1>> \in Starts(match)
          /\ <<r.i2 + 1, r.j2 + 1>> \in Ends(old, new, match)
          /\ LastBefore(match, <<r.i2 + 1, r.j2 + 1>>) = <<r.i1, r.j1>>
      BY FoundAreRuns
    <3>2. /\ r.i1 \in Nat /\ r.i2 \in Nat /\ r.j1 \in Nat /\ r.j2 \in Nat
          /\ r.i1 <= r.i2 /\ r.j1 <= r.j2 /\ (r.i1 < r.i2 \/ r.j1 < r.j2) /\ r.i2 <= Len(old)
      BY <3>1 DEF IsRun, Spans, NotEmpty
    <3>3. Len(old) \in Nat
      BY LinesOf
    <3>4. r.i1 = r.j1
      BY <2>1, <3>1 DEF Starts
    <3>5. <<r.i2 + 1, r.j2 + 1>> = <<Len(old) + 1, Len(old) + 1>>
           \/ \E i \in 1..Len(old) : <<r.i2 + 1, r.j2 + 1>> = <<i, i>>
      BY <1>13, <2>1, <3>1 DEF Ends
    <3>6. r.i2 + 1 = r.j2 + 1
      BY <3>5
    <3>7. r.i1 < r.i2 /\ r.i1 + 1 \in 1..Len(old) /\ r.i1 + 1 < r.i2 + 1
      BY <3>2, <3>3, <3>4, <3>6
    <3> DEFINE q == <<r.i1 + 1, r.i1 + 1>>
               p == <<r.i2 + 1, r.j2 + 1>>
    <3>8. q \in Starts(match) /\ q[1] = r.i1 + 1 /\ p[1] = r.i2 + 1 /\ p \in Ends(old, new, match)
      BY <2>1, <3>1, <3>7 DEF Starts
    <3>9. LastBefore(match, p)[1] = r.i1
      BY <3>1
    <3> HIDE DEF q, p
    <3>10. q[1] <= LastBefore(match, p)[1]
      BY <3>7, <3>8, LastIsBefore
    <3> QED BY <3>2, <3>8, <3>9, <3>10
  <2>3. Found(old, new, match) = {}
    BY <2>2
  <2>4. Len(runs) = 0
    <3>1. Len(InOrder(Found(old, new, match))) = Cardinality(Found(old, new, match))
      BY FoundPlaced, InOrderLists
    <3> QED BY <2>3, <3>1, RunsAreFound, FS_EmptySet
  <2> QED BY <1>1, <2>4
<1> QED BY <1>8, <1>10, <1>11, <1>12, <1>13 DEF S, Placed
-----------------------------------------------------------------------------
(* What a report says, mode by mode. *)

\* Agreement with the bands as they are computed.
SameWithin(old, new, compare) ==
  \/ old.kind = new.kind /\ old.is = new.is
  \/ /\ old.kind = "dict" /\ new.kind = "dict"
     /\ \A f \in DOMAIN old.is \cup DOMAIN new.is :
          \/ At(old.is, f) = At(new.is, f)
          \/ /\ f \in DOMAIN compare.fields /\ {At(old.is, f), At(new.is, f)} \cap Others = {}
             /\ WithinBand(old.is[f], new.is[f], compare.fields[f])

AgreeWithin(pre, post, compare) ==
  LET Same == \A k \in DOMAIN pre \cap DOMAIN post : SameWithin(pre[k], post[k], compare)
  IN  CASE compare.mode \in {"equality_set", "text_diff"} ->
             /\ Same /\ DOMAIN post \subseteq DOMAIN pre
             /\ compare.ignoreRemoved \/ DOMAIN pre \subseteq DOMAIN post
        [] compare.mode = "tolerance" ->
             \A f \in DOMAIN pre \cap DOMAIN post :
               \/ {pre[f], post[f]} \cap Others # {}
               \/ DOMAIN compare.fields # {} /\ f \notin DOMAIN compare.fields
               \/ WithinBand(pre[f], post[f],
                    IF f \in DOMAIN compare.fields /\ compare.fields[f] # Unbounded
                      THEN compare.fields[f] ELSE compare.band)
        [] OTHER -> Agree(pre, post, compare, TRUE)

\* A report of finitely many entries that passes when the views agree, and
\* otherwise has entries to show.
Sound(r, agree) ==
  /\ IsFiniteSet(r.added) /\ IsFiniteSet(r.removed) /\ IsFiniteSet(r.changed) /\ IsFiniteSet(r.missed)
  /\ r.result \in {"pass", "diffs", "info"}
  /\ r.result = "pass" <=> agree
  /\ r.result = "diffs" <=> r.added \cup r.removed \cup r.changed \cup r.missed # {}

LEMMA VerdictSound ==
  ASSUME NEW A, NEW R, NEW C, NEW M,
         IsFiniteSet(A), IsFiniteSet(R), IsFiniteSet(C), IsFiniteSet(M),
         NEW agree, agree <=> A = {} /\ R = {} /\ C = {} /\ M = {}
  PROVE  Sound(Verdict(A, R, C, M), agree)
<1> DEFINE r == Verdict(A, R, C, M)
<1>1. /\ r.added = A /\ r.removed = R /\ r.changed = C /\ r.missed = M
      /\ r.result = IF A \cup R \cup C \cup M = {} THEN "pass" ELSE "diffs"
  BY DEF Verdict, Report
<1> HIDE DEF r
<1>2. A \cup R \cup C \cup M = {} <=> A = {} /\ R = {} /\ C = {} /\ M = {}
  OBVIOUS
<1>3. Sound(r, agree)
  BY <1>1, <1>2 DEF Sound
<1> QED BY <1>3 DEF r

LEMMA FiniteImage ==
  ASSUME NEW S, IsFiniteSet(S), NEW f, DOMAIN f = S, NEW T, T = {f[x] : x \in S}
  PROVE  IsFiniteSet(T)
BY FiniteValues

LEMMA PresenceSound ==
  ASSUME NEW pre, NEW post, NEW compare, compare.mode = "presence_only",
         IsView(pre, "presence_only"), IsView(post, "presence_only")
  PROVE  Sound(DiffPresence(pre, post), AgreeWithin(pre, post, compare))
<1> DEFINE A == DOMAIN post \ DOMAIN pre
           R == DOMAIN pre \ DOMAIN post
<1>1. IsFiniteSet(A) /\ IsFiniteSet(R) /\ IsFiniteSet({})
  BY FS_Difference, FS_EmptySet DEF IsView
<1>2. AgreeWithin(pre, post, compare) <=> DOMAIN pre = DOMAIN post
  BY DEF AgreeWithin, Agree
<1>3. AgreeWithin(pre, post, compare) <=> A = {} /\ R = {} /\ {} = {} /\ {} = {}
  BY <1>2
<1> HIDE DEF A, R
<1>4. Sound(Verdict(A, R, {}, {}), AgreeWithin(pre, post, compare))
  BY <1>1, <1>3, VerdictSound
<1> QED BY <1>4 DEF DiffPresence, A, R

LEMMA ScalarSound ==
  ASSUME NEW pre, NEW post, NEW compare, compare.mode = "equality_scalar",
         IsView(pre, "equality_scalar"), IsView(post, "equality_scalar")
  PROVE  Sound(DiffEqualityScalar(pre, post), AgreeWithin(pre, post, compare))
<1> DEFINE K == {k \in DOMAIN pre \cup DOMAIN post : At(pre, k) # At(post, k)}
           f == [k \in K |-> <<k, "whole">>]
           C == {<<k, "whole">> : k \in K}
<1>1. IsFiniteSet(DOMAIN pre \cup DOMAIN post)
  BY FS_Union DEF IsView
<1>2. IsFiniteSet(K)
  BY <1>1, FS_Subset
<1>3. AgreeWithin(pre, post, compare) <=> \A k \in DOMAIN pre \cup DOMAIN post : At(pre, k) = At(post, k)
  BY DEF AgreeWithin, Agree
<1>4. AgreeWithin(pre, post, compare) <=> K = {}
  BY <1>3
<1>5. K = {} <=> C = {}
  OBVIOUS
<1>6. DiffEqualityScalar(pre, post) = Verdict({}, {}, C, {})
  BY DEF DiffEqualityScalar
<1>7. DOMAIN f = K /\ C = {f[k] : k \in K}
  OBVIOUS
<1> HIDE DEF K, f, C
<1>8. IsFiniteSet(C) /\ IsFiniteSet({})
  BY <1>2, <1>7, FiniteImage, FS_EmptySet
<1>9. AgreeWithin(pre, post, compare) <=> {} = {} /\ {} = {} /\ C = {} /\ {} = {}
  BY <1>4, <1>5
<1> QED BY <1>6, <1>8, <1>9, VerdictSound

LEMMA CapabilitySound ==
  ASSUME NEW pre, NEW post, NEW compare, IsCompare(compare), compare.mode = "capability",
         IsView(pre, "capability"), IsView(post, "capability")
  PROVE  Sound(DiffCapability(pre, post, compare), AgreeWithin(pre, post, compare))
<1> DEFINE floor == compare.floorPre
           least == compare.minPost
           Gates(k) == pre[k] # None /\ pre[k] >= floor
           Works(k) == k \in DOMAIN post /\ post[k] # None /\ post[k] >= least
           M == {k \in {k \in DOMAIN pre : Gates(k)} : ~Works(k)}
<1>1. IsFiniteSet(M) /\ IsFiniteSet({})
  <2>1. M \in SUBSET DOMAIN pre /\ IsFiniteSet(DOMAIN pre)
    BY DEF IsView
  <2> HIDE DEF M
  <2> QED BY <2>1, FS_Subset, FS_EmptySet
<1>2. floor \in Nat /\ least \in Nat
      /\ (\A k \in DOMAIN post : post[k] \in Nat \cup {None}) /\ None \notin Int
  BY NoneAssumption DEF IsCompare, IsView
<1>3. AgreeWithin(pre, post, compare) <=>
        \A k \in DOMAIN pre : Gates(k) => k \in DOMAIN post /\ post[k] \notin 0..(least - 1) \cup {None}
  BY DEF AgreeWithin, Agree
<1>4. \A k \in DOMAIN post :
        post[k] \notin 0..(least - 1) \cup {None} <=> post[k] # None /\ post[k] >= least
  BY <1>2
<1>5. AgreeWithin(pre, post, compare) <=> M = {}
  BY <1>3, <1>4
<1>6. DiffCapability(pre, post, compare) = Verdict({}, {}, {}, M)
  BY DEF DiffCapability
<1> HIDE DEF M
<1>7. AgreeWithin(pre, post, compare) <=> {} = {} /\ {} = {} /\ {} = {} /\ M = {}
  BY <1>5
<1> QED BY <1>1, <1>6, <1>7, VerdictSound

LEMMA ToleranceSound ==
  ASSUME NEW pre, NEW post, NEW compare, IsCompare(compare), compare.mode = "tolerance",
         IsView(pre, "tolerance"), IsView(post, "tolerance")
  PROVE  Sound(DiffTolerance(pre, post, compare), AgreeWithin(pre, post, compare))
<1> DEFINE declared == DOMAIN compare.fields
           fields == IF declared # {} THEN declared
                     ELSE {f \in DOMAIN pre \cup DOMAIN post : Numeric(At(pre, f)) \/ Numeric(At(post, f))}
           Band(f) == IF f \in declared /\ compare.fields[f] # Unbounded THEN compare.fields[f]
                      ELSE compare.band
           M == {f \in fields : /\ Numeric(At(pre, f)) /\ Numeric(At(post, f))
                                /\ ~WithinBand(pre[f], post[f], Band(f))}
<1>1. \A f : Numeric(At(pre, f)) <=> f \in DOMAIN pre /\ pre[f] \notin Others
  BY DEF Numeric, Others, At
<1>2. \A f : Numeric(At(post, f)) <=> f \in DOMAIN post /\ post[f] \notin Others
  BY DEF Numeric, Others, At
<1>3. M \in SUBSET DOMAIN pre
  BY <1>1
<1>4. IsFiniteSet(M) /\ IsFiniteSet({})
  <2> HIDE DEF M
  <2> QED BY <1>3, FS_Subset, FS_EmptySet DEF IsView
<1>7. AgreeWithin(pre, post, compare) <=>
        \A f \in DOMAIN pre \cap DOMAIN post :
          \/ {pre[f], post[f]} \cap Others # {}
          \/ declared # {} /\ f \notin declared
          \/ WithinBand(pre[f], post[f], Band(f))
  BY DEF AgreeWithin
<1>8. DiffTolerance(pre, post, compare) = Verdict({}, {}, {}, M)
  BY DEF DiffTolerance
<1>9. ASSUME NEW f \in DOMAIN pre \cap DOMAIN post
      PROVE  f \in M <=> ~ (\/ {pre[f], post[f]} \cap Others # {}
                            \/ declared # {} /\ f \notin declared
                            \/ WithinBand(pre[f], post[f], Band(f)))
  <2>1. {pre[f], post[f]} \cap Others # {}
          <=> ~ (pre[f] \notin Others /\ post[f] \notin Others)
    OBVIOUS
  <2>2. CASE ~ (pre[f] \notin Others /\ post[f] \notin Others)
    BY <1>1, <1>2, <2>1, <2>2
  <2>3. CASE pre[f] \notin Others /\ post[f] \notin Others
    <3>1. f \in fields <=> ~ (declared # {} /\ f \notin declared)
      BY <1>1, <2>3
    <3>2. Numeric(At(pre, f)) /\ Numeric(At(post, f))
      BY <1>1, <1>2, <2>3
    <3> HIDE DEF fields, Band, declared
    <3> QED BY <2>1, <2>3, <3>1, <3>2
  <2> QED BY <2>2, <2>3
<1>10. \A f \in M : f \in DOMAIN pre \cap DOMAIN post
  BY <1>1, <1>2
<1> HIDE DEF M, declared, Band
<1>11. AgreeWithin(pre, post, compare) <=> M = {}
  BY <1>7, <1>9, <1>10
<1>12. AgreeWithin(pre, post, compare) <=> {} = {} /\ {} = {} /\ {} = {} /\ M = {}
  BY <1>11
<1> QED BY <1>4, <1>8, <1>12, VerdictSound
-----------------------------------------------------------------------------
(* Values and texts. *)

EntriesOf(k, old, new, compare) ==
  IF old.kind = new.kind /\ old.is = new.is THEN {}
  ELSE IF old.kind = "dict" /\ new.kind = "dict"
    THEN {<<k, f>> : f \in Differing(old.is, new.is, compare)}
  ELSE {<<k, "whole">>}

LEMMA FieldsDiffer ==
  ASSUME NEW old, NEW new, NEW compare, IsCompare(compare),
         IsFiniteSet(DOMAIN old), IsFiniteSet(DOMAIN new),
         \A f \in DOMAIN old : old[f] \in Int \cup Others,
         \A f \in DOMAIN new : new[f] \in Int \cup Others
  PROVE  /\ IsFiniteSet(Differing(old, new, compare))
         /\ Differing(old, new, compare) = {} <=>
              \A f \in DOMAIN old \cup DOMAIN new :
                \/ At(old, f) = At(new, f)
                \/ /\ f \in DOMAIN compare.fields /\ {At(old, f), At(new, f)} \cap Others = {}
                   /\ WithinBand(old[f], new[f], compare.fields[f])
<1> DEFINE D == DOMAIN old \cup DOMAIN new
           Within(f) == /\ f \in DOMAIN compare.fields /\ Numeric(At(old, f)) /\ Numeric(At(new, f))
                        /\ WithinBand(At(old, f), At(new, f), compare.fields[f])
           Bounded(f) == /\ f \in DOMAIN compare.fields /\ {At(old, f), At(new, f)} \cap Others = {}
                      /\ WithinBand(old[f], new[f], compare.fields[f])
           X == Differing(old, new, compare)
<1>1. X = {f \in D : At(old, f) # At(new, f) /\ ~ Within(f)}
  BY DEF Differing
<1>2. X \in SUBSET D /\ IsFiniteSet(D)
  BY <1>1, FS_Union
<1>3. IsFiniteSet(X)
  <2> HIDE DEF X, D
  <2> QED BY <1>2, FS_Subset
<1>4. ASSUME NEW f PROVE Within(f) <=> Bounded(f)
  <2>1. Numeric(At(old, f)) /\ Numeric(At(new, f)) <=> {At(old, f), At(new, f)} \cap Others = {}
    BY DEF Numeric, Others
  <2>2. Numeric(At(old, f)) => At(old, f) = old[f] /\ old[f] \in Int
    BY DEF Numeric, Others, At
  <2>3. Numeric(At(new, f)) => At(new, f) = new[f] /\ new[f] \in Int
    BY DEF Numeric, Others, At
  <2>5. ASSUME f \in DOMAIN compare.fields, Numeric(At(old, f)), Numeric(At(new, f))
        PROVE  WithinBand(At(old, f), At(new, f), compare.fields[f])
                 <=> WithinBand(old[f], new[f], compare.fields[f])
    BY <2>2, <2>3, <2>5
  <2> QED BY <2>1, <2>5
<1> HIDE DEF X, Within, Bounded
<1>5. X = {} <=> \A f \in D : At(old, f) = At(new, f) \/ Bounded(f)
  BY <1>1, <1>4
<1> QED BY <1>3, <1>5 DEF X, Bounded

LEMMA ValueEntries ==
  ASSUME NEW k, NEW old, NEW new, NEW compare, IsCompare(compare),
         IsValue(old, "equality_set"), IsValue(new, "equality_set")
  PROVE  /\ IsFiniteSet(EntriesOf(k, old, new, compare))
         /\ EntriesOf(k, old, new, compare) = {} <=> SameWithin(old, new, compare)
         /\ \A e \in EntriesOf(k, old, new, compare) : \E x : e = <<k, x>>
<1>1. CASE old.kind = new.kind /\ old.is = new.is
  BY <1>1, FS_EmptySet DEF EntriesOf, SameWithin
<1>2. CASE ~ (old.kind = new.kind /\ old.is = new.is) /\ old.kind = "dict" /\ new.kind = "dict"
  <2> DEFINE X == Differing(old.is, new.is, compare)
             g == [f \in X |-> <<k, f>>]
             E == {<<k, f>> : f \in X}
  <2>1. /\ IsFiniteSet(DOMAIN old.is) /\ IsFiniteSet(DOMAIN new.is)
        /\ \A f \in DOMAIN old.is : old.is[f] \in Int \cup Others
        /\ \A f \in DOMAIN new.is : new.is[f] \in Int \cup Others
    BY <1>2 DEF IsValue
  <2>2. EntriesOf(k, old, new, compare) = E
    BY <1>2 DEF EntriesOf
  <2>3. SameWithin(old, new, compare) <=>
          \A f \in DOMAIN old.is \cup DOMAIN new.is :
            \/ At(old.is, f) = At(new.is, f)
            \/ /\ f \in DOMAIN compare.fields /\ {At(old.is, f), At(new.is, f)} \cap Others = {}
               /\ WithinBand(old.is[f], new.is[f], compare.fields[f])
    BY <1>2 DEF SameWithin
  <2>4. E = {} <=> X = {}
    OBVIOUS
  <2>5. DOMAIN g = X /\ E = {g[f] : f \in X}
    OBVIOUS
  <2>6. \A e \in E : \E x : e = <<k, x>>
    OBVIOUS
  <2>7. IsFiniteSet(X) /\ (X = {} <=> SameWithin(old, new, compare))
    <3> HIDE DEF g, E
    <3> QED BY <2>1, <2>3, FieldsDiffer
  <2> HIDE DEF X, g, E
  <2>8. IsFiniteSet(E)
    BY <2>5, <2>7, FiniteImage
  <2> QED BY <2>2, <2>4, <2>6, <2>7, <2>8
<1>3. CASE ~ (old.kind = new.kind /\ old.is = new.is) /\ ~ (old.kind = "dict" /\ new.kind = "dict")
  <2>1. EntriesOf(k, old, new, compare) = {<<k, "whole">>}
    BY <1>3 DEF EntriesOf
  <2>2. ~ SameWithin(old, new, compare)
    BY <1>3 DEF SameWithin
  <2> QED BY <2>1, <2>2, FS_Singleton
<1> QED BY <1>1, <1>2, <1>3

\* A view of values that may be compared by equality.
Valued(view) ==
  IsFiniteSet(DOMAIN view) /\ \A k \in DOMAIN view : IsValue(view[k], "equality_set")
AllSame(pre, post, compare) ==
  \A k \in DOMAIN pre \cap DOMAIN post : SameWithin(pre[k], post[k], compare)

LEMMA ChangedEntries ==
  ASSUME NEW pre, NEW post, Valued(pre), Valued(post), NEW compare, IsCompare(compare)
  PROVE  /\ IsFiniteSet(Changed(pre, post, compare))
         /\ Changed(pre, post, compare) = {} <=> AllSame(pre, post, compare)
         /\ \A e \in Changed(pre, post, compare) : \E k, x : e = <<k, x>>
<1> DEFINE K == DOMAIN pre \cap DOMAIN post
           g == [k \in K |-> EntriesOf(k, pre[k], post[k], compare)]
           T == {g[k] : k \in K}
<1>1. Changed(pre, post, compare) = UNION {EntriesOf(k, pre[k], post[k], compare) : k \in K}
  BY DEF Changed, EntriesOf
<1>2. {EntriesOf(k, pre[k], post[k], compare) : k \in K} = T
  OBVIOUS
<1>3. \A k \in K : /\ IsFiniteSet(g[k])
                   /\ g[k] = {} <=> SameWithin(pre[k], post[k], compare)
                   /\ \A e \in g[k] : \E x : e = <<k, x>>
  <2> SUFFICES ASSUME NEW k \in K
               PROVE  /\ IsFiniteSet(g[k])
                      /\ g[k] = {} <=> SameWithin(pre[k], post[k], compare)
                      /\ \A e \in g[k] : \E x : e = <<k, x>>
    OBVIOUS
  <2>1. IsValue(pre[k], "equality_set") /\ IsValue(post[k], "equality_set")
    BY DEF Valued
  <2>2. g[k] = EntriesOf(k, pre[k], post[k], compare)
    OBVIOUS
  <2> HIDE DEF g
  <2> QED BY <2>1, <2>2, ValueEntries
<1>4. IsFiniteSet(K)
  <2>1. K \in SUBSET DOMAIN pre /\ IsFiniteSet(DOMAIN pre)
    BY DEF Valued
  <2> HIDE DEF K
  <2> QED BY <2>1, FS_Subset
<1>5. DOMAIN g = K
  OBVIOUS
<1> HIDE DEF g
<1>6. IsFiniteSet(T) /\ \A S \in T : IsFiniteSet(S)
  <2>1. \A S \in T : IsFiniteSet(S)
    BY <1>3
  <2> HIDE DEF K
  <2>2. IsFiniteSet(T)
    BY <1>4, <1>5, FiniteImage
  <2> QED BY <2>1, <2>2
<1>7. UNION T = {} <=> \A k \in K : g[k] = {}
  OBVIOUS
<1>8. \A e \in UNION T : \E k, x : e = <<k, x>>
  <2> SUFFICES ASSUME NEW k \in K, NEW e \in g[k] PROVE \E i, x : e = <<i, x>>
    OBVIOUS
  <2> QED BY <1>3
<1>9. AllSame(pre, post, compare) <=> \A k \in K : SameWithin(pre[k], post[k], compare)
  BY DEF AllSame
<1> HIDE DEF T, K
<1>10. IsFiniteSet(UNION T)
  BY <1>6, FS_UNION
<1> QED BY <1>1, <1>2, <1>3, <1>7, <1>8, <1>9, <1>10

AllKept(pre, post, compare) ==
  DOMAIN post \subseteq DOMAIN pre /\ (compare.ignoreRemoved \/ DOMAIN pre \subseteq DOMAIN post)

LEMMA EqualitySetEntries ==
  ASSUME NEW pre, NEW post, Valued(pre), Valued(post), NEW compare, IsCompare(compare),
         NEW r, r = DiffEqualitySet(pre, post, compare)
  PROVE  /\ IsFiniteSet(r.added) /\ IsFiniteSet(r.removed) /\ IsFiniteSet(r.changed) /\ r.missed = {}
         /\ r = Verdict(r.added, r.removed, r.changed, {})
         /\ r.changed = Changed(pre, post, compare)
         /\ r.added = {} /\ r.removed = {} <=> AllKept(pre, post, compare)
<1> DEFINE A == DOMAIN post \ DOMAIN pre
           R == IF compare.ignoreRemoved THEN {} ELSE DOMAIN pre \ DOMAIN post
           C == Changed(pre, post, compare)
<1>1. r = Verdict(A, R, C, {})
  BY DEF DiffEqualitySet
<1>2. r.added = A /\ r.removed = R /\ r.changed = C /\ r.missed = {}
  BY <1>1 DEF Verdict, Report
<1>3. IsFiniteSet(A) /\ IsFiniteSet(R)
  BY FS_Difference, FS_EmptySet DEF Valued
<1>4. IsFiniteSet(C)
  BY ChangedEntries
<1>5. A = {} /\ R = {} <=> AllKept(pre, post, compare)
  BY DEF AllKept
<1> HIDE DEF A, R
<1> QED BY <1>1, <1>2, <1>3, <1>4, <1>5

LEMMA EqualitySetSound ==
  ASSUME NEW pre, NEW post, NEW compare, IsCompare(compare), compare.mode = "equality_set",
         IsView(pre, "equality_set"), IsView(post, "equality_set")
  PROVE  Sound(DiffEqualitySet(pre, post, compare), AgreeWithin(pre, post, compare))
<1> DEFINE r == DiffEqualitySet(pre, post, compare)
<1>1. Valued(pre) /\ Valued(post)
  BY DEF IsView, Valued
<1> HIDE DEF r
<1>2. /\ IsFiniteSet(r.added) /\ IsFiniteSet(r.removed) /\ IsFiniteSet(r.changed) /\ r.missed = {}
      /\ r = Verdict(r.added, r.removed, r.changed, {})
      /\ r.changed = Changed(pre, post, compare)
      /\ r.added = {} /\ r.removed = {} <=> AllKept(pre, post, compare)
  BY <1>1, EqualitySetEntries DEF r
<1>3. AgreeWithin(pre, post, compare) <=> AllSame(pre, post, compare) /\ AllKept(pre, post, compare)
  BY DEF AgreeWithin, AllSame, AllKept
<1>4. r.changed = {} <=> AllSame(pre, post, compare)
  BY <1>1, <1>2, ChangedEntries
<1>5. AgreeWithin(pre, post, compare) <=> r.added = {} /\ r.removed = {} /\ r.changed = {} /\ {} = {}
  BY <1>2, <1>3, <1>4
<1>6. IsFiniteSet({})
  BY FS_EmptySet
<1>7. Sound(Verdict(r.added, r.removed, r.changed, {}), AgreeWithin(pre, post, compare))
  BY <1>2, <1>5, <1>6, VerdictSound
<1> QED BY <1>2, <1>7 DEF r
-----------------------------------------------------------------------------
(* Texts beside the values. *)

\* DiffText compares every other value by equality: a text on both sides is left
\* to its hunks, a lone text stands for its line count.
Texts(pre, post) == {k \in DOMAIN pre \cap DOMAIN post : pre[k].kind = "text" /\ post[k].kind = "text"}
InsteadOf(v, both) ==
  IF both THEN [kind |-> "dict", is |-> <<>>]
  ELSE IF v.kind = "text" THEN [kind |-> "dict", is |-> [line_count |-> Len(v.is)]]
  ELSE v
RestOf(view, texts) == [k \in DOMAIN view |-> InsteadOf(view[k], k \in texts)]
HunkEntries(pre, post, match, k) == {<<k, "hunk", h>> : h \in Hunks(pre[k].is, post[k].is, match[k])}
AllHunks(pre, post, match) == UNION {HunkEntries(pre, post, match, k) : k \in Texts(pre, post)}

LEMMA TextUnfolds ==
  ASSUME NEW pre, NEW post, NEW compare, NEW match, NEW rest,
         rest = DiffEqualitySet(RestOf(pre, Texts(pre, post)), RestOf(post, Texts(pre, post)), compare)
  PROVE  DiffText(pre, post, compare, match)
           = Verdict(rest.added, rest.removed, rest.changed \cup AllHunks(pre, post, match), {})
BY DEF DiffText, RestOf, InsteadOf, Texts, HunkEntries, AllHunks

LEMMA InsteadValued ==
  ASSUME NEW v, IsValue(v, "text_diff"), NEW both
  PROVE  IsValue(InsteadOf(v, both), "equality_set")
<1>1. CASE both
  <2>1. InsteadOf(v, both) = [kind |-> "dict", is |-> <<>>]
    BY <1>1 DEF InsteadOf
  <2>2. DOMAIN <<>> = {}
    OBVIOUS
  <2> QED BY <2>1, <2>2, FS_EmptySet DEF IsValue
<1>2. CASE ~both /\ v.kind = "text"
  <2> DEFINE n == Len(v.is)
             d == [line_count |-> n]
  <2>1. n \in Nat
    BY <1>2, LenProperties DEF IsValue
  <2>2. InsteadOf(v, both) = [kind |-> "dict", is |-> d]
    BY <1>2 DEF InsteadOf
  <2>3. DOMAIN d = {"line_count"} /\ d["line_count"] = n
    OBVIOUS
  <2>4. IsFiniteSet(DOMAIN d) /\ \A f \in DOMAIN d : d[f] \in Int \cup Others
    <3>1. IsFiniteSet({"line_count"})
      BY FS_Singleton
    <3> HIDE DEF d
    <3> QED BY <2>1, <2>3, <3>1
  <2> HIDE DEF d
  <2> QED BY <2>2, <2>4 DEF IsValue
<1>3. CASE ~both /\ v.kind # "text"
  BY <1>3 DEF InsteadOf, IsValue
<1> QED BY <1>1, <1>2, <1>3

\* A lone text is never the same as what is not a text.
LEMMA InsteadSame ==
  ASSUME NEW v, NEW w, IsValue(v, "text_diff"), IsValue(w, "text_diff"), NEW compare,
         ~ (v.kind = "text" /\ w.kind = "text")
  PROVE  SameWithin(InsteadOf(v, FALSE), InsteadOf(w, FALSE), compare) <=> SameWithin(v, w, compare)
<1>0. \A u : IsValue(u, "text_diff") =>
        /\ u.kind = "dict" => "line_count" \notin DOMAIN u.is
        /\ u.kind = "text" => Len(u.is) \in Nat
        /\ u.kind \in {"scalar", "dict", "text"}
  <2> SUFFICES ASSUME NEW u, IsValue(u, "text_diff")
               PROVE  /\ u.kind = "dict" => "line_count" \notin DOMAIN u.is
                      /\ u.kind = "text" => Len(u.is) \in Nat
                      /\ u.kind \in {"scalar", "dict", "text"}
    OBVIOUS
  <2>1. u.kind = "text" => Len(u.is) \in Nat
    BY LenProperties DEF IsValue
  <2> QED BY <2>1 DEF IsValue
\* Of the two dicts only one has a line count.
<1>1. ASSUME NEW a, NEW b, NEW n, n \in Nat, "line_count" \notin DOMAIN b, a = [line_count |-> n]
      PROVE  /\ a # b /\ b # a
             /\ At(a, "line_count") # At(b, "line_count") /\ "line_count" \in DOMAIN a \cup DOMAIN b
             /\ {At(a, "line_count"), At(b, "line_count")} \cap Others # {}
  <2>1. "line_count" \in DOMAIN a /\ a["line_count"] = n
    BY <1>1
  <2>2. At(a, "line_count") = n /\ At(b, "line_count") = None
    BY <1>1, <2>1 DEF At
  <2>3. n # None
    BY NoneAssumption, <1>1
  <2> QED BY <1>1, <2>1, <2>2, <2>3 DEF Others
<1>2. CASE v.kind # "text" /\ w.kind # "text"
  BY <1>2 DEF InsteadOf
<1>3. CASE v.kind = "text" /\ w.kind # "text"
  <2> DEFINE a == [line_count |-> Len(v.is)]
  <2>1. InsteadOf(v, FALSE) = [kind |-> "dict", is |-> a] /\ InsteadOf(w, FALSE) = w
    BY <1>3 DEF InsteadOf
  <2>2. ~ SameWithin(v, w, compare)
    BY <1>3 DEF SameWithin
  <2>3. ~ SameWithin([kind |-> "dict", is |-> a], w, compare)
    <3>1. CASE w.kind = "dict"
      <4>1. "line_count" \notin DOMAIN w.is /\ Len(v.is) \in Nat
        BY <1>0, <1>3, <3>1
      <4>2. /\ a # w.is
            /\ At(a, "line_count") # At(w.is, "line_count") /\ "line_count" \in DOMAIN a \cup DOMAIN w.is
            /\ {At(a, "line_count"), At(w.is, "line_count")} \cap Others # {}
        BY <1>1, <4>1
      <4> HIDE DEF a
      <4> QED BY <4>2 DEF SameWithin
    <3>2. CASE w.kind # "dict"
      BY <3>2 DEF SameWithin
    <3> QED BY <3>1, <3>2
  <2> QED BY <2>1, <2>2, <2>3
<1>4. CASE v.kind # "text" /\ w.kind = "text"
  <2> DEFINE a == [line_count |-> Len(w.is)]
  <2>1. InsteadOf(w, FALSE) = [kind |-> "dict", is |-> a] /\ InsteadOf(v, FALSE) = v
    BY <1>4 DEF InsteadOf
  <2>2. ~ SameWithin(v, w, compare)
    BY <1>4 DEF SameWithin
  <2>3. ~ SameWithin(v, [kind |-> "dict", is |-> a], compare)
    <3>1. CASE v.kind = "dict"
      <4>1. "line_count" \notin DOMAIN v.is /\ Len(w.is) \in Nat
        BY <1>0, <1>4, <3>1
      <4>2. /\ v.is # a
            /\ At(v.is, "line_count") # At(a, "line_count") /\ "line_count" \in DOMAIN v.is \cup DOMAIN a
            /\ {At(v.is, "line_count"), At(a, "line_count")} \cap Others # {}
        <5>1. /\ v.is # a
              /\ At(a, "line_count") # At(v.is, "line_count") /\ "line_count" \in DOMAIN a \cup DOMAIN v.is
              /\ {At(a, "line_count"), At(v.is, "line_count")} \cap Others # {}
          BY <1>1, <4>1
        <5> HIDE DEF a
        <5> QED BY <5>1
      <4> HIDE DEF a
      <4> QED BY <4>2 DEF SameWithin
    <3>2. CASE v.kind # "dict"
      BY <3>2 DEF SameWithin
    <3> QED BY <3>1, <3>2
  <2> QED BY <2>1, <2>2, <2>3
<1> QED BY <1>2, <1>3, <1>4

\* The matches that difflib may have found.
Matched(pre, post, match) == \A k \in Texts(pre, post) : match[k] \in Matches(pre[k].is, post[k].is)

HunksSound(pre, post, match, k) ==
  /\ IsFiniteSet(HunkEntries(pre, post, match, k))
  /\ HunkEntries(pre, post, match, k) = {} <=> pre[k].is = post[k].is
  /\ Patched(pre[k].is, InOrder(Hunks(pre[k].is, post[k].is, match[k])))
       = [text |-> post[k].is, fits |-> TRUE]

LEMMA HunkEntriesOf ==
  ASSUME NEW pre, NEW post, IsView(pre, "text_diff"), IsView(post, "text_diff"),
         NEW match, Matched(pre, post, match), NEW k \in Texts(pre, post)
  PROVE  HunksSound(pre, post, match, k)
<1> DEFINE old == pre[k].is
           new == post[k].is
           m == match[k]
           H == Hunks(old, new, m)
           f == [h \in H |-> <<k, "hunk", h>>]
           E == HunkEntries(pre, post, match, k)
<1>1. old \in Text /\ new \in Text /\ m \in Matches(old, new)
  BY DEF Texts, IsView, IsValue, Matched, Text
<1>2. E = {<<k, "hunk", h>> : h \in H}
  BY DEF HunkEntries
<1>3. DOMAIN f = H /\ E = {f[h] : h \in H}
  BY <1>2
<1>4. E = {} <=> H = {}
  BY <1>2
<1> HIDE DEF old, new, m, f, E
<1>5. IsFiniteSet(H) /\ Patched(old, InOrder(H)) = [text |-> new, fits |-> TRUE] /\ (H = {} <=> old = new)
  BY <1>1, HunksListed
<1> HIDE DEF H
<1>6. IsFiniteSet(E)
  BY <1>3, <1>5, FiniteImage
<1> QED BY <1>4, <1>5, <1>6 DEF HunksSound, old, new, E, H, m

LEMMA HunksAll ==
  ASSUME NEW pre, NEW post, IsView(pre, "text_diff"), IsView(post, "text_diff"),
         NEW match, Matched(pre, post, match)
  PROVE  /\ IsFiniteSet(AllHunks(pre, post, match))
         /\ AllHunks(pre, post, match) = {} <=> \A k \in Texts(pre, post) : pre[k].is = post[k].is
<1> DEFINE K == Texts(pre, post)
           g == [k \in K |-> HunkEntries(pre, post, match, k)]
           T == {g[k] : k \in K}
<1>1. AllHunks(pre, post, match) = UNION T
  BY DEF AllHunks
<1>2. \A k \in K : IsFiniteSet(g[k]) /\ (g[k] = {} <=> pre[k].is = post[k].is)
  <2> SUFFICES ASSUME NEW k \in K PROVE IsFiniteSet(g[k]) /\ (g[k] = {} <=> pre[k].is = post[k].is)
    OBVIOUS
  <2>1. g[k] = HunkEntries(pre, post, match, k)
    OBVIOUS
  <2>2. /\ IsFiniteSet(HunkEntries(pre, post, match, k))
        /\ HunkEntries(pre, post, match, k) = {} <=> pre[k].is = post[k].is
    <3>1. k \in Texts(pre, post)
      OBVIOUS
    <3>2. HunksSound(pre, post, match, k)
      BY <3>1, HunkEntriesOf
    <3> QED BY <3>2 DEF HunksSound
  <2> HIDE DEF g
  <2> QED BY <2>1, <2>2
<1>3. IsFiniteSet(K)
  <2>1. K \in SUBSET DOMAIN pre /\ IsFiniteSet(DOMAIN pre)
    BY DEF IsView, Texts
  <2> HIDE DEF K
  <2> QED BY <2>1, FS_Subset
<1>4. DOMAIN g = K
  OBVIOUS
<1> HIDE DEF g
<1>5. \A S \in T : IsFiniteSet(S)
  BY <1>2
<1>6. UNION T = {} <=> \A k \in K : g[k] = {}
  OBVIOUS
<1> HIDE DEF K
<1>7. IsFiniteSet(T)
  BY <1>3, <1>4, FiniteImage
<1> HIDE DEF T
<1>8. IsFiniteSet(UNION T)
  BY <1>5, <1>7, FS_UNION
<1> QED BY <1>1, <1>2, <1>6, <1>8 DEF K

LEMMA RestSound ==
  ASSUME NEW pre, NEW post, IsView(pre, "text_diff"), IsView(post, "text_diff"),
         NEW compare, IsCompare(compare), NEW texts, texts = Texts(pre, post),
         NEW a, a = RestOf(pre, texts), NEW b, b = RestOf(post, texts)
  PROVE  /\ Valued(a) /\ Valued(b)
         /\ DOMAIN a = DOMAIN pre /\ DOMAIN b = DOMAIN post
         /\ AllSame(a, b, compare) <=>
              \A k \in DOMAIN pre \cap DOMAIN post : k \in texts \/ SameWithin(pre[k], post[k], compare)
<1>0. /\ DOMAIN a = DOMAIN pre /\ (\A k \in DOMAIN pre : a[k] = InsteadOf(pre[k], k \in texts))
      /\ DOMAIN b = DOMAIN post /\ (\A k \in DOMAIN post : b[k] = InsteadOf(post[k], k \in texts))
  BY DEF RestOf
<1>1. /\ IsFiniteSet(DOMAIN pre) /\ IsFiniteSet(DOMAIN post)
      /\ \A k \in DOMAIN pre : IsValue(pre[k], "text_diff")
      /\ \A k \in DOMAIN post : IsValue(post[k], "text_diff")
  BY DEF IsView
<1>2. Valued(a) /\ Valued(b)
  <2>1. \A k \in DOMAIN pre : IsValue(a[k], "equality_set")
    BY <1>0, <1>1, InsteadValued
  <2>2. \A k \in DOMAIN post : IsValue(b[k], "equality_set")
    BY <1>0, <1>1, InsteadValued
  <2> QED BY <1>0, <1>1, <2>1, <2>2 DEF Valued
<1>3. ASSUME NEW k \in DOMAIN pre \cap DOMAIN post
      PROVE  SameWithin(a[k], b[k], compare) <=> k \in texts \/ SameWithin(pre[k], post[k], compare)
  <2>1. CASE k \in texts
    <3>1. a[k] = [kind |-> "dict", is |-> <<>>] /\ b[k] = [kind |-> "dict", is |-> <<>>]
      BY <1>0, <2>1 DEF InsteadOf
    <3>2. SameWithin(a[k], b[k], compare)
      BY <3>1 DEF SameWithin
    <3> QED BY <2>1, <3>2
  <2>2. CASE k \notin texts
    <3>1. ~ (pre[k].kind = "text" /\ post[k].kind = "text")
      BY <2>2 DEF Texts
    <3>2. (k \in texts) = FALSE
      BY <2>2
    <3>3. a[k] = InsteadOf(pre[k], FALSE) /\ b[k] = InsteadOf(post[k], FALSE)
      BY <1>0, <3>2
    <3>4. IsValue(pre[k], "text_diff") /\ IsValue(post[k], "text_diff")
      BY <1>1
    <3>5. SameWithin(InsteadOf(pre[k], FALSE), InsteadOf(post[k], FALSE), compare)
            <=> SameWithin(pre[k], post[k], compare)
      BY <3>1, <3>4, InsteadSame
    <3> QED BY <2>2, <3>3, <3>5
  <2> QED BY <2>1, <2>2
<1>4. AllSame(a, b, compare) <=>
        \A k \in DOMAIN pre \cap DOMAIN post : k \in texts \/ SameWithin(pre[k], post[k], compare)
  BY <1>0, <1>3 DEF AllSame
<1> QED BY <1>0, <1>2, <1>4

LEMMA TextSound ==
  ASSUME NEW pre, NEW post, IsView(pre, "text_diff"), IsView(post, "text_diff"),
         NEW compare, IsCompare(compare), compare.mode = "text_diff",
         NEW match, Matched(pre, post, match),
         NEW r, r = DiffText(pre, post, compare, match)
  PROVE  /\ Sound(r, AgreeWithin(pre, post, compare))
         /\ \A k \in Texts(pre, post) :
              Patched(pre[k].is, HunksOf(r, k)) = [text |-> post[k].is, fits |-> TRUE]
<1> DEFINE texts == Texts(pre, post)
           a == RestOf(pre, texts)
           b == RestOf(post, texts)
           rest == DiffEqualitySet(a, b, compare)
           hunks == AllHunks(pre, post, match)
           C == rest.changed \cup hunks
<1>1. /\ Valued(a) /\ Valued(b)
      /\ DOMAIN a = DOMAIN pre /\ DOMAIN b = DOMAIN post
      /\ AllSame(a, b, compare) <=>
           \A k \in DOMAIN pre \cap DOMAIN post : k \in texts \/ SameWithin(pre[k], post[k], compare)
  <2> HIDE DEF texts, a, b
  <2> QED BY RestSound DEF texts, a, b
<1>2. r = Verdict(rest.added, rest.removed, C, {})
  BY TextUnfolds
<1> HIDE DEF a, b
<1>3. /\ IsFiniteSet(rest.added) /\ IsFiniteSet(rest.removed) /\ IsFiniteSet(rest.changed)
      /\ rest.missed = {}
      /\ rest.changed = Changed(a, b, compare)
      /\ rest.added = {} /\ rest.removed = {} <=> AllKept(a, b, compare)
  <2> HIDE DEF rest
  <2> QED BY <1>1, EqualitySetEntries DEF rest
<1> HIDE DEF rest, hunks
<1>4. /\ rest.changed = {} <=> AllSame(a, b, compare)
      /\ \A e \in rest.changed : \E k, x : e = <<k, x>>
  BY <1>1, <1>3, ChangedEntries
<1>5. /\ IsFiniteSet(hunks)
      /\ hunks = {} <=> \A k \in texts : pre[k].is = post[k].is
  <2> HIDE DEF texts
  <2> QED BY HunksAll DEF texts, hunks
<1>6. \A k \in texts : SameWithin(pre[k], post[k], compare) <=> pre[k].is = post[k].is
  BY DEF Texts, SameWithin
<1>7. AllKept(a, b, compare) <=> AllKept(pre, post, compare)
  BY <1>1 DEF AllKept
<1>8. AgreeWithin(pre, post, compare) <=> AllSame(pre, post, compare) /\ AllKept(pre, post, compare)
  BY DEF AgreeWithin, AllSame, AllKept
<1>t. texts \subseteq DOMAIN pre \cap DOMAIN post
  BY DEF Texts
<1> HIDE DEF texts
<1>9. C = {} <=> AllSame(pre, post, compare)
  BY <1>1, <1>4, <1>5, <1>6, <1>t DEF AllSame
<1>10. IsFiniteSet(C) /\ IsFiniteSet({})
  BY <1>3, <1>5, FS_Union, FS_EmptySet
<1>11. AgreeWithin(pre, post, compare) <=> rest.added = {} /\ rest.removed = {} /\ C = {} /\ {} = {}
  BY <1>3, <1>7, <1>8, <1>9
<1>12. r.changed = C
  BY <1>2 DEF Verdict, Report
<1>13. Sound(r, AgreeWithin(pre, post, compare))
  <2> HIDE DEF C
  <2>1. Sound(Verdict(rest.added, rest.removed, C, {}), AgreeWithin(pre, post, compare))
    BY <1>3, <1>10, <1>11, VerdictSound
  <2> QED BY <1>2, <2>1
<1>14. ASSUME NEW k \in texts
       PROVE  Patched(pre[k].is, HunksOf(r, k)) = [text |-> post[k].is, fits |-> TRUE]
  <2> DEFINE H == Hunks(pre[k].is, post[k].is, match[k])
             S == {c \in r.changed : Len(c) = 3 /\ c[1] = k}
  <2>1. \A e \in rest.changed : Len(e) # 3
    <3> TAKE e \in rest.changed
    <3>1. PICK i, x : e = <<i, x>>
      BY <1>4
    <3>2. Len(e) = 2
      BY <3>1
    <3> QED BY <3>2
  <2>2. \A c :
          c \in hunks <=> \E i \in texts : \E h \in Hunks(pre[i].is, post[i].is, match[i]) : c = <<i, "hunk", h>>
    BY DEF hunks, AllHunks, HunkEntries, texts
  <2>3. \A c : c \in S <=> \E h \in H : c = <<k, "hunk", h>>
    <3> TAKE c
    <3>1. ASSUME c \in S PROVE \E h \in H : c = <<k, "hunk", h>>
      <4>1. c \in hunks /\ c[1] = k
        BY <1>12, <2>1, <3>1
      <4>2. PICK i \in texts : \E h \in Hunks(pre[i].is, post[i].is, match[i]) : c = <<i, "hunk", h>>
        BY <2>2, <4>1
      <4>3. i = k
        BY <4>1, <4>2
      <4> QED BY <4>2, <4>3
    <3>2. ASSUME NEW h \in H, c = <<k, "hunk", h>> PROVE c \in S
      <4>1. c \in hunks
        BY <2>2, <3>2
      <4>2. Len(c) = 3 /\ c[1] = k
        BY <3>2
      <4> QED BY <1>12, <4>1, <4>2
    <3> QED BY <3>1, <3>2
  <2>4. {c[3] : c \in S} = H
    <3> HIDE DEF S, H
    <3>1. \A h \in H : <<k, "hunk", h>> \in S /\ <<k, "hunk", h>>[3] = h
      BY <2>3
    <3>2. \A c \in S : c[3] \in H
      BY <2>3
    <3> QED BY <3>1, <3>2
  <2>5. HunksOf(r, k) = InOrder(H)
    BY <2>4 DEF HunksOf
  <2>6. Patched(pre[k].is, InOrder(H)) = [text |-> post[k].is, fits |-> TRUE]
    <3>1. HunksSound(pre, post, match, k)
      BY HunkEntriesOf DEF texts
    <3> QED BY <3>1 DEF HunksSound
  <2> QED BY <2>5, <2>6
<1> QED BY <1>13, <1>14 DEF texts
-----------------------------------------------------------------------------
(* A check of a pair, and the summary of its checks. *)

LEMMA DiffCheckSound ==
  ASSUME NEW pre, NEW post, NEW compare, IsCompare(compare),
         IsView(pre, compare.mode), IsView(post, compare.mode),
         NEW match, compare.mode = "text_diff" => Matched(pre, post, match)
  PROVE  Sound(DiffCheck(pre, post, compare, match), AgreeWithin(pre, post, compare))
<1> DEFINE mode == compare.mode
           r == DiffCheck(pre, post, compare, match)
<1>0. mode \in Modes
  BY DEF IsCompare
<1>1. CASE mode = "equality_set"
  <2>1. r = DiffEqualitySet(pre, post, compare)
    BY <1>1 DEF DiffCheck
  <2> QED BY <1>1, <2>1, EqualitySetSound
<1>2. CASE mode = "equality_scalar"
  <2>1. r = DiffEqualityScalar(pre, post)
    BY <1>2 DEF DiffCheck
  <2> QED BY <1>2, <2>1, ScalarSound
<1>3. CASE mode = "tolerance"
  <2>1. r = DiffTolerance(pre, post, compare)
    BY <1>3 DEF DiffCheck
  <2> QED BY <1>3, <2>1, ToleranceSound
<1>4. CASE mode = "presence_only"
  <2>1. r = DiffPresence(pre, post)
    BY <1>4 DEF DiffCheck
  <2> QED BY <1>4, <2>1, PresenceSound
<1>5. CASE mode = "capability"
  <2>1. r = DiffCapability(pre, post, compare)
    BY <1>5 DEF DiffCheck
  <2> QED BY <1>5, <2>1, CapabilitySound
<1>6. CASE mode = "info_only"
  <2>1. r = Report("info", {}, {}, {}, {})
    BY <1>6 DEF DiffCheck
  <2>2. ~ AgreeWithin(pre, post, compare)
    BY <1>6 DEF AgreeWithin, Agree
  <2> QED BY <2>1, <2>2, FS_EmptySet DEF Sound, Report
<1>7. CASE mode = "text_diff"
  <2>1. r = DiffText(pre, post, compare, match)
    BY <1>7 DEF DiffCheck
  <2>2. IsView(pre, "text_diff") /\ IsView(post, "text_diff") /\ Matched(pre, post, match)
    BY <1>7
  <2> HIDE DEF r
  <2>3. Sound(r, AgreeWithin(pre, post, compare))
    BY <1>7, <2>1, <2>2, TextSound
  <2> QED BY <2>3 DEF r
<1> QED BY <1>0, <1>1, <1>2, <1>3, <1>4, <1>5, <1>6, <1>7 DEF Modes

\* What the report r says of a check of two snapshots.
Says(r, x, y, c) ==
  /\ IsFiniteSet(r.added) /\ IsFiniteSet(r.removed) /\ IsFiniteSet(r.changed) /\ IsFiniteSet(r.missed)
  /\ r.result \in {"pass", "diffs", "info", "failed", "skipped"}
  /\ r.result = "pass" <=> Both(x, y, c) /\ AgreeWithin(x.checks[c].view, y.checks[c].view, x.checks[c].compare)
  /\ r.result = "failed" <=> StatusOf(x, c) = "success" /\ StatusOf(y, c) # "success"
  /\ r.result = "diffs" <=> r.added \cup r.removed \cup r.changed \cup r.missed # {}

LEMMA BothCollected ==
  ASSUME NEW x, NEW y, IsPair(x, y), NEW c, Both(x, y, c)
  PROVE  /\ IsCompare(x.checks[c].compare)
         /\ IsView(x.checks[c].view, x.checks[c].compare.mode)
         /\ IsView(y.checks[c].view, x.checks[c].compare.mode)
<1>1. Collected(x, c) /\ Collected(y, c)
  BY DEF Both, StatusOf, Collected
<1> QED BY <1>1 DEF IsPair, Collected

LEMMA MatchesMatch ==
  ASSUME NEW x, NEW y, NEW c, Both(x, y, c), x.checks[c].compare.mode = "text_diff",
         NEW match \in MatchesOf(x, y, c)
  PROVE  Matched(x.checks[c].view, y.checks[c].view, match)
<1> DEFINE p == x.checks[c]
           q == y.checks[c]
<1>1. \A k \in TextKeys(p, q) : match[k] \in Matches(p.view[k].is, q.view[k].is)
  BY DEF MatchesOf
<1>2. TextKeys(p, q) = Texts(p.view, q.view)
  BY DEF TextKeys, Texts
<1> QED BY <1>1, <1>2 DEF Matched

LEMMA DiffOfSays ==
  ASSUME NEW x, NEW y, IsPair(x, y), NEW c, NEW match \in MatchesOf(x, y, c)
  PROVE  Says(DiffOf(x, y, c, match), x, y, c)
<1> DEFINE r == DiffOf(x, y, c, match)
           pre == x.checks[c].view
           post == y.checks[c].view
           compare == x.checks[c].compare
<1>1. CASE Both(x, y, c)
  <2>1. IsCompare(compare) /\ IsView(pre, compare.mode) /\ IsView(post, compare.mode)
    BY <1>1, BothCollected
  <2>2. compare.mode = "text_diff" => Matched(pre, post, match)
    BY <1>1, MatchesMatch
  <2>3. r = DiffCheck(pre, post, compare, match)
    BY <1>1 DEF DiffOf
  <2>4. StatusOf(x, c) = "success" /\ StatusOf(y, c) = "success"
    BY <1>1 DEF Both
  <2> HIDE DEF r, pre, post, compare
  <2>5. Sound(r, AgreeWithin(pre, post, compare))
    BY <2>1, <2>2, <2>3, DiffCheckSound
  <2>6. /\ IsFiniteSet(r.added) /\ IsFiniteSet(r.removed) /\ IsFiniteSet(r.changed) /\ IsFiniteSet(r.missed)
        /\ r.result \in {"pass", "diffs", "info"}
        /\ r.result = "pass" <=> AgreeWithin(pre, post, compare)
        /\ r.result = "diffs" <=> r.added \cup r.removed \cup r.changed \cup r.missed # {}
    BY <2>5 DEF Sound
  <2>7. r.result # "failed"
    BY <2>6
  <2>8. Says(r, x, y, c)
    BY <1>1, <2>4, <2>6, <2>7 DEF Says, pre, post, compare
  <2> QED BY <2>8 DEF r
<1>2. CASE ~ Both(x, y, c)
  <2>1. r = Report(IF StatusOf(x, c) = "success" THEN "failed" ELSE "skipped", {}, {}, {}, {})
    BY <1>2 DEF DiffOf
  <2>2. /\ r.result = IF StatusOf(x, c) = "success" THEN "failed" ELSE "skipped"
        /\ r.added = {} /\ r.removed = {} /\ r.changed = {} /\ r.missed = {}
    BY <2>1 DEF Report
  <2>3. StatusOf(x, c) # "success" \/ StatusOf(y, c) # "success"
    BY <1>2 DEF Both
  <2> HIDE DEF r
  <2>4. Says(r, x, y, c)
    BY <1>2, <2>2, <2>3, FS_EmptySet DEF Says
  <2> QED BY <2>4 DEF r
<1> QED BY <1>1, <1>2

\* How many entries a report has.
EntryCount(r) ==
  Cardinality(r.added) + Cardinality(r.removed) + Cardinality(r.changed) + Cardinality(r.missed)

LEMMA EntriesCount ==
  ASSUME NEW r, NEW x, NEW y, NEW c, Says(r, x, y, c)
  PROVE  EntryCount(r) \in Nat /\ (r.result = "diffs" <=> EntryCount(r) > 0)
<1> DEFINE a == Cardinality(r.added)
           b == Cardinality(r.removed)
           d == Cardinality(r.changed)
           e == Cardinality(r.missed)
<1>1. /\ IsFiniteSet(r.added) /\ IsFiniteSet(r.removed) /\ IsFiniteSet(r.changed) /\ IsFiniteSet(r.missed)
      /\ r.result = "diffs" <=> r.added \cup r.removed \cup r.changed \cup r.missed # {}
  BY DEF Says
<1>2. /\ a \in Nat /\ (a = 0 <=> r.added = {}) /\ b \in Nat /\ (b = 0 <=> r.removed = {})
      /\ d \in Nat /\ (d = 0 <=> r.changed = {}) /\ e \in Nat /\ (e = 0 <=> r.missed = {})
  BY <1>1, FS_CardinalityType, FS_EmptySet
<1>3. EntryCount(r) = a + b + d + e
  BY DEF EntryCount
<1> HIDE DEF a, b, d, e
<1>4. r.result = "diffs" <=> ~ (a = 0 /\ b = 0 /\ d = 0 /\ e = 0)
  BY <1>1, <1>2
<1> QED BY <1>2, <1>3, <1>4

LEMMA TwoParts ==
  ASSUME NEW A, NEW B, IsFiniteSet(A), IsFiniteSet(B), A \cap B = {}
  PROVE  IsFiniteSet(A \cup B) /\ Cardinality(A \cup B) = Cardinality(A) + Cardinality(B)
<1>1. /\ IsFiniteSet(A \cup B)
      /\ Cardinality(A \cup B) = Cardinality(A) + Cardinality(B) - Cardinality(A \cap B)
  BY FS_Union
<1>2. Cardinality(A \cap B) = 0 /\ Cardinality(A) \in Nat /\ Cardinality(B) \in Nat
  BY FS_EmptySet, FS_CardinalityType
<1> QED BY <1>1, <1>2

\* summarize_report counts each check once, and says nothing is left to look at
\* only when no check differs.
LEMMA SummarySays ==
  ASSUME NEW checks, IsFiniteSet(DOMAIN checks), NEW x, NEW y,
         \A c \in DOMAIN checks : Says(checks[c], x, y, c),
         NEW s, s = Summary(checks)
  PROVE  /\ s.entries = 0 /\ s.failed = 0 =>
              \A c \in DOMAIN checks : checks[c].result \in {"pass", "info", "skipped"}
         /\ s.total = s.passed + s.diffs + s.failed + s.skipped
<1> DEFINE D == DOMAIN checks
           P == {c \in D : checks[c].result \in {"pass"}}
           Q == {c \in D : checks[c].result \in {"diffs"}}
           F == {c \in D : checks[c].result \in {"failed"}}
           K == {c \in D : checks[c].result \in {"skipped", "info"}}
           entries == [c \in D |-> EntryCount(checks[c])]
<1>1. s = [total |-> Cardinality(D), passed |-> Cardinality(P), diffs |-> Cardinality(Q),
           failed |-> Cardinality(F), skipped |-> Cardinality(K),
           entries |-> SumFunctionOnSet(entries, D)]
  BY DEF Summary, EntryCount
<1>2. /\ s.total = Cardinality(D) /\ s.passed = Cardinality(P) /\ s.diffs = Cardinality(Q)
      /\ s.failed = Cardinality(F) /\ s.skipped = Cardinality(K) /\ s.entries = SumFunctionOnSet(entries, D)
  <2> HIDE DEF D, P, Q, F, K, entries
  <2> QED BY <1>1
<1>3. \A c \in D : /\ entries[c] \in Nat
                   /\ checks[c].result = "diffs" <=> entries[c] > 0
                   /\ checks[c].result \in {"pass", "diffs", "info", "failed", "skipped"}
  <2> SUFFICES ASSUME NEW c \in D
               PROVE  /\ entries[c] \in Nat
                      /\ checks[c].result = "diffs" <=> entries[c] > 0
                      /\ checks[c].result \in {"pass", "diffs", "info", "failed", "skipped"}
    OBVIOUS
  <2>1. entries[c] = EntryCount(checks[c]) /\ Says(checks[c], x, y, c)
    OBVIOUS
  <2> HIDE DEF entries
  <2>2. EntryCount(checks[c]) \in Nat /\ (checks[c].result = "diffs" <=> EntryCount(checks[c]) > 0)
    BY <2>1, EntriesCount
  <2> QED BY <2>1, <2>2 DEF Says
<1> HIDE DEF entries
<1>4. IsFiniteSet(P) /\ IsFiniteSet(Q) /\ IsFiniteSet(F) /\ IsFiniteSet(K)
  <2>1. P \in SUBSET D /\ Q \in SUBSET D /\ F \in SUBSET D /\ K \in SUBSET D /\ IsFiniteSet(D)
    OBVIOUS
  <2> HIDE DEF P, Q, F, K, D
  <2> QED BY <2>1, FS_Subset
<1>5. ASSUME s.entries = 0, s.failed = 0, NEW c \in D PROVE checks[c].result \in {"pass", "info", "skipped"}
  <2>1. entries[c] = 0
    <3>1. \A z \in D : entries[z] \in Nat
      BY <1>3
    <3>2. SumFunctionOnSet(entries, D) = 0 /\ IsFiniteSet(D)
      BY <1>2, <1>5
    <3> HIDE DEF D
    <3> QED BY <1>5, <3>1, <3>2, SumOfNats
  <2>2. F = {}
    <3> HIDE DEF F
    <3> QED BY <1>2, <1>4, <1>5, FS_EmptySet
  <2>3. checks[c].result # "failed"
    BY <2>2
  <2>4. checks[c].result # "diffs"
    BY <1>3, <2>1
  <2> QED BY <1>3, <2>3, <2>4
<1>6. s.total = s.passed + s.diffs + s.failed + s.skipped
  <2>1. D = P \cup (Q \cup (F \cup K))
    BY <1>3
  <2>2. F \cap K = {} /\ Q \cap (F \cup K) = {} /\ P \cap (Q \cup (F \cup K)) = {}
    OBVIOUS
  <2> HIDE DEF D, P, Q, F, K
  <2>3. IsFiniteSet(F \cup K) /\ Cardinality(F \cup K) = Cardinality(F) + Cardinality(K)
    BY <1>4, <2>2, TwoParts
  <2>4. /\ IsFiniteSet(Q \cup (F \cup K))
        /\ Cardinality(Q \cup (F \cup K)) = Cardinality(Q) + Cardinality(F \cup K)
    BY <1>4, <2>2, <2>3, TwoParts
  <2>5. Cardinality(D) = Cardinality(P) + Cardinality(Q \cup (F \cup K))
    BY <1>4, <2>1, <2>2, <2>4, TwoParts
  <2>6. Cardinality(P) \in Nat /\ Cardinality(Q) \in Nat /\ Cardinality(F) \in Nat /\ Cardinality(K) \in Nat
    BY <1>4, FS_CardinalityType
  <2>7. Cardinality(D) = Cardinality(P) + Cardinality(Q) + Cardinality(F) + Cardinality(K)
    BY <2>3, <2>4, <2>5, <2>6
  <2> QED BY <1>2, <2>7
<1> QED BY <1>5, <1>6
-----------------------------------------------------------------------------
(* The report of a pair, and what it says *)

\* p is a report of the snapshots x and y, for matches that difflib may find.
PairOf(x, y, p) ==
  LET ids == DOMAIN x.checks \cup DOMAIN y.checks
  IN  \E match :
        /\ \A c \in ids : match[c] \in MatchesOf(x, y, c)
        /\ LET checks == [c \in ids |-> DiffOf(x, y, c, match[c])]
           IN  p = [checks |-> checks, summary |-> Summary(checks)]

\* What HunksAddUp and, with the bands as they are computed, VerdictIsSound say of one pair.
Exact(x, y, p) ==
  /\ \A c \in DOMAIN x.checks \cup DOMAIN y.checks :
       /\ p.checks[c].result = "pass" <=>
            Both(x, y, c) /\ AgreeWithin(x.checks[c].view, y.checks[c].view, x.checks[c].compare)
       /\ p.checks[c].result = "failed" <=> StatusOf(x, c) = "success" /\ StatusOf(y, c) # "success"
       /\ p.checks[c].result = "diffs" <=> EntryCount(p.checks[c]) > 0
  /\ p.summary.entries = 0 /\ p.summary.failed = 0 =>
       \A c \in DOMAIN p.checks : p.checks[c].result \in {"pass", "info", "skipped"}
  /\ p.summary.total = p.summary.passed + p.summary.diffs + p.summary.failed + p.summary.skipped

AddsUp(x, y, p) ==
  \A c \in DOMAIN x.checks \cap DOMAIN y.checks :
    Both(x, y, c) /\ x.checks[c].compare.mode = "text_diff" =>
      \A k \in TextKeys(x.checks[c], y.checks[c]) :
        Patched(x.checks[c].view[k].is, HunksOf(p.checks[c], k))
          = [text |-> y.checks[c].view[k].is, fits |-> TRUE]

LEMMA ReportOfPair ==
  ASSUME NEW x, NEW y, NEW p, PairOf(x, y, p)
  PROVE  /\ DOMAIN p.checks = DOMAIN x.checks \cup DOMAIN y.checks
         /\ p.summary = Summary(p.checks)
         /\ \A c \in DOMAIN p.checks : \E m \in MatchesOf(x, y, c) : p.checks[c] = DiffOf(x, y, c, m)
<1> DEFINE ids == DOMAIN x.checks \cup DOMAIN y.checks
<1>1. PICK match :
        /\ \A c \in ids : match[c] \in MatchesOf(x, y, c)
        /\ LET checks == [c \in ids |-> DiffOf(x, y, c, match[c])]
           IN  p = [checks |-> checks, summary |-> Summary(checks)]
  BY DEF PairOf
<1> DEFINE checks == [c \in ids |-> DiffOf(x, y, c, match[c])]
<1>2. p = [checks |-> checks, summary |-> Summary(checks)]
  BY <1>1
<1>3. p.checks = checks /\ p.summary = Summary(checks)
  <2> HIDE DEF checks
  <2> QED BY <1>2
<1>4. DOMAIN checks = ids /\ \A c \in ids : checks[c] = DiffOf(x, y, c, match[c])
  OBVIOUS
<1> HIDE DEF checks
<1>5. \A c \in ids : \E m \in MatchesOf(x, y, c) : p.checks[c] = DiffOf(x, y, c, m)
  BY <1>1, <1>3, <1>4
<1> QED BY <1>3, <1>4, <1>5

LEMMA PairIsExact ==
  ASSUME NEW x, NEW y, IsFiniteSet(DOMAIN x.checks), IsFiniteSet(DOMAIN y.checks), IsPair(x, y),
         NEW p, PairOf(x, y, p)
  PROVE  Exact(x, y, p)
<1>1. /\ DOMAIN p.checks = DOMAIN x.checks \cup DOMAIN y.checks
      /\ p.summary = Summary(p.checks)
      /\ \A c \in DOMAIN p.checks : \E m \in MatchesOf(x, y, c) : p.checks[c] = DiffOf(x, y, c, m)
  BY ReportOfPair
<1>2. \A c \in DOMAIN p.checks : Says(p.checks[c], x, y, c)
  <2> SUFFICES ASSUME NEW c \in DOMAIN p.checks PROVE Says(p.checks[c], x, y, c)
    OBVIOUS
  <2>1. PICK m \in MatchesOf(x, y, c) : p.checks[c] = DiffOf(x, y, c, m)
    BY <1>1
  <2>2. Says(DiffOf(x, y, c, m), x, y, c)
    BY DiffOfSays
  <2> QED BY <2>1, <2>2
<1>3. \A c \in DOMAIN p.checks :
        /\ p.checks[c].result = "pass" <=>
             Both(x, y, c) /\ AgreeWithin(x.checks[c].view, y.checks[c].view, x.checks[c].compare)
        /\ p.checks[c].result = "failed" <=> StatusOf(x, c) = "success" /\ StatusOf(y, c) # "success"
        /\ p.checks[c].result = "diffs" <=> EntryCount(p.checks[c]) > 0
  <2> SUFFICES ASSUME NEW c \in DOMAIN p.checks
               PROVE  /\ p.checks[c].result = "pass" <=>
                           Both(x, y, c) /\ AgreeWithin(x.checks[c].view, y.checks[c].view, x.checks[c].compare)
                      /\ p.checks[c].result = "failed" <=>
                           StatusOf(x, c) = "success" /\ StatusOf(y, c) # "success"
                      /\ p.checks[c].result = "diffs" <=> EntryCount(p.checks[c]) > 0
    OBVIOUS
  <2>1. Says(p.checks[c], x, y, c)
    BY <1>2
  <2>2. p.checks[c].result = "diffs" <=> EntryCount(p.checks[c]) > 0
    BY <2>1, EntriesCount
  <2> QED BY <2>1, <2>2 DEF Says
<1>4. IsFiniteSet(DOMAIN p.checks)
  BY <1>1, FS_Union
<1>5. /\ p.summary.entries = 0 /\ p.summary.failed = 0 =>
           \A c \in DOMAIN p.checks : p.checks[c].result \in {"pass", "info", "skipped"}
      /\ p.summary.total = p.summary.passed + p.summary.diffs + p.summary.failed + p.summary.skipped
  BY <1>1, <1>2, <1>4, SummarySays
<1> QED BY <1>1, <1>3, <1>5 DEF Exact

LEMMA PairAddsUp ==
  ASSUME NEW x, NEW y, IsPair(x, y), NEW p, PairOf(x, y, p)
  PROVE  AddsUp(x, y, p)
<1> SUFFICES ASSUME NEW c \in DOMAIN x.checks \cap DOMAIN y.checks,
                    Both(x, y, c), x.checks[c].compare.mode = "text_diff",
                    NEW k \in TextKeys(x.checks[c], y.checks[c])
             PROVE  Patched(x.checks[c].view[k].is, HunksOf(p.checks[c], k))
                      = [text |-> y.checks[c].view[k].is, fits |-> TRUE]
  BY DEF AddsUp
<1> DEFINE pre == x.checks[c].view
           post == y.checks[c].view
           compare == x.checks[c].compare
<1>1. PICK m \in MatchesOf(x, y, c) : p.checks[c] = DiffOf(x, y, c, m)
  BY ReportOfPair
<1>2. p.checks[c] = DiffText(pre, post, compare, m)
  BY <1>1 DEF DiffOf, DiffCheck
<1>3. IsCompare(compare) /\ IsView(pre, "text_diff") /\ IsView(post, "text_diff")
  BY BothCollected
<1>4. Matched(pre, post, m)
  BY MatchesMatch
<1>5. k \in Texts(pre, post) /\ compare.mode = "text_diff"
  BY DEF TextKeys, Texts
<1> HIDE DEF pre, post, compare
<1>6. \A n \in Texts(pre, post) :
        Patched(pre[n].is, HunksOf(p.checks[c], n)) = [text |-> post[n].is, fits |-> TRUE]
  BY <1>2, <1>3, <1>4, <1>5, TextSound
<1> QED BY <1>5, <1>6 DEF pre, post

\* Only what is compared has a report, and it is one of the snapshots held.
Reported ==
  /\ ~Accepted => DOMAIN pairs = {}
  /\ \A d \in DOMAIN pairs :
       d \in Paired /\ PairOf(side["pre"][d], side["post"][d], pairs[d])

LEMMA ReportedStep == Reported /\ [Next]_vars => Reported'
<1> SUFFICES ASSUME Reported, [Next]_vars PROVE Reported'
  OBVIOUS
<1>0. CASE UNCHANGED vars
  BY <1>0 DEF vars, Reported, Accepted, Paired
<1>1. CASE ReadSnapshot \/ ReadManifest \/ ReadPart \/ ReadIndex \/ Assemble \/ EndOfSide \/ Validate
  <2>1. pc \in {"read", "validate"} /\ UNCHANGED pairs
    BY <1>1 DEF ReadSnapshot, ReadManifest, ReadPart, ReadIndex, Assemble, EndOfSide, Validate
  <2>2. DOMAIN pairs = {}
    BY <2>1 DEF Reported, Accepted
  <2> QED BY <2>1, <2>2 DEF Reported
<1>2. CASE DiffPair
  <2>1. PICK d \in Paired \ DOMAIN pairs :
          LET pre == side["pre"][d]
              post == side["post"][d]
              ids == DOMAIN pre.checks \cup DOMAIN post.checks
          IN  \E match \in {f \in [ids -> UNION {MatchesOf(pre, post, c) : c \in ids}] :
                              \A c \in ids : f[c] \in MatchesOf(pre, post, c)} :
                LET checks == [c \in ids |-> DiffOf(pre, post, c, match[c])]
                IN  pairs' = With(pairs, d, [checks |-> checks, summary |-> Summary(checks)])
    BY <1>2 DEF DiffPair
  <2> DEFINE x == side["pre"][d]
             y == side["post"][d]
             ids == DOMAIN x.checks \cup DOMAIN y.checks
  <2>2. PICK match \in [ids -> UNION {MatchesOf(x, y, c) : c \in ids}] :
          /\ \A c \in ids : match[c] \in MatchesOf(x, y, c)
          /\ LET checks == [c \in ids |-> DiffOf(x, y, c, match[c])]
             IN  pairs' = With(pairs, d, [checks |-> checks, summary |-> Summary(checks)])
    BY <2>1
  <2> DEFINE checks == [c \in ids |-> DiffOf(x, y, c, match[c])]
             p == [checks |-> checks, summary |-> Summary(checks)]
  <2>3. pairs' = With(pairs, d, p) /\ PairOf(x, y, p)
    BY <2>2 DEF PairOf
  <2>4. pc' \in {"diff", "done"} /\ UNCHANGED side
    BY <1>2 DEF DiffPair
  <2> HIDE DEF p, checks, ids
  <2>5. /\ DOMAIN pairs' = DOMAIN pairs \cup {d} /\ pairs'[d] = p
        /\ \A n \in DOMAIN pairs : pairs'[n] = pairs[n]
    BY <2>3 DEF With
  <2> QED BY <2>1, <2>3, <2>4, <2>5 DEF Reported, Accepted, Paired
<1>3. CASE Finish
  BY <1>3 DEF Finish, Reported, Accepted, Paired
<1> QED
  BY <1>0, <1>1, <1>2, <1>3 DEF Next

LEMMA AlwaysReported == Spec => []Reported
<1>1. Init => Reported
  BY DEF Init, Nothing, Reported, Accepted
<1> QED BY <1>1, ReportedStep, PTL DEF Spec

\* What is compared are two snapshots that were given, of one device.
LEMMA PairsAreGiven ==
  ASSUME IInv, Reported, NEW d \in DOMAIN pairs
  PROVE  LET x == side["pre"][d]
             y == side["post"][d]
         IN  /\ IsFiniteSet(DOMAIN x.checks) /\ IsFiniteSet(DOMAIN y.checks)
             /\ IsPair(x, y) /\ PairOf(x, y, pairs[d])
<1> DEFINE x == side["pre"][d]
           y == side["post"][d]
<1>1. Judging /\ Shapes /\ d \in Paired /\ PairOf(x, y, pairs[d])
  BY DEF Reported, Accepted, Judging, IInv
<1>2. \A s \in Sides : d \in DOMAIN side[s] =>
        side[s][d] \in Snapshots(given[s]) /\ side[s][d].device = d
  <2> SUFFICES ASSUME NEW s \in Sides, d \in DOMAIN side[s]
               PROVE  side[s][d] \in Snapshots(given[s]) /\ side[s][d].device = d
    OBVIOUS
  <2>1. For(Held(s), d) = SnapshotsOf(s, d) /\ Kept(Held(s), side[s], tied[s])
    BY <1>1, AllIsRead
  <2>2. side[s][d] \in SnapshotsOf(s, d)
    BY <2>1 DEF Kept
  <2> QED BY <2>2 DEF SnapshotsOf
<1>3. /\ x \in Snapshots(given["pre"]) /\ y \in Snapshots(given["post"])
      /\ x.device = d /\ y.device = d
  BY <1>1, <1>2 DEF Paired, Sides
<1>4. given \in Given
  BY <1>1 DEF Shapes
<1>5. IsSnapshot(x) /\ IsSnapshot(y) /\ IsPair(x, y)
  BY <1>3, <1>4, GivenAssumption DEF Sides
<1> QED BY <1>1, <1>5 DEF IsSnapshot

-----------------------------------------------------------------------------
(* Agreement, and what a double may make of it. *)

LEMMA WithinIsNear ==
  ASSUME NEW old \in Int, NEW new \in Int, NEW band, IsBand(band)
  PROVE  /\ Near(old, new, band, FALSE) => WithinBand(old, new, band)
         /\ WithinBand(old, new, band) => Near(old, new, band, TRUE)
<1>1. CASE ~Misjudged(old, new, band)
  BY <1>1, BandIsInterval DEF Near
<1>2. CASE Misjudged(old, new, band)
  <2> DEFINE rest == [abs |-> band.abs, pct |-> None, direction |-> band.direction]
  <2>1. Near(old, new, band, FALSE) => InInterval(old, new, rest)
    BY <1>2 DEF Near
  <2>2. rest.abs = band.abs /\ rest.pct = None /\ rest.direction = band.direction
    OBVIOUS
  <2> HIDE DEF rest
  <2>3. IsBand(rest) /\ ~Misjudged(old, new, rest)
    BY <2>2 DEF IsBand, Misjudged, Bounds
  <2>4. InInterval(old, new, rest) => WithinBand(old, new, rest)
    BY <2>3, BandIsInterval
  <2>5. WithinBand(old, new, rest) => WithinBand(old, new, band)
    <3>1. Bounds(rest) \subseteq {"abs"} /\ Bounds(rest) \subseteq Bounds(band)
      BY <2>2 DEF Bounds
    <3>2. new - old # 0
      <4> DEFINE t == <<Absolute(new - old), Absolute(old), band.pct>>
      <4>1. t \in Misrounded /\ t[1] = Absolute(new - old)
        BY <1>2 DEF Misjudged
      <4> HIDE DEF t
      <4>2. Absolute(new - old) # 0
        BY <4>1, RoundingAssumption DEF Close
      <4> QED BY <4>2 DEF Absolute
    <3>3. WithinBand(old, new, rest) =>
            \/ band.direction = "min_only" /\ new - old >= 0
            \/ band.direction = "max_only" /\ new - old <= 0
            \/ "abs" \in Bounds(rest) /\ Absolute(new - old) <= band.abs
      BY <2>2, <3>1, <3>2 DEF WithinBand
    <3> QED BY <3>1, <3>3 DEF WithinBand
  <2> QED BY <1>2, <2>1, <2>4, <2>5 DEF Near
<1> QED BY <1>1, <1>2

\* The fields of a dict are numbers, words or None.
Fielded(v) == v.kind = "dict" => \A f \in DOMAIN v.is : v.is[f] \in Int \cup Others

LEMMA SameIsNear ==
  ASSUME NEW old, NEW new, Fielded(old), Fielded(new), NEW compare, IsCompare(compare)
  PROVE  /\ SameValue(old, new, compare, FALSE) => SameWithin(old, new, compare)
         /\ SameWithin(old, new, compare) => SameValue(old, new, compare, TRUE)
<1>1. ASSUME old.kind = "dict", new.kind = "dict",
             NEW f \in DOMAIN compare.fields, {At(old.is, f), At(new.is, f)} \cap Others = {}
      PROVE  /\ Near(old.is[f], new.is[f], compare.fields[f], FALSE)
                  => WithinBand(old.is[f], new.is[f], compare.fields[f])
             /\ WithinBand(old.is[f], new.is[f], compare.fields[f])
                  => Near(old.is[f], new.is[f], compare.fields[f], TRUE)
  <2>1. IsBand(compare.fields[f])
    BY DEF IsCompare
  <2>2. f \in DOMAIN old.is /\ f \in DOMAIN new.is /\ old.is[f] \notin Others /\ new.is[f] \notin Others
    BY <1>1 DEF At, Others
  <2>3. old.is[f] \in Int /\ new.is[f] \in Int
    BY <1>1, <2>2 DEF Fielded
  <2> QED BY <2>1, <2>3, WithinIsNear
<1> QED BY <1>1 DEF SameValue, SameWithin

LEMMA AgreeIsNear ==
  ASSUME NEW pre, NEW post, NEW compare, IsCompare(compare),
         IsView(pre, compare.mode), IsView(post, compare.mode)
  PROVE  /\ Agree(pre, post, compare, FALSE) => AgreeWithin(pre, post, compare)
         /\ AgreeWithin(pre, post, compare) => Agree(pre, post, compare, TRUE)
<1>1. CASE compare.mode \in {"equality_set", "text_diff"}
  <2>1. ASSUME NEW k \in DOMAIN pre \cap DOMAIN post
        PROVE  /\ SameValue(pre[k], post[k], compare, FALSE) => SameWithin(pre[k], post[k], compare)
               /\ SameWithin(pre[k], post[k], compare) => SameValue(pre[k], post[k], compare, TRUE)
    <3>1. IsValue(pre[k], compare.mode) /\ IsValue(post[k], compare.mode)
      BY <1>1 DEF IsView
    <3>2. Fielded(pre[k]) /\ Fielded(post[k])
      BY <3>1 DEF IsValue, Fielded
    <3> QED BY <3>2, SameIsNear
  <2> QED BY <1>1, <2>1 DEF Agree, AgreeWithin
<1>2. CASE compare.mode = "tolerance"
  <2> DEFINE Band(f) == IF f \in DOMAIN compare.fields /\ compare.fields[f] # Unbounded
                          THEN compare.fields[f] ELSE compare.band
  <2>1. ASSUME NEW f \in DOMAIN pre \cap DOMAIN post, {pre[f], post[f]} \cap Others = {}
        PROVE  /\ Near(pre[f], post[f], Band(f), FALSE) => WithinBand(pre[f], post[f], Band(f))
               /\ WithinBand(pre[f], post[f], Band(f)) => Near(pre[f], post[f], Band(f), TRUE)
    <3>1. pre[f] \in Int /\ post[f] \in Int
      BY <1>2, <2>1 DEF IsView
    <3>2. IsBand(Band(f))
      BY DEF IsCompare
    <3> HIDE DEF Band
    <3> QED BY <3>1, <3>2, WithinIsNear
  <2>2. \A b \in BOOLEAN : Agree(pre, post, compare, b) <=>
          \A f \in DOMAIN pre \cap DOMAIN post :
            \/ {pre[f], post[f]} \cap Others # {}
            \/ DOMAIN compare.fields # {} /\ f \notin DOMAIN compare.fields
            \/ Near(pre[f], post[f], Band(f), b)
    BY <1>2 DEF Agree
  <2>3. AgreeWithin(pre, post, compare) <=>
          \A f \in DOMAIN pre \cap DOMAIN post :
            \/ {pre[f], post[f]} \cap Others # {}
            \/ DOMAIN compare.fields # {} /\ f \notin DOMAIN compare.fields
            \/ WithinBand(pre[f], post[f], Band(f))
    BY <1>2 DEF AgreeWithin
  <2> HIDE DEF Band
  <2> QED BY <2>1, <2>2, <2>3
<1>3. CASE compare.mode \notin {"equality_set", "text_diff", "tolerance"}
  BY <1>3 DEF Agree, AgreeWithin
<1> QED BY <1>1, <1>2, <1>3

LEMMA PairIsSound ==
  ASSUME NEW x, NEW y, IsPair(x, y), NEW c, Both(x, y, c)
  PROVE  LET pre == x.checks[c].view
             post == y.checks[c].view
             compare == x.checks[c].compare
         IN  /\ Agree(pre, post, compare, FALSE) => AgreeWithin(pre, post, compare)
             /\ AgreeWithin(pre, post, compare) => Agree(pre, post, compare, TRUE)
BY BothCollected, AgreeIsNear

\* jobs/diffcore.py:89-292,486-630 and tools/diff_snapshots.py:364-415: in every
\* mode, for all views of that mode and all bands, a check passes only if both
\* sides collected it and the views agree, and does if they agree beyond doubt,
\* however a percentage is rounded within Precision; the summary of a pair counts
\* every entry of its report.
THEOREM VerdictsAreSound == Spec => []VerdictIsSound
<1>1. IInv /\ Reported => VerdictIsSound
  <2> SUFFICES ASSUME IInv, Reported, NEW d \in DOMAIN pairs
               PROVE  LET x == side["pre"][d]
                          y == side["post"][d]
                      IN  Exact(x, y, pairs[d]) /\ IsPair(x, y)
    <3>1. SUFFICES ASSUME IInv, Reported,
                          \A d \in DOMAIN pairs :
                            Exact(side["pre"][d], side["post"][d], pairs[d])
                            /\ IsPair(side["pre"][d], side["post"][d])
                   PROVE  VerdictIsSound
      OBVIOUS
    <3>2. ASSUME NEW d \in DOMAIN pairs, NEW c, Both(side["pre"][d], side["post"][d], c)
          PROVE  LET pre == side["pre"][d].checks[c].view
                     post == side["post"][d].checks[c].view
                     compare == side["pre"][d].checks[c].compare
                 IN  /\ Agree(pre, post, compare, FALSE) => AgreeWithin(pre, post, compare)
                     /\ AgreeWithin(pre, post, compare) => Agree(pre, post, compare, TRUE)
      BY <3>1, <3>2, PairIsSound
    <3> QED BY <3>1, <3>2 DEF VerdictIsSound, Exact, EntryCount
  <2> QED BY PairsAreGiven, PairIsExact
<1> QED BY <1>1, Inductive, AlwaysReported, PTL

\* jobs/diffcore.py:294-484: for all texts, whatever lines difflib matches, the
\* hunks of a report turn the old text into the new one, each at its place.
THEOREM HunksPatch == Spec => []HunksAddUp
<1>1. IInv /\ Reported => HunksAddUp
  <2> SUFFICES ASSUME IInv, Reported PROVE HunksAddUp
    OBVIOUS
  <2>1. \A d \in DOMAIN pairs : AddsUp(side["pre"][d], side["post"][d], pairs[d])
    BY PairsAreGiven, PairAddsUp
  <2> QED BY <2>1 DEF HunksAddUp, AddsUp
<1> QED BY <1>1, Inductive, AlwaysReported, PTL
=============================================================================
