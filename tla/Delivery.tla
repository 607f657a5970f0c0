------------------------------ MODULE Delivery ------------------------------
(***************************************************************************)
(* What a capture run promises about its downloads, whichever sink carries *)
(* them (jobs/bundle.py: FileSink, ZipSink).                               *)
(*                                                                         *)
(*  - an artifact file reaches the JobResult at most once;                 *)
(*  - the run manifest is published at most once and is the last thing     *)
(*    that reaches the JobResult, so it can speak of everything before it; *)
(*  - a file the manifest claims (a digest and no not_attached flag) can   *)
(*    be downloaded.                                                       *)
(*                                                                         *)
(* The run may stop at any point (a hard kill, an unattachable part): the  *)
(* promise has no liveness part.                                           *)
(***************************************************************************)
CONSTANT Files          \* the artifact files a run may produce

VARIABLES
  store,                \* files that can be downloaded from the JobResult
  shown                 \* the published manifest, as far as files go

deliveryVars == <<store, shown>>

Unpublished == [there |-> FALSE, claimed |-> {}, missing |-> {}]

Manifests == [there : BOOLEAN, claimed : SUBSET Files, missing : SUBSET Files]

DeliveryInit ==
  /\ store = {}
  /\ shown = Unpublished

\* One download with the files S: one file, or the members of one zip part.
Deliver(S) ==
  /\ ~shown.there
  /\ S \cap store = {}
  /\ store' = store \cup S
  /\ UNCHANGED shown

\* The download that carries the manifest, alone or beside the files S.
Publish(S, m) ==
  /\ ~shown.there
  /\ m.there
  /\ S \cap store = {}
  /\ store' = store \cup S
  /\ m.claimed \subseteq store'
  /\ shown' = m

DeliveryNext ==
  \E S \in SUBSET Files :
    \/ Deliver(S)
    \/ \E m \in Manifests : Publish(S, m)

DeliverySpec == DeliveryInit /\ [][DeliveryNext]_deliveryVars
=============================================================================
