------------------------------ MODULE Historian ------------------------------
(***************************************************************************)
(* What the plant historian promises to whoever opens its database, with   *)
(* the server that writes it abstracted away.                              *)
(*                                                                         *)
(* The database holds observation rows and at most one simulator           *)
(* checkpoint.  It is either being bootstrapped (no checkpoint) or sealed  *)
(* (one checkpoint).  A sealed history grows one whole simulation frame at *)
(* a time, always together with its checkpoint, and only shrinks from its  *)
(* old end or by an explicit reset.                                        *)
(*                                                                         *)
(* PlantServer is shown to implement this module.                          *)
(***************************************************************************)
EXTENDS Integers

CONSTANTS Signal,   \* the catalog's signals
          Config    \* server configurations that a checkpoint pins

\* A simulation is identified by its configuration and its UTC origin.
Origin == [config : Config, start : Int]

\* One row of a signal's history table.  The simulator is deterministic, so
\* `origin' and the frame's (server) time stand for the row's value.
Row == [signal : Signal, origin : Origin, server : Int, source : Int, id : Nat]

\* The payload of the checkpoint table's only row.
Checkpoint == [origin : Origin, elapsed : Nat]

VARIABLES rows,        \* the rows of every signal's table
          checkpoint   \* {} or the singleton of the saved checkpoint

vars == <<rows, checkpoint>>

\* The simulated time a checkpoint has reached, as a timestamp.
Reached(c) == c.origin.start + c.elapsed

\* The checkpoint table holds at most one row.
IsTable(cs) == cs \subseteq Checkpoint /\ \A c, d \in cs : c = d

\* A new file, or what an earlier release sealed.
Init ==
  /\ IsTable(checkpoint)
  /\ rows \subseteq Row
  /\ checkpoint = {} => rows = {}

\* An interrupted or running bootstrap: rows of a single simulation, unsealed.
Bootstrap ==
  /\ checkpoint = {}
  /\ checkpoint' = {}
  /\ rows \subseteq rows'
  /\ rows' \subseteq Row
  /\ \A r, q \in rows' : r.origin = q.origin

\* The bootstrap is complete: the checkpoint covers every row.
Seal ==
  /\ checkpoint = {}
  /\ IsTable(checkpoint')
  /\ rows' = rows
  /\ \E c \in checkpoint' : \A r \in rows : r.origin = c.origin /\ r.server <= Reached(c)

\* One frame enters the history with its checkpoint, and old rows may leave.
\* Nothing appears between the two checkpoints: an outage stays a gap.
Advance ==
  /\ IsTable(checkpoint')
  /\ rows' \subseteq Row
  /\ \E c \in checkpoint, d \in checkpoint' :
       /\ d.origin = c.origin
       /\ d.elapsed > c.elapsed
       /\ \A r \in rows' \ rows : r.origin = d.origin /\ r.server = Reached(d)
  /\ \A r \in rows \ rows' : \E q \in rows' : q.signal = r.signal /\ q.source > r.source

\* The operator discards the history.
Clear == rows' = {} /\ checkpoint' = {}

Next == Bootstrap \/ Seal \/ Advance \/ Clear

Spec == Init /\ [][Next]_vars
=============================================================================
