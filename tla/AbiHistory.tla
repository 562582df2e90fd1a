----------------------------- MODULE AbiHistory -----------------------------
(***************************************************************************)
(* What `sidlc compile` promises about the ABI history of an interface, in *)
(* terms of nothing but histories.  Every artifact holds one; it may or may *)
(* not be readable.  A history is only ever replaced by a history that      *)
(* begins with the revisions of a readable artifact, or with none, and adds *)
(* revisions numbered on from there.  Faults make artifacts unreadable;     *)
(* they never give an artifact a history nobody published.                  *)
(***************************************************************************)
EXTENDS Sif

CONSTANT Paths

VARIABLES
  held,      \* the history each artifact holds, or would hold if it were whole
  readable,  \* the artifacts a reader accepts
  draft      \* the past the next published history begins with

vars == <<held, readable, draft>>

WellNumbered(nodes) == Contiguous(nodes) /\ DenseIds(nodes, Span(nodes))

Init ==
  /\ held = [p \in Paths |-> <<>>]
  /\ readable = {}
  /\ draft = <<>>

(* Take the history of a readable artifact as the past.                     *)
Load(p) ==
  /\ p \in readable
  /\ draft' = held[p]
  /\ UNCHANGED <<held, readable>>

(* Give it up again.                                                        *)
Abandon ==
  /\ draft' = <<>>
  /\ UNCHANGED <<held, readable>>

(* An artifact is to hold the past and more; it is unreadable until whole.  *)
Publish(p) ==
  /\ Len(draft) <= Len(held'[p]) /\ SubSeq(held'[p], 1, Len(draft)) = draft
  /\ WellNumbered(held'[p])
  /\ \A q \in Paths \ {p} : held'[q] = held[q]
  /\ DOMAIN held' = Paths
  /\ readable' = readable \ {p}
  /\ draft' = <<>>

Complete(p) ==
  /\ held[p] # <<>>
  /\ readable' = readable \cup {p}
  /\ UNCHANGED <<held, draft>>

(* An artifact at rest is damaged, or damage happens to be undone.          *)
Fault ==
  /\ readable' \subseteq {p \in Paths : held[p] # <<>>}
  /\ UNCHANGED <<held, draft>>

Next ==
  \/ \E p \in Paths : Load(p) \/ Publish(p) \/ Complete(p)
  \/ Abandon
  \/ Fault

Spec == Init /\ [][Next]_vars
=============================================================================
