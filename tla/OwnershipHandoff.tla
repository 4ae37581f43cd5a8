--------------------------- MODULE OwnershipHandoff ---------------------------
(***************************************************************************)
(* What the admission of a project promises, without tokens, rows or       *)
(* launches: there is one owner, a live owner is never replaced against    *)
(* its will, and it can name heirs, one of whom may become the owner in    *)
(* its place, before or after its death.                                   *)
(***************************************************************************)
CONSTANTS Process, None

VARIABLES
  owner,  \* the process that owns the project, or None
  dead,   \* processes that have ended; none comes back
  heirs   \* processes the owner has accepted as successors

vars == <<owner, dead, heirs>>

Init == owner = None /\ dead = {} /\ heirs = {}

(* A project that is free, or whose owner has died without an heir. *)
Take(p) ==
  /\ p \notin dead
  /\ owner = None \/ owner \in dead
  /\ heirs = {}
  /\ owner' = p
  /\ UNCHANGED <<dead, heirs>>

Accept(c) ==
  /\ owner # None /\ owner \notin dead
  /\ heirs = {}
  /\ heirs' = {c}
  /\ UNCHANGED <<owner, dead>>

Inherit(c) ==
  /\ c \in heirs \ dead
  /\ owner' = c
  /\ heirs' = {}
  /\ UNCHANGED dead

(* Only an heir that has died is forgotten. *)
Forget ==
  /\ heirs # {} /\ heirs \subseteq dead
  /\ heirs' = {}
  /\ UNCHANGED <<owner, dead>>

Release ==
  /\ owner # None /\ owner \notin dead
  /\ heirs = {}
  /\ owner' = None
  /\ UNCHANGED <<dead, heirs>>

Die(p) ==
  /\ p \notin dead
  /\ dead' = dead \cup {p}
  /\ UNCHANGED <<owner, heirs>>

Next ==
  \/ Forget \/ Release
  \/ \E p \in Process : Take(p) \/ Accept(p) \/ Inherit(p) \/ Die(p)

Spec == Init /\ [][Next]_vars
=============================================================================
