------------------------------- MODULE Layers -------------------------------
(***************************************************************************)
(* What the structural layers of a timeframe share: directions, and the    *)
(* id by which a layer that was rebuilt tells the layer above from which   *)
(* row on it differs.  Rows are records with an id.                        *)
(***************************************************************************)
EXTENDS Integers, Sequences, FiniteSetsExt

Directions == {"up", "down"}

Opposite(d) == IF d = "up" THEN "down" ELSE "up"

\* Rust's None, for an id.
NoId == 0

\* Mutation of FirstChangedId: rows are compared by their ids, not by value.
FirstChangedIdByIds(old, new, appendAsChange) ==
    LET n       == IF Len(old) < Len(new) THEN Len(old) ELSE Len(new)
        changed == {i \in 1 .. n : old[i].id # new[i].id}
    IN  IF changed # {} THEN old[Min(changed)].id
        ELSE IF Len(old) > Len(new) THEN old[n + 1].id
        ELSE IF appendAsChange /\ Len(new) > Len(old) THEN new[n + 1].id
        ELSE NoId

\* first_changed_id: the old id of the first row that differs; with no such
\* row, the first row that disappeared or, when appendAsChange, appeared.
FirstChangedId(old, new, appendAsChange) ==
    LET n       == IF Len(old) < Len(new) THEN Len(old) ELSE Len(new)
        changed == {i \in 1 .. n : old[i] # new[i]}
    IN  IF changed # {} THEN old[Min(changed)].id
        ELSE IF Len(old) > Len(new) THEN old[n + 1].id
        ELSE IF appendAsChange /\ Len(new) > Len(old) THEN new[n + 1].id
        ELSE NoId

=============================================================================
