------------------------------ MODULE TypeOrm ------------------------------
(***************************************************************************)
(* The object-relational mapper under every service (the typeorm package,  *)
(* external to the repository), as src/ relies on it.  A row and the       *)
(* entity loaded from it are records over the same columns.                *)
(*                                                                         *)
(* repository.save(entity) is two database round trips.  The first SELECTs *)
(* the row by primary key, soft-deleted or not, and compares it with the   *)
(* entity column by column; the second UPDATEs the columns that differed.  *)
(* Nothing locks the row between the handler's own read, the SELECT and    *)
(* the UPDATE, and no entity of the repository has a version column.       *)
(***************************************************************************)

\* The columns the save will UPDATE: those in which the entity differs from
\* the row the save SELECTed.
Changed(entity, row) == {c \in DOMAIN row : entity[c] # row[c]}

\* The row after an UPDATE of those columns to the entity's values.
Written(row, entity, cols) ==
    [c \in DOMAIN row |-> IF c \in cols THEN entity[c] ELSE row[c]]

(***************************************************************************)
(* A one-to-many relation that was loaded with the entity is saved with it.*)
(* The SELECT also reads the rows that now refer to the entity's row:      *)
(* those of the loaded list that are gone are inserted again (the relation *)
(* cascades), and those that are not in the list are cut off, their foreign*)
(* key set to null, or the save fails when that column may not be null.    *)
(***************************************************************************)
Reinserted(loaded, rows) == loaded \ rows

CutOff(loaded, rows) == rows \ loaded
=============================================================================
