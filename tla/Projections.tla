------------------------------ MODULE Projections ------------------------------
(***************************************************************************)
(* The seven projection tables of internal/sqlstore: projections.go writes *)
(* them in the transaction of a command, integrity.go reads them back when *)
(* a case is read, archived or checked at the start of the server.         *)
(* CaseStore takes them for one table that holds what was written; here    *)
(* they are tables with keys, row numbers and an order of reading, shared  *)
(* by the rows of all cases.                                               *)
(*                                                                         *)
(* An entry of a list stands for its columns; its position, which it never *)
(* loses (EvidenceKept), for the identifier it was given.                  *)
(* external: newID never repeats itself; SQLite numbers a new row one      *)
(* higher than the highest of the table.                                   *)
(* A definition said to be a mutant is one a mistake in the code could     *)
(* turn the next one into; it is there to test the properties with.        *)
(***************************************************************************)
EXTENDS CaseLifecycle

\* "unique" is the column the table's UNIQUE constraint names next to the
\* case; of a table without one it is the identifier.
Entry(unique, item) == [unique |-> unique, item |-> item]

Numbered(list) == [i \in DOMAIN list |-> Entry(i, list[i])]

\* What is inserted for a case, table by table, in this order.
Entries(c) ==
    [condition_observations |->
        [i \in DOMAIN c.conditions |-> Entry(c.conditions[i], c.conditions[i])],
     treatment_plans        |-> Numbered(c.plans),
     compatibility_trials   |-> Numbered(c.trials),
     treatment_checkpoints  |->
        [i \in DOMAIN c.checkpoints |-> Entry(c.checkpoints[i].step, c.checkpoints[i])],
     stability_observations |-> Numbered(c.stability),
     release_signatures     |-> Numbered(IF c.release = NoOne THEN <<>> ELSE <<c.release>>),
     archive_manifests      |-> Numbered(IF c.archive = NoManifest THEN <<>> ELSE <<c.archive>>)]

\* A row: its case, its number in the table, its identifier, its entry.
RowsOf(rows, k) == {r \in rows : r.case = k}

\* Mutant: the DELETE has lost its WHERE.
DeletedAll(rows, k) == {}

Deleted(rows, k) == rows \ RowsOf(rows, k)

LastRowid(rows) == Max({r.rowid : r \in rows} \cup {0})

Inserted(rows, k, entries) ==
    rows \cup {[case |-> k, rowid |-> LastRowid(rows) + i, id |-> i, entry |-> entries[i]] :
                  i \in DOMAIN entries}

\* No insert met a row with its identifier or its unique columns.
KeysHold(tables) ==
    \A table \in DOMAIN tables : \A r, s \in tables[table] :
        r.case = s.case /\ (r.id = s.id \/ r.entry.unique = s.entry.unique) => r = s

syncProjections(tables, k, c) ==
    LET entries == Entries(c)
    IN  [table \in DOMAIN entries |->
            Inserted(Deleted(tables[table], k), k, entries[table])]

-----------------------------------------------------------------------------
(* integrity.go                                                            *)

\* What a query can order its rows by.
Column(r, order) == [rowid |-> r.rowid, unique |-> r.entry.unique][order]

\* The loop over an ordered result set: as many rows as the list has entries,
\* and the same one at every place.
SameRows(rows, order, list) ==
    /\ Cardinality(rows) = Len(list)
    /\ \A r \in rows :
          LET place == Cardinality({s \in rows : Column(s, order) <= Column(r, order)})
          IN  r.id = place /\ r.entry.item = list[place]

verifyProjections(tables, k, c) ==
    \* The conditions are compared identifier by identifier.
    /\ {<<r.id, r.entry.item>> : r \in RowsOf(tables.condition_observations, k)} =
          {<<i, c.conditions[i]>> : i \in DOMAIN c.conditions}
    /\ SameRows(RowsOf(tables.treatment_plans, k), "unique", c.plans)
    /\ SameRows(RowsOf(tables.compatibility_trials, k), "rowid", c.trials)
    /\ SameRows(RowsOf(tables.treatment_checkpoints, k), "unique", c.checkpoints)
    /\ SameRows(RowsOf(tables.stability_observations, k), "rowid", c.stability)
    /\ {r.entry.item : r \in RowsOf(tables.release_signatures, k)} = {c.release} \ {NoOne}
    /\ {r.entry.item : r \in RowsOf(tables.archive_manifests, k)} = {c.archive} \ {NoManifest}

-----------------------------------------------------------------------------
\* The tables with a case that was written first and another, of the same
\* content, that was written after it; and what a command on the first one
\* makes of them.
Before == LET empty == [table \in DOMAIN Entries(case) |-> {}]
          IN  syncProjections(syncProjections(empty, "this", case), "other", case)

After == syncProjections(Before, "this", case')

(* No insert of an accepted command is refused for a key: the domain never *)
(* has the same region, plan version or step twice, and rows rewritten for *)
(* a case do not meet its old ones.  A refusal would be a command that is  *)
(* within the rules and can never be stored.                               *)
SyncFits == [][KeysHold(After)]_case

(* What was written is read back: in the order of each query the rows of a *)
(* case are the lists of its snapshot, after every command, and the other  *)
(* case whose rows lie between them still is as it was.  Otherwise an      *)
(* intact database would be reported as corrupt, for good.                 *)
SyncReadsBack ==
    [][LET tables == After
       IN  /\ verifyProjections(tables, "this", case')
           /\ verifyProjections(tables, "other", case)]_case

=============================================================================
