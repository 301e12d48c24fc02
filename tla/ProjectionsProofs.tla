--------------------------- MODULE ProjectionsProofs ---------------------------
(* Proofs about Projections: a command that the domain accepts can be      *)
(* stored, and what was stored is read back.                               *)
EXTENDS Projections, CaseLifecycleProofs, FiniteSetTheorems

-----------------------------------------------------------------------------
(* The rows of one case, as one command writes them: numbered from a + 1.  *)

Block(k, a, entries) ==
    {[case |-> k, rowid |-> a + i, id |-> i, entry |-> entries[i]] : i \in DOMAIN entries}

\* A list of entries without a repeated unique column.
Distinct(entries) ==
    \A i, j \in DOMAIN entries : entries[i].unique = entries[j].unique => i = j

LEMMA BlockRow ==
    ASSUME NEW k, NEW a, NEW e, NEW r \in Block(k, a, e)
    PROVE  /\ r.case = k /\ r.id \in DOMAIN e
           /\ r.rowid = a + r.id /\ r.entry = e[r.id]
           /\ r = [case |-> k, rowid |-> a + r.id, id |-> r.id, entry |-> e[r.id]]
<1>1. PICK i \in DOMAIN e : r = [case |-> k, rowid |-> a + i, id |-> i, entry |-> e[i]]
    BY DEF Block
<1> QED
    BY <1>1

LEMMA BlockOf ==
    ASSUME NEW k, NEW o, k # o, NEW a, NEW b, NEW e, NEW f
    PROVE  /\ RowsOf(Block(o, a, e) \cup Block(k, b, f), k) = Block(k, b, f)
           /\ RowsOf(Block(o, a, e) \cup Block(k, b, f), o) = Block(o, a, e)
           /\ Deleted(Block(o, a, e) \cup Block(k, b, f), o) = Block(k, b, f)
BY DEF RowsOf, Block, Deleted

\* The highest row number of a block.
LEMMA BlockLast ==
    ASSUME NEW k, NEW a \in Nat, NEW n \in Nat, NEW e, DOMAIN e = 1..n
    PROVE  LastRowid(Block(k, a, e)) \in Nat
<1> DEFINE numbers == {r.rowid : r \in Block(k, a, e)} \cup {0}
           top == IF n = 0 THEN 0 ELSE a + n
<1>1. \A m \in numbers : m = 0 \/ \E i \in 1..n : m = a + i
    BY BlockRow
<1>2. top \in numbers /\ \A m \in numbers : top >= m
    <2>1. CASE n = 0
        BY <1>1, <2>1
    <2>2. CASE n # 0
        <3> DEFINE r == [case |-> k, rowid |-> a + n, id |-> n, entry |-> e[n]]
        <3>1. r \in Block(k, a, e) /\ r.rowid = a + n
            BY <2>2 DEF Block
        <3>2. a + n \in numbers
            BY <3>1
        <3>3. top = a + n
            BY <2>2
        <3>4. ASSUME NEW m \in numbers
              PROVE  top >= m
            BY <1>1, <3>3
        <3> QED
            BY <3>2, <3>3, <3>4
    <2> QED
        BY <2>1, <2>2
<1>3. numbers \subseteq Nat
    BY <1>1
<1>4. Max(numbers) \in numbers
    <2> HIDE DEF numbers, top
    <2> QED
        BY <1>2 DEF Max
<1> QED
    BY <1>3, <1>4 DEF LastRowid

LEMMA BlockKeys ==
    ASSUME NEW k, NEW o, k # o, NEW a, NEW b, NEW e, NEW f, Distinct(e), Distinct(f),
           NEW r \in Block(o, a, e) \cup Block(k, b, f),
           NEW s \in Block(o, a, e) \cup Block(k, b, f),
           r.case = s.case, r.id = s.id \/ r.entry.unique = s.entry.unique
    PROVE  r = s
<1>0. \A x \in Block(k, b, f) : x.case = k
    BY BlockRow
<1>1. CASE r.case = o
    <2>1. r \in Block(o, a, e) /\ s \in Block(o, a, e)
        BY <1>0, <1>1
    <2>2. r.id = s.id
        BY <2>1, BlockRow DEF Distinct
    <2> QED
        BY <2>1, <2>2, BlockRow
<1>2. CASE r.case # o
    <2>1. r \in Block(k, b, f) /\ s \in Block(k, b, f)
        BY <1>2, BlockRow
    <2>2. r.id = s.id
        BY <2>1, BlockRow DEF Distinct
    <2> QED
        BY <2>1, <2>2, BlockRow
<1> QED
    BY <1>1, <1>2

\* n different things are n.
LEMMA CountUpTo ==
    ASSUME NEW n \in Nat, NEW S, NEW row,
           DOMAIN row = 1..n, row = [i \in 1..n |-> row[i]],
           S = {row[i] : i \in 1..n},
           \A i, j \in 1..n : row[i] = row[j] => i = j
    PROVE  Cardinality(S) = n
<1>1. row \in Bijection(1..n, S)
    BY DEF Bijection, Injection, Surjection, IsInjective
<1> QED
    BY <1>1, FS_CountingElements DEF ExistsBijection

-----------------------------------------------------------------------------
(* A block is read back in the order of its row numbers, or of a unique    *)
(* column that counts the entries.                                         *)

ListOf(entries, list) ==
    /\ DOMAIN entries = DOMAIN list
    /\ \A i \in DOMAIN list : entries[i].item = list[i]

\* The first m rows of a block.
LEMMA BlockCount ==
    ASSUME NEW k, NEW a, NEW n \in Nat, NEW e, DOMAIN e = 1..n, NEW m \in 0..n
    PROVE  Cardinality({r \in Block(k, a, e) : r.id <= m}) = m
<1> DEFINE row == [i \in 1..m |->
                      [case |-> k, rowid |-> a + i, id |-> i, entry |-> e[i]]]
           S == {r \in Block(k, a, e) : r.id <= m}
<1>1. S = {row[i] : i \in 1..m}
    <2>1. \A r \in S : r.id \in 1..m /\ r = row[r.id]
        BY BlockRow
    <2>2. \A i \in 1..m : row[i] \in S
        BY DEF Block
    <2> QED
        BY <2>1, <2>2
<1>2. \A i, j \in 1..m : row[i] = row[j] => i = j
    OBVIOUS
<1>3. m \in Nat /\ DOMAIN row = 1..m /\ row = [i \in 1..m |-> row[i]]
    OBVIOUS
<1> HIDE DEF row, S
<1>4. Cardinality(S) = m
    BY <1>1, <1>2, <1>3, CountUpTo
<1> QED
    BY <1>4 DEF S

LEMMA BlockByRowid ==
    ASSUME NEW k, NEW a \in Nat, NEW n \in Nat, NEW e, NEW list,
           DOMAIN e = 1..n, Len(list) = n, ListOf(e, list)
    PROVE  SameRows(Block(k, a, e), "rowid", list)
<1>1. Cardinality(Block(k, a, e)) = n
    <2>1. Block(k, a, e) = {r \in Block(k, a, e) : r.id <= n}
        BY BlockRow
    <2> QED
        BY <2>1, BlockCount
<1>2. ASSUME NEW r \in Block(k, a, e)
      PROVE  Cardinality({s \in Block(k, a, e) : s.rowid <= r.rowid}) = r.id
    <2>1. r.id \in 0..n /\ r.rowid = a + r.id
        BY BlockRow
    <2>2. \A s \in Block(k, a, e) : s.rowid <= r.rowid <=> s.id <= r.id
        BY <2>1, BlockRow
    <2>3. {s \in Block(k, a, e) : s.rowid <= r.rowid} = {s \in Block(k, a, e) : s.id <= r.id}
        BY <2>2
    <2> QED
        BY <2>1, <2>3, BlockCount
<1>3. \A r \in Block(k, a, e) : r.entry.item = list[r.id]
    BY BlockRow DEF ListOf
<1> QED
    BY <1>1, <1>2, <1>3 DEF SameRows, Column

LEMMA BlockByUnique ==
    ASSUME NEW k, NEW a \in Nat, NEW n \in Nat, NEW e, NEW list,
           DOMAIN e = 1..n, Len(list) = n, ListOf(e, list),
           \A i \in 1..n : e[i].unique = i
    PROVE  SameRows(Block(k, a, e), "unique", list)
<1>1. Cardinality(Block(k, a, e)) = n
    <2>1. Block(k, a, e) = {r \in Block(k, a, e) : r.id <= n}
        BY BlockRow
    <2> QED
        BY <2>1, BlockCount
<1>2. ASSUME NEW r \in Block(k, a, e)
      PROVE  Cardinality({s \in Block(k, a, e) : s.entry.unique <= r.entry.unique}) = r.id
    <2>1. r.id \in 0..n /\ \A s \in Block(k, a, e) : s.entry.unique = s.id
        BY BlockRow
    <2>2. {s \in Block(k, a, e) : s.entry.unique <= r.entry.unique} =
             {s \in Block(k, a, e) : s.id <= r.id}
        BY <2>1
    <2> QED
        BY <2>1, <2>2, BlockCount
<1>3. \A r \in Block(k, a, e) : r.entry.item = list[r.id]
    BY BlockRow DEF ListOf
<1> QED
    BY <1>1, <1>2, <1>3 DEF SameRows, Column

-----------------------------------------------------------------------------
(* The entries of a case.                                                  *)

Tables == {"condition_observations", "treatment_plans", "compatibility_trials",
           "treatment_checkpoints", "stability_observations",
           "release_signatures", "archive_manifests"}

LEMMA EntriesShape ==
    ASSUME NEW c \in Case, ValidateSnapshot(c)
    PROVE  /\ DOMAIN Entries(c) = Tables
           /\ \A table \in Tables :
                 /\ \E n \in Nat : DOMAIN Entries(c)[table] = 1..n
                 /\ Distinct(Entries(c)[table])
<1> DEFINE E == Entries(c)
<1>1. DOMAIN E = Tables
    BY DEF Entries, Tables
<1>2. /\ DOMAIN c.conditions = 1..Len(c.conditions) /\ Len(c.conditions) \in Nat
      /\ DOMAIN c.plans = 1..Len(c.plans) /\ Len(c.plans) \in Nat
      /\ DOMAIN c.trials = 1..Len(c.trials) /\ Len(c.trials) \in Nat
      /\ DOMAIN c.checkpoints = 1..Len(c.checkpoints) /\ Len(c.checkpoints) \in Nat
      /\ DOMAIN c.stability = 1..Len(c.stability) /\ Len(c.stability) \in Nat
    BY CaseFields
<1>3. /\ \A i, j \in DOMAIN c.conditions : c.conditions[i] = c.conditions[j] => i = j
      /\ \A i \in DOMAIN c.checkpoints : c.checkpoints[i].step = i
    BY DEF ValidateSnapshot, validateConditionSnapshot, validateCheckpointSnapshot
<1>4. ASSUME NEW list, NEW n \in Nat, DOMAIN list = 1..n
      PROVE  DOMAIN Numbered(list) = 1..n /\ Distinct(Numbered(list))
    BY <1>4 DEF Numbered, Entry, Distinct
<1>5. (\E n \in Nat : DOMAIN E["condition_observations"] = 1..n)
      /\ Distinct(E["condition_observations"])
    BY <1>2, <1>3 DEF Entries, Entry, Distinct
<1>6. (\E n \in Nat : DOMAIN E["treatment_checkpoints"] = 1..n)
      /\ Distinct(E["treatment_checkpoints"])
    BY <1>2, <1>3 DEF Entries, Entry, Distinct
<1> DEFINE Good(entries) ==
              (\E n \in Nat : DOMAIN entries = 1..n) /\ Distinct(entries)
           signed == IF c.release = NoOne THEN <<>> ELSE <<c.release>>
           sealed == IF c.archive = NoManifest THEN <<>> ELSE <<c.archive>>
<1>7. /\ E["treatment_plans"] = Numbered(c.plans)
      /\ E["compatibility_trials"] = Numbered(c.trials)
      /\ E["stability_observations"] = Numbered(c.stability)
      /\ E["release_signatures"] = Numbered(signed)
      /\ E["archive_manifests"] = Numbered(sealed)
    BY DEF Entries
<1>8. Good(Numbered(c.plans)) /\ Good(Numbered(c.trials)) /\ Good(Numbered(c.stability))
    BY <1>2, <1>4
<1>9. Good(Numbered(signed)) /\ Good(Numbered(sealed))
    <2>1. 0 \in Nat /\ 1 \in Nat /\ DOMAIN <<>> = 1..0 /\ \A x : DOMAIN <<x>> = 1..1
        OBVIOUS
    <2>2. Good(Numbered(<<>>)) /\ \A x : Good(Numbered(<<x>>))
        BY <1>4, <2>1
    <2> QED
        BY <2>2
<1>10. /\ Good(E["condition_observations"]) /\ Good(E["treatment_checkpoints"])
       /\ Good(E["treatment_plans"]) /\ Good(E["compatibility_trials"])
       /\ Good(E["stability_observations"]) /\ Good(E["release_signatures"])
       /\ Good(E["archive_manifests"])
    BY <1>5, <1>6, <1>7, <1>8, <1>9
<1> HIDE DEF E
<1>11. \A table \in Tables : Good(E[table])
    <2> HIDE DEF Good
    <2> QED
        BY <1>10 DEF Tables
<1> QED
    BY <1>1, <1>11 DEF E

\* What the command makes of the tables.
LEMMA AfterBlocks ==
    ASSUME case \in Case, ValidateSnapshot(case), case' \in Case, ValidateSnapshot(case')
    PROVE  /\ DOMAIN After = Tables
           /\ \A table \in Tables : \E a, b \in Nat :
                 After[table] = Block("other", a, Entries(case)[table])
                                \cup Block("this", b, Entries(case')[table])
<1> DEFINE e == Entries(case)
           f == Entries(case')
           empty == [table \in DOMAIN Entries(case) |-> {}]
           first == syncProjections(empty, "this", case)
<1>1. /\ DOMAIN e = Tables /\ DOMAIN f = Tables
      /\ \A table \in Tables : \E n \in Nat : DOMAIN e[table] = 1..n
    BY EntriesShape
<1>2. Before = syncProjections(first, "other", case)
    BY DEF Before
<1>3. After = syncProjections(Before, "this", case')
    BY DEF After
<1>4. \A rows, k, g : Inserted(rows, k, g) = rows \cup Block(k, LastRowid(rows), g)
    BY DEF Inserted, Block
<1>5. \A k : Deleted({}, k) = {}
    BY DEF Deleted
<1>6. LastRowid({}) \in Nat
    <2>1. Block("this", 0, <<>>) = {}
        BY DEF Block
    <2>2. 0 \in Nat /\ DOMAIN <<>> = 1..0
        OBVIOUS
    <2> QED
        BY <2>1, <2>2, BlockLast
<1> HIDE DEF e, f, first
<1>7. ASSUME NEW table \in Tables
      PROVE  \E a, b \in Nat :
                After[table] = Block("other", a, e[table]) \cup Block("this", b, f[table])
    <2>1. first[table] = Block("this", LastRowid({}), e[table])
        BY <1>1, <1>4, <1>5 DEF first, syncProjections, e
    <2> DEFINE a == LastRowid(first[table])
               b == LastRowid(Block("other", a, e[table]))
    <2>2. a \in Nat
        BY <1>1, <1>6, <2>1, BlockLast
    <2>3. Deleted(first[table], "other") = first[table]
        BY <2>1, BlockRow DEF Deleted, RowsOf
    <2>4. Before[table] = first[table] \cup Block("other", a, e[table])
        BY <1>1, <1>2, <1>4, <2>3 DEF syncProjections, e
    <2>5. Deleted(Before[table], "this") = Block("other", a, e[table])
        BY <2>1, <2>4, BlockOf
    <2>6. b \in Nat
        BY <1>1, <2>2, BlockLast
    <2>7. After[table] = Block("other", a, e[table]) \cup Block("this", b, f[table])
        BY <1>1, <1>3, <1>4, <2>5 DEF syncProjections, f
    <2> QED
        BY <2>2, <2>6, <2>7
<1>8. DOMAIN After = Tables
    BY <1>1, <1>3 DEF syncProjections, f
<1> QED
    BY <1>7, <1>8 DEF e, f

-----------------------------------------------------------------------------
LEMMA AfterFits ==
    ASSUME case \in Case, ValidateSnapshot(case), case' \in Case, ValidateSnapshot(case')
    PROVE  KeysHold(After)
<1> SUFFICES ASSUME NEW table \in DOMAIN After, NEW r \in After[table], NEW s \in After[table],
                    r.case = s.case, r.id = s.id \/ r.entry.unique = s.entry.unique
             PROVE  r = s
    BY DEF KeysHold
<1> DEFINE e == Entries(case)[table]
           f == Entries(case')[table]
<1>1. PICK a, b \in Nat : After[table] = Block("other", a, e) \cup Block("this", b, f)
    BY AfterBlocks
<1>2. Distinct(e) /\ Distinct(f)
    BY AfterBlocks, EntriesShape
<1> HIDE DEF e, f
<1> QED
    BY <1>1, <1>2, BlockKeys, "this" # "other"

(* No command the domain accepts is ever refused by a key of the           *)
(* projection tables, whatever the parameters of the model.                *)
THEOREM SyncAlwaysFits == Spec => SyncFits
<1>1. IInv /\ IInv' /\ [Next]_case => [KeysHold(After)]_case
    BY AfterFits DEF IInv, TypeOK, Sound
<1> QED
    BY <1>1, Inductive, PTL DEF Spec, SyncFits

-----------------------------------------------------------------------------
\* The rows of a list of no entry, and of one.
LEMMA NoRows ==
    ASSUME NEW k, NEW a
    PROVE  Block(k, a, Numbered(<<>>)) = {}
BY DEF Block, Numbered

LEMMA OneRow ==
    ASSUME NEW k, NEW a, NEW value
    PROVE  /\ Block(k, a, Numbered(<<value>>)) # {}
           /\ \A r \in Block(k, a, Numbered(<<value>>)) : r.entry.item = value
<1>1. 1 \in Nat /\ DOMAIN <<value>> = 1..1
    OBVIOUS
<1>2. DOMAIN Numbered(<<value>>) = {1} /\ Numbered(<<value>>)[1].item = value
    BY <1>1 DEF Numbered, Entry
<1>3. \A r \in Block(k, a, Numbered(<<value>>)) : r.entry.item = value
    BY <1>2, BlockRow
<1>4. Block(k, a, Numbered(<<value>>)) # {}
    BY <1>2 DEF Block
<1> QED
    BY <1>3, <1>4

\* Tables in which the rows of a case are a block pass its verification.
LEMMA BlocksVerify ==
    ASSUME NEW c \in Case, ValidateSnapshot(c), NEW k, NEW tables,
           \A table \in Tables : \E a \in Nat :
               RowsOf(tables[table], k) = Block(k, a, Entries(c)[table])
    PROVE  verifyProjections(tables, k, c)
<1> DEFINE E == Entries(c)
           signed == IF c.release = NoOne THEN <<>> ELSE <<c.release>>
           sealed == IF c.archive = NoManifest THEN <<>> ELSE <<c.archive>>
<1>1. /\ DOMAIN c.conditions = 1..Len(c.conditions) /\ Len(c.conditions) \in Nat
      /\ DOMAIN c.plans = 1..Len(c.plans) /\ Len(c.plans) \in Nat
      /\ DOMAIN c.trials = 1..Len(c.trials) /\ Len(c.trials) \in Nat
      /\ DOMAIN c.checkpoints = 1..Len(c.checkpoints) /\ Len(c.checkpoints) \in Nat
      /\ DOMAIN c.stability = 1..Len(c.stability) /\ Len(c.stability) \in Nat
    BY CaseFields
<1>2. ASSUME NEW list, NEW n \in Nat, DOMAIN list = 1..n
      PROVE  /\ DOMAIN Numbered(list) = 1..n /\ ListOf(Numbered(list), list)
             /\ \A i \in 1..n : Numbered(list)[i].unique = i
    BY <1>2 DEF Numbered, Entry, ListOf
<1>3. /\ E["treatment_plans"] = Numbered(c.plans)
      /\ E["compatibility_trials"] = Numbered(c.trials)
      /\ E["stability_observations"] = Numbered(c.stability)
      /\ E["release_signatures"] = Numbered(signed)
      /\ E["archive_manifests"] = Numbered(sealed)
    BY DEF Entries
<1>4. SameRows(RowsOf(tables["treatment_plans"], k), "unique", c.plans)
    <2> DEFINE e == Numbered(c.plans)
    <2>1. PICK a \in Nat : RowsOf(tables["treatment_plans"], k) = Block(k, a, e)
        BY <1>3 DEF Tables
    <2>2. /\ DOMAIN e = 1..Len(c.plans) /\ ListOf(e, c.plans)
          /\ \A i \in 1..Len(c.plans) : e[i].unique = i
        BY <1>1, <1>2
    <2> HIDE DEF e
    <2>3. SameRows(Block(k, a, e), "unique", c.plans)
        BY <1>1, <2>2, BlockByUnique
    <2> QED
        BY <2>1, <2>3
<1>5. SameRows(RowsOf(tables["compatibility_trials"], k), "rowid", c.trials)
    <2> DEFINE e == Numbered(c.trials)
    <2>1. PICK a \in Nat : RowsOf(tables["compatibility_trials"], k) = Block(k, a, e)
        BY <1>3 DEF Tables
    <2>2. /\ DOMAIN e = 1..Len(c.trials) /\ ListOf(e, c.trials)
          /\ \A i \in 1..Len(c.trials) : e[i].unique = i
        BY <1>1, <1>2
    <2> HIDE DEF e
    <2>3. SameRows(Block(k, a, e), "rowid", c.trials)
        BY <1>1, <2>2, BlockByRowid
    <2> QED
        BY <2>1, <2>3
<1>6. SameRows(RowsOf(tables["treatment_checkpoints"], k), "unique", c.checkpoints)
    <2>1. PICK a \in Nat :
             RowsOf(tables["treatment_checkpoints"], k) = Block(k, a, E["treatment_checkpoints"])
        BY DEF Tables
    <2>2. \A i \in DOMAIN c.checkpoints : c.checkpoints[i].step = i
        BY DEF ValidateSnapshot, validateCheckpointSnapshot
    <2>3. /\ DOMAIN E["treatment_checkpoints"] = 1..Len(c.checkpoints)
          /\ ListOf(E["treatment_checkpoints"], c.checkpoints)
          /\ \A i \in 1..Len(c.checkpoints) : E["treatment_checkpoints"][i].unique = i
        BY <1>1, <2>2 DEF Entries, Entry, ListOf
    <2> HIDE DEF E
    <2> QED
        BY <1>1, <2>1, <2>3, BlockByUnique
<1>7. SameRows(RowsOf(tables["stability_observations"], k), "rowid", c.stability)
    <2> DEFINE e == Numbered(c.stability)
    <2>1. PICK a \in Nat : RowsOf(tables["stability_observations"], k) = Block(k, a, e)
        BY <1>3 DEF Tables
    <2>2. /\ DOMAIN e = 1..Len(c.stability) /\ ListOf(e, c.stability)
          /\ \A i \in 1..Len(c.stability) : e[i].unique = i
        BY <1>1, <1>2
    <2> HIDE DEF e
    <2>3. SameRows(Block(k, a, e), "rowid", c.stability)
        BY <1>1, <2>2, BlockByRowid
    <2> QED
        BY <2>1, <2>3
<1>8. {<<r.id, r.entry.item>> : r \in RowsOf(tables["condition_observations"], k)} =
         {<<i, c.conditions[i]>> : i \in DOMAIN c.conditions}
    <2>1. PICK a \in Nat :
             RowsOf(tables["condition_observations"], k) =
                Block(k, a, E["condition_observations"])
        BY DEF Tables
    <2>2. ListOf(E["condition_observations"], c.conditions)
        BY DEF Entries, Entry, ListOf
    <2> HIDE DEF E
    <2> DEFINE B == Block(k, a, E["condition_observations"])
    <2>3. \A r \in B : r.id \in DOMAIN c.conditions /\ r.entry.item = c.conditions[r.id]
        BY <2>2, BlockRow DEF ListOf
    <2>4. ASSUME NEW i \in DOMAIN c.conditions
          PROVE  \E r \in B : r.id = i
        <3> DEFINE e == E["condition_observations"]
        <3>1. i \in DOMAIN e
            BY <2>2 DEF ListOf
        <3>2. [case |-> k, rowid |-> a + i, id |-> i, entry |-> e[i]] \in B
            BY <3>1 DEF Block
        <3> QED
            BY <3>2
    <2> HIDE DEF B
    <2>5. {<<r.id, r.entry.item>> : r \in B} = {<<i, c.conditions[i]>> : i \in DOMAIN c.conditions}
        BY <2>3, <2>4
    <2> QED
        BY <2>1, <2>5 DEF B
<1>9. {r.entry.item : r \in RowsOf(tables["release_signatures"], k)} = {c.release} \ {NoOne}
    <2> DEFINE rows == RowsOf(tables["release_signatures"], k)
    <2>1. PICK a \in Nat : rows = Block(k, a, Numbered(signed))
        BY <1>3 DEF Tables
    <2> HIDE DEF rows
    <2>2. CASE c.release = NoOne
        <3>1. rows = {}
            BY <2>1, <2>2, NoRows
        <3> QED
            BY <2>2, <3>1 DEF rows
    <2>3. CASE c.release # NoOne
        <3>1. rows # {} /\ \A r \in rows : r.entry.item = c.release
            BY <2>1, <2>3, OneRow
        <3> QED
            BY <2>3, <3>1 DEF rows
    <2> QED
        BY <2>2, <2>3
<1>10. {r.entry.item : r \in RowsOf(tables["archive_manifests"], k)} = {c.archive} \ {NoManifest}
    <2> DEFINE rows == RowsOf(tables["archive_manifests"], k)
    <2>1. PICK a \in Nat : rows = Block(k, a, Numbered(sealed))
        BY <1>3 DEF Tables
    <2> HIDE DEF rows
    <2>2. CASE c.archive = NoManifest
        <3>1. rows = {}
            BY <2>1, <2>2, NoRows
        <3> QED
            BY <2>2, <3>1 DEF rows
    <2>3. CASE c.archive # NoManifest
        <3>1. rows # {} /\ \A r \in rows : r.entry.item = c.archive
            BY <2>1, <2>3, OneRow
        <3> QED
            BY <2>3, <3>1 DEF rows
    <2> QED
        BY <2>2, <2>3
<1> QED
    BY <1>4, <1>5, <1>6, <1>7, <1>8, <1>9, <1>10 DEF verifyProjections

LEMMA AfterVerifies ==
    ASSUME case \in Case, ValidateSnapshot(case), case' \in Case, ValidateSnapshot(case')
    PROVE  /\ verifyProjections(After, "this", case')
           /\ verifyProjections(After, "other", case)
<1> DEFINE tables == After
<1>1. \A table \in Tables : \E a, b \in Nat :
         tables[table] = Block("other", a, Entries(case)[table])
                         \cup Block("this", b, Entries(case')[table])
    BY AfterBlocks
<1> HIDE DEF tables
<1>2. ASSUME NEW table \in Tables
      PROVE  /\ \E a \in Nat :
                   RowsOf(tables[table], "this") = Block("this", a, Entries(case')[table])
             /\ \E a \in Nat :
                   RowsOf(tables[table], "other") = Block("other", a, Entries(case)[table])
    <2>1. PICK a, b \in Nat :
             tables[table] = Block("other", a, Entries(case)[table])
                             \cup Block("this", b, Entries(case')[table])
        BY <1>1
    <2> QED
        BY <2>1, BlockOf, "this" # "other"
<1>3. verifyProjections(tables, "this", case')
    BY <1>2, BlocksVerify
<1>4. verifyProjections(tables, "other", case)
    BY <1>2, BlocksVerify
<1> QED
    BY <1>3, <1>4 DEF tables

(* After every command the rows of the case are read back as its snapshot  *)
(* has them, and those of another case are still its own.                  *)
THEOREM SyncIsReadBack == Spec => SyncReadsBack
<1> DEFINE ReadBack == /\ verifyProjections(After, "this", case')
                       /\ verifyProjections(After, "other", case)
<1>1. IInv /\ IInv' /\ [Next]_case => [ReadBack]_case
    BY AfterVerifies DEF IInv, TypeOK, Sound
<1> QED
    BY <1>1, Inductive, PTL DEF Spec, SyncReadsBack

=============================================================================
