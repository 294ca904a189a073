------------------------- MODULE RelationshipBatch -------------------------
(***************************************************************************)
(* The statement that a PostgreSQL batch writes its new relationships      *)
(* with: relationshipCreateBatchBuilder of src/drivers/pg/batch.go and     *)
(* createEdgeBatchStatement of statements.go.                              *)
(*                                                                         *)
(* A relationship to create is [start, end, by]: its ends and the call it  *)
(* comes from, which stands for its properties.  There is one kind.  The   *)
(* relationships of the database are a function from pairs of node IDs to  *)
(* [id, by].                                                               *)
(***************************************************************************)
EXTENDS Naturals, Sequences, SequencesExt

\* graph.ID.String: the decimal digits of an ID.
Digits[n \in Nat] == IF n < 10 THEN <<n>> ELSE Append(Digits[n \div 10], n % 10)

\* The key of a relationship in a batch: its IDs, one after the other.
Key(rel) == Digits[rel.start] \o Digits[rel.end]

\* Merge: the properties of the later call win.
Merge(row, rel) == [row EXCEPT !.by = rel.by]

\* relationshipCreateBatchBuilder.Add.  A key that is known merges its
\* properties into the entry at the index that keyToEdgeID holds, which is the
\* ID of the relationship, zero for one that is not created yet.
Add(builder, rel) ==
    IF Key(rel) \in DOMAIN builder.keyToEdgeID
    THEN [builder EXCEPT !.rows[builder.keyToEdgeID[Key(rel)] + 1] = Merge(@, rel)]
    ELSE [keyToEdgeID |-> [k \in DOMAIN builder.keyToEdgeID \cup {Key(rel)} |->
                              IF k = Key(rel) THEN 0 ELSE builder.keyToEdgeID[k]],
          rows |-> Append(builder.rows, rel)]

\* flushRelationshipCreateBuffer: the rows of the statement.
Rows(buffer) == FoldLeft(Add, [keyToEdgeID |-> <<>>, rows |-> <<>>], buffer).rows

\* insert into edge ... on conflict (start_id, end_id, kind_id, graph_id) do
\* update: a row whose ends are connected already changes the properties only.
Upsert(edges, rows, lastID) ==
    LET Pair(row) == <<row.start, row.end>>
        pairs == {Pair(row) : row \in Range(rows)}
        RowOf(p) == CHOOSE i \in DOMAIN rows : Pair(rows[i]) = p
    IN [p \in DOMAIN edges \cup pairs |->
           IF p \notin pairs THEN edges[p]
           ELSE [id |-> IF p \in DOMAIN edges THEN edges[p].id ELSE lastID + RowOf(p),
                 by |-> rows[RowOf(p)].by]]
=============================================================================
