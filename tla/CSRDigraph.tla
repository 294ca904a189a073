----------------------------- MODULE CSRDigraph -----------------------------
(***************************************************************************)
(* The compressed sparse row digraph of src/container/csr.go and its       *)
(* builder.  A builder is a record: `ids` lists the external IDs by dense  *)
(* index, `out` and `in` are for every dense index the set of its          *)
(* neighbours' dense indices.  Dense indices, slices and offsets start at  *)
(* one here, an offset is still the number of entries before it.           *)
(***************************************************************************)
EXTENDS Integers, Sequences, FiniteSets, FiniteSetsExt

NewCSRDigraphBuilder == [ids |-> << >>, out |-> << >>, in |-> << >>]

\* Registers a node, once.
ensureNode(b, id) ==
    IF \E i \in DOMAIN b.ids : b.ids[i] = id THEN b
    ELSE [ids |-> Append(b.ids, id), out |-> Append(b.out, {}), in |-> Append(b.in, {})]

idx(g, id) == CHOOSE i \in DOMAIN g.ids : g.ids[i] = id

AddEdge(b, start, end) ==
    LET c == ensureNode(ensureNode(b, start), end)
    IN [c EXCEPT !.out[idx(c, start)] = @ \cup {idx(c, end)},
                 !.in[idx(c, end)] = @ \cup {idx(c, start)}]

\* A bug: the offset of a node counts its own neighbours.
OffsetsShifted(adjacent) ==
    [i \in 1..(Len(adjacent) + 1) |->
        MapThenSumSet(LAMBDA j : Cardinality(adjacent[j]), {j \in DOMAIN adjacent : j <= i})]

\* Prefix sums of the numbers of neighbours.
Offsets(adjacent) ==
    [i \in 1..(Len(adjacent) + 1) |->
        MapThenSumSet(LAMBDA j : Cardinality(adjacent[j]), {j \in DOMAIN adjacent : j < i})]

\* The neighbours' external IDs, node after node, in the order of their indices.
Adjacency(ids, adjacent) ==
    LET after(s, before) == before \o s
        row(i) == MapThenFoldSet(after, << >>, LAMBDA j : <<ids[j]>>, Max, adjacent[i])
    IN MapThenFoldSet(after, << >>, row, Max, DOMAIN adjacent)

Build(b) == [ids |-> b.ids,
             outOffsets |-> Offsets(b.out), outAdj |-> Adjacency(b.ids, b.out),
             inOffsets |-> Offsets(b.in), inAdj |-> Adjacency(b.ids, b.in)]

\* The neighbours of a node in a built graph, in the order EachAdjacentNode
\* enumerates them: both directions are the one after the other.
csrRange(g, id, dir) ==
    LET i == idx(g, id)
        out == SubSeq(g.outAdj, g.outOffsets[i] + 1, g.outOffsets[i + 1])
        in == SubSeq(g.inAdj, g.inOffsets[i] + 1, g.inOffsets[i + 1])
    IN CASE dir = "outbound" -> out [] dir = "inbound" -> in [] OTHER -> out \o in
=============================================================================
