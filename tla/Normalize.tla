------------------------------ MODULE Normalize ------------------------------
(***************************************************************************)
(* normalizeForJson() of src/src/core/result-limits.js: the walk, with a   *)
(* stack of its own, over whatever graph of objects a driver returned.  A  *)
(* node of the graph is an object; its fields hold nodes, or nothing.  A   *)
(* place in the output is the sequence of field numbers that leads to it.  *)
(***************************************************************************)
EXTENDS Naturals, Sequences, SequencesExt

CONSTANTS
    Graphs,         \* the inputs: node -> [kind, fields]; node 1 is the payload
    MaxNesting      \* MAX_NESTING_DEPTH

\* The kinds of node: a record or an array; a value with a JSON form, or a marker, of its own;
\* a class instance without fields; an object that throws when it is read.
Kinds == {"record", "leaf", "empty", "throws"}
Undefined == 0      \* a field that holds undefined

\* A graph has a payload, and a field holds a node of it, or nothing.
IsGraph(g) ==
    /\ g \in Seq([kind : Kinds, fields : Seq(Nat)]) /\ 1 \in DOMAIN g
    /\ \A x \in DOMAIN g : \A i \in DOMAIN g[x].fields :
          g[x].fields[i] = Undefined \/ g[x].fields[i] \in DOMAIN g

ASSUME NormalizeAssumption == MaxNesting \in Nat /\ \A g \in Graphs : IsGraph(g)

VARIABLES
    graph,
    stack,      \* the frames; the last one is popped first
    path,       \* the objects being walked
    out         \* what was written, in the order it was: [place, node, mark]

normalVars == <<graph, stack, path, out>>

NormalInit ==
    /\ graph \in Graphs
    /\ stack = <<[exit |-> FALSE, place |-> <<>>, node |-> 1]>>
    /\ path = {} /\ out = <<>>

Top == Last(stack)
Visit(mark) == out' = Append(out, [place |-> Top.place, node |-> Top.node, mark |-> mark])
Entering(kind) == stack # <<>> /\ ~Top.exit /\ graph[Top.node].kind = kind
Leave == stack' = Front(stack)

\* PopExit, with a set of everything ever entered for a path.
PopExit_KeepsPath ==
    /\ stack # <<>> /\ Top.exit
    /\ Leave
    /\ UNCHANGED <<graph, path, out>>

\* An exit frame takes its object off the path.
PopExit ==
    /\ stack # <<>> /\ Top.exit
    /\ path' = path \ {Top.node}
    /\ Leave
    /\ UNCHANGED <<graph, out>>

PopLeaf ==
    /\ Entering("leaf")
    /\ Visit("value") /\ Leave
    /\ UNCHANGED <<graph, path>>

TooDeep == Len(Top.place) >= MaxNesting

\* Depth is looked at first, then the path.
PopRefused ==
    /\ \E kind \in Kinds \ {"leaf"} : Entering(kind)
    /\ TooDeep \/ Top.node \in path
    /\ Visit(IF TooDeep THEN "depth" ELSE "circular") /\ Leave
    /\ UNCHANGED <<graph, path>>

\* Object.entries() throws, or finds nothing to write: only the second takes the object off the
\* path again.
PopUnserializable ==
    /\ Entering("empty") \/ Entering("throws")
    /\ ~TooDeep /\ Top.node \notin path
    /\ Visit("unserializable") /\ Leave
    /\ path' = IF Entering("throws") THEN path \cup {Top.node} ELSE path
    /\ UNCHANGED graph

\* The exit frame goes under the fields, which are pushed back to front.
PopRecord ==
    LET fields == graph[Top.node].fields
        Frame(i) == [exit |-> FALSE, place |-> Append(Top.place, i), node |-> fields[i]]
        push[i \in 0 .. Len(fields)] ==
            IF i = 0 THEN <<>>
            ELSE IF fields[i] = Undefined THEN push[i - 1]
            ELSE <<Frame(i)>> \o push[i - 1]
    IN  /\ Entering("record")
        /\ ~TooDeep /\ Top.node \notin path
        /\ Visit("open")
        /\ path' = path \cup {Top.node}
        /\ stack' = Front(stack) \o <<[Top EXCEPT !.exit = TRUE]>> \o push[Len(fields)]
        /\ UNCHANGED graph

NormalNext == PopExit \/ PopLeaf \/ PopRefused \/ PopUnserializable \/ PopRecord

NormalSpec == NormalInit /\ [][NormalNext]_normalVars

----------------------------------------------------------------------------
\* Properties.

NormalTypeOK ==
    /\ path \subseteq DOMAIN graph
    /\ \A i \in DOMAIN stack : stack[i].node \in DOMAIN graph /\ stack[i].exit \in BOOLEAN

\* The nodes above a written place.
Above(entry) == {e.node : e \in {e \in ToSet(out) : IsStrictPrefix(e.place, entry.place)}}

\* Place p comes before place q in the text: an object before its fields, and these in order.
Before(p, q) ==
    \/ IsStrictPrefix(p, q)
    \/ \E i \in DOMAIN p : /\ i \in DOMAIN q /\ SubSeq(p, 1, i - 1) = SubSeq(q, 1, i - 1)
                           /\ p[i] < q[i]

\* The output is the graph, unfolded: places are written once and in the order of the text, a
\* record is cut exactly where it contains itself or lies too deep, and when the walk ends every
\* field of every record written has been.  (An object that throws stays on the path, so its
\* second appearance is called circular though it is not.)
OutputUnfoldsTheGraph ==
    /\ \A i, j \in DOMAIN out : i < j => Before(out[i].place, out[j].place)
    /\ \A e \in ToSet(out) :
          /\ e.mark = "depth" => Len(e.place) = MaxNesting
          /\ graph[e.node].kind # "leaf" => (Len(e.place) < MaxNesting <=> e.mark # "depth")
          /\ e.mark = "circular" => (e.node \in Above(e) \/ graph[e.node].kind = "throws")
          /\ e.mark = "open" => e.node \notin Above(e)
    /\ stack = <<>> =>
          \A e \in ToSet(out) : e.mark = "open" =>
              \A i \in DOMAIN graph[e.node].fields :
                 graph[e.node].fields[i] # Undefined <=>
                     \E f \in ToSet(out) : f.place = Append(e.place, i) /\ f.node = graph[e.node].fields[i]
=============================================================================
