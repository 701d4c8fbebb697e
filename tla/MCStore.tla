------------------------------ MODULE MCStore ------------------------------
(***************************************************************************)
(* The parts of WaliaDB above its pages, each on its own: the scenario is   *)
(* chosen at the start and only its part takes steps.                      *)
(***************************************************************************)
EXTENDS Documents, Tables, Vectors, Tensors, Queries, Transcoder

CONSTANT Scenarios

VARIABLE scenario

storeVars == <<scenario, documentVars, tableVars, vectorVars, tensorVars, queryVars, transVars>>

MCShort(h) == [head |-> h, rest |-> "short"]
MCNames == {MCShort("a"), [head |-> "l", rest |-> ""], [head |-> "l", rest |-> "more"],
            MCShort("a_f"), MCShort("l_f")}
MCCollections == {MCShort("a"), [head |-> "l", rest |-> "more"]}
MCIndexName(c, f) == MCShort(IF c.head = "a" THEN "a_f" ELSE "l_f")
MCColumns == << [name |-> "id", isPrimaryKey |-> TRUE, isNullable |-> TRUE],
                [name |-> "data", isPrimaryKey |-> FALSE, isNullable |-> FALSE] >>
MCMaps == {[id |-> 1, data |-> 0], [id |-> 1, data |-> 1], [id |-> 0, data |-> 1],
           [data |-> 1], [id |-> 1]}
MCOthers == {NilObject, [type |-> "number"]}

MCPages == {0, 2, 4}
MCNeighbours(p) == {<<>>, <<(p + 2) % 6>>, <<(p + 4) % 6, (p + 2) % 6>>}
MCGraphs ==
  {[l \in 0 .. 1 |-> IF l = 0 THEN g ELSE [p \in MCPages |-> <<(p + 2) % 6>>]] :
     g \in {f \in [MCPages -> UNION {MCNeighbours(p) : p \in MCPages}] :
              \A p \in MCPages : f[p] \in MCNeighbours(p)}}
MCSimilarities == {[p \in MCPages |-> p], [p \in MCPages |-> p % 4]}

MCShapes == {<<2>>, <<1, 2>>, <<2, 1>>, <<2, 3>>, <<3, 2>>, <<2, 1, 3>>, <<3>>, <<6>>}

MCColumnLists == {<<[name |-> "id", offset |-> 0]>>,
                  <<[name |-> "id", offset |-> 0], [name |-> "v", offset |-> 8]>>}
MCTexts == {<<>>, <<"id">>, <<"select", "id", "for">>,
            <<"select", "id", "comma", "id", "for", "id">>,
            <<"select", "id", "id", "for", "id">>,
            <<"select", "comma", "id", "for", "id", "if">>}
MCCode(op, name, c) == [op |-> op, name |-> name, c |-> c]
MCLambdas ==
  {<<MCCode("GREATER", "", 3)>>,
   <<MCCode("GET_PROPERTY", "v", 0), MCCode("GREATER", "", 3)>>,
   <<MCCode("GET_PROPERTY", "x", 0), MCCode("GET_PROPERTY", "id", 0),
     MCCode("GREATER", "", 3), MCCode("GREATER", "", 4)>>}

MCText == {"q", "a", ":", "}"}
MCItem == {<<"q", "a", "q", ",">>, <<"{", "q", "a", "q">>, <<"a", "q", "}", ":">>}
MCJson == UNION {[1..n -> MCText] : n \in 4..5}
            \cup {FlattenSeq(t) : t \in [1..2 -> MCItem] \cup [1..3 -> MCItem]}
MCImages == [magic : BOOLEAN, payloadSize : {0, 3, 9}, bytes : {1, 2, 5}]

Init == /\ scenario \in Scenarios
        /\ TransInit /\ DocumentsInit /\ TablesInit /\ TensorsInit /\ QueriesInit /\ VectorsInit
        /\ scenario # "neighbours" =>
             graph = (CHOOSE g \in Graphs : TRUE) /\ similarity = (CHOOSE s \in Similarities : TRUE)
        /\ scenario # "vectors" => vectors = <<<<0>>, <<0>>>>

Next ==
  /\ UNCHANGED scenario
  /\ \/ /\ scenario = "documents" /\ DocumentsNext
        /\ UNCHANGED <<tableVars, vectorVars, tensorVars, queryVars, transVars>>
     \/ /\ scenario = "tables" /\ TablesNext
        /\ UNCHANGED <<documentVars, vectorVars, tensorVars, queryVars, transVars>>
     \/ /\ \/ scenario = "neighbours" /\ SearchNext
           \/ scenario = "vectors" /\ VectorNext
        /\ UNCHANGED <<documentVars, tableVars, tensorVars, queryVars, transVars>>
     \/ /\ scenario = "tensors" /\ TensorsNext
        /\ UNCHANGED <<documentVars, tableVars, vectorVars, queryVars, transVars>>
     \/ /\ \/ scenario = "plans" /\ PlanNext
           \/ scenario = "past" /\ PastNext
        /\ UNCHANGED <<documentVars, tableVars, vectorVars, tensorVars, transVars>>
     \/ /\ scenario = "transcoder" /\ TransNext
        /\ UNCHANGED <<documentVars, tableVars, vectorVars, tensorVars, queryVars>>

Spec == Init /\ [][Next]_storeVars

-----------------------------------------------------------------------------
(* Each of these joins properties stated, with the code they are about, in the *)
(* modules named.                                                              *)

\* Documents: a collection keeps its objects under their names through every doubling
\* of the directory, and a field is indexed once.
DocumentsKept == CollectionsKept /\ IndexedOnce

\* Vectors and Tensors: a search only ever moves to a better neighbour, distances and
\* products are those of the components whatever the lanes, and a view addresses the
\* elements its shape says.
NumbersExact == SearchClimbs /\ VectorsExact /\ TensorsAddress
=============================================================================
