SPECIFICATION Spec
CONSTANTS
 Names <- MCNames
 Types = {0, 1, 2}
 MaxEntries = 2
 NoPage = NoPage
 Keys = {0, 1, 2}
 Objects = {o1, o2}
 BucketCapacity = 1
 MaxDepth = 2
 CatalogPage = 1
 TrackerPage = 5
 DocumentPage = 21
 FreshPages = 10
 MaxPages = 25
 PageDocuments = 2
 Collections <- MCCollections
 Fields = {"f", "g"}
 IndexName <- MCIndexName
 MaxTracked = 1
 IndexThreshold = 2
 MaxNatives = 4
 Nil = Nil
 Columns <- MCColumns
 Bits = {0, 1, 2}
 NilBits = 2
 Maps <- MCMaps
 Others <- MCOthers
 LeafFits = 2
 MaxRows = 4
 Pages <- MCPages
 NilPage = NilPage
 Graphs <- MCGraphs
 Similarities <- MCSimilarities
 Levels = 2
 MaxVectors = 2
 Codes = 5
 Lanes = 2
 MaxPins = 2
 MaxDims = 3
 Components = {0, 1, 3}
 Shapes <- MCShapes
 MaxRank = 3
 Float = 4
 Tile = 2
 MaxTensors = 3
 ColumnLists <- MCColumnLists
 Texts <- MCTexts
 Lambdas <- MCLambdas
 Byte = 256
 MaxSnapshots = 2
 RegistryPage = 2
 Present = 0
 Roots = {1, 2}
 MaxRecords = 3
 MaxTime = 3
 Scenarios = {"documents", "tables", "neighbours", "vectors", "tensors", "plans", "past", "transcoder"}
 Json <- MCJson
 BlockBytes = 4
 PageBytes = 8
 SlotBytes = 2
 Images <- MCImages
 HeaderBytes = 2
 ImageBytes = 5
INVARIANTS  TableAnswers NumbersExact PastAnswered StringsLanded
CHECK_DEADLOCK FALSE
