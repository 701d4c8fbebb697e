------------------------------ MODULE Queries ------------------------------
(***************************************************************************)
(* Queries of WaliaDB: from the text (sql/sql_parser.c) and from closures    *)
(* (db/db_sentry_jit.c) to code (db/db_sqe_sql.c, db/db_sqe_nosql.c), the   *)
(* registry of past states (db/db_sentry_temporal.c), and the natives that  *)
(* use them (lib/lib_sqe.c, lib/lib_sentry.c).  The scan itself is          *)
(* Dispatch's.  No function executes the code a query is compiled to, and   *)
(* none records a snapshot: who does is a client, with a root of its own,    *)
(* for the root of the file never changes (db_shadow.c:38, 97). The registry *)
(* lies on page 2, which the pager hands out as any other.                  *)
(*                                                                         *)
(* An instruction is [op, a, b, c]; an operand of two bytes is the number   *)
(* the machine reads (GET_BC): its low byte in b.                           *)
(***************************************************************************)
EXTENDS Integers, Sequences, FiniteSets, SequencesExt, FiniteSetsExt

CONSTANTS ColumnLists,  \* bound: schemas, sequences of columns [name, offset]
          Texts,        \* bound: queries, sequences of tokens
          Lambdas,      \* bound: the code of closures with one parameter
          Byte,         \* 256
          MaxSnapshots, \* WLD_MAX_SNAPSHOTS
          RegistryPage, \* 2
          Present,      \* shadowTableRoot
          Roots,        \* bound: the roots clients record
          MaxRecords, MaxTime \* bounds: snapshots taken, and the wall clock

ASSUME QueriesAssumption == Byte \in Nat \ {0} /\ MaxSnapshots \in Nat \ {0}

VARIABLES plan,      \* the code of the last query, [code, columns, loop, skip]
          snapshots, \* the registry on page 2: [time, root]
          clock,     \* time(NULL), which may be set back
          pageCount, \* the number the pager hands out next
          recorded,  \* all snapshots that were taken (history)
          mounted    \* the last db_at: [time, root], and what had been taken (history)

queryVars == <<plan, snapshots, clock, pageCount, recorded, mounted>>
planned == <<snapshots, clock, pageCount, recorded, mounted>>

NoPlan == [code |-> <<>>, columns |-> <<>>, loop |-> 0, skip |-> 0]

QueriesInit == /\ plan = NoPlan /\ snapshots = <<>> /\ clock = 1 /\ pageCount = 1
               /\ recorded = <<>> /\ mounted = [time |-> 0, root |-> Present, of |-> <<>>]

-----------------------------------------------------------------------------
(* Code *)
PACK(op, a, b, c) == [op |-> op, a |-> a, b |-> b, c |-> c]
GET_BC(i) == i.b + Byte * i.c

\* emitOpBC puts the high byte first, where the machine reads the low one.
emitOpBC(op, a, bc) == PACK(op, a, bc \div Byte, bc % Byte)
Reaches(code, at) == code[at].b * Byte + code[at].c + at + 1

patchJump(code, at) ==
  [code EXCEPT ![at] = emitOpBC(code[at].op, code[at].a, Len(code) - at)]

\* db_sql_parse and selectStatement: identifiers between commas, where one may be
\* missing, then the table behind "for". A condition is not read: the where clause
\* stays empty.
Projections(text) ==
  LET until == SelectInSeq(text, LAMBDA t : t \notin {"id", "comma"})
      part == IF until = 0 THEN text ELSE SubSeq(text, 1, until - 1)
      stop == SelectInSeq([i \in DOMAIN part |-> i > 1 /\ part[i - 1] = "id" /\ part[i] = "id"],
                          LAMBDA b : b)
  IN  IF stop = 0 THEN part ELSE SubSeq(part, 1, stop - 1)
Parses(text) == text # <<>> /\ Head(text) = "select"
HasTable(text) ==
  LET rest == Tail(text)
      behind == Len(Projections(rest)) + 1
  IN  behind < Len(rest) /\ rest[behind] = "for"

\* db_sqe_sql_jit: register 0 is the row, each column is loaded to the next one.
\* The distance of the loop is in the last byte, and one short: it leads behind the
\* first load.
db_sqe_sql_jit(columns) ==
  LET loads == [i \in DOMAIN columns |-> PACK("DB_LOAD_COL", i, 0, columns[i].offset)]
      body == Append(loads, PACK("DB_COMMIT", 0, 0, 0))
  IN  [code |-> Append(body, PACK("LOOP", 0, 0, Len(body))) \o <<PACK("RETURN", 0, 0, 0)>>,
       columns |-> columns, loop |-> Len(body) + 1, skip |-> 0]

\* walia_db_query_mpp
walia_db_query_mpp(text, columns) ==
  /\ plan' = IF Parses(text) /\ HasTable(text) THEN db_sqe_sql_jit(columns) ELSE NoPlan
  /\ UNCHANGED planned

\* db_sqe_jit_compile_filter
db_sqe_jit_compile_filter(column) ==
  /\ plan' = [code |-> <<PACK("LOAD_CONST", 2, 0, 0), PACK("DB_LOAD_COL", 3, 0, column.offset),
                         PACK("DB_SIMD_FILTER_GT", 4, 3, 2), PACK("MOVE", 5, 4, 0),
                         PACK("DB_COMMIT", 0, 0, 0), PACK("LOOP", 0, 0, 4),
                         PACK("RETURN", 0, 0, 0)>>,
              columns |-> <<column>>, loop |-> 6, skip |-> 0]
  /\ UNCHANGED planned

\* db_sqe_nosql_filter_jit
db_sqe_nosql_filter_jit ==
  LET test == <<emitOpBC("LOAD_CONST", 4, 0), emitOpBC("LOAD_CONST", 5, 1),
                PACK("GET_GLOBAL", 2, 1, 4), PACK("EQUAL", 3, 2, 5),
                emitOpBC("JUMP_IF_FALSE", 3, Byte * Byte - 1), PACK("PRINT", 1, 0, 0)>>
  IN  /\ plan' = [code |-> Append(patchJump(test, 5), PACK("RETURN", 0, 0, 0)),
                  columns |-> <<>>, loop |-> 0, skip |-> 5]
      /\ UNCHANGED planned

\* db_sqe_vector_jit and compile_neural_loop
db_sqe_vector_jit ==
  /\ plan' = [code |-> <<emitOpBC("LOAD_CONST", 2, 0), PACK("DB_SIMD_FILTER_GT", 3, 2, 1),
                         emitOpBC("LOOP", 0, 2)>>,
              columns |-> <<>>, loop |-> 3, skip |-> 0]
  /\ UNCHANGED planned

\* db_sentry_compile_predicate: one filter for each comparison, on the column of the
\* first property the closure reads that is one. A closure that reads none becomes
\* a return.
Columned(lambda, columns) ==
  {i \in DOMAIN lambda : lambda[i].op = "GET_PROPERTY"
     /\ \E c \in ToSet(columns) : c.name = lambda[i].name}
db_sentry_compile_predicate(lambda, columns) ==
  LET reads == Columned(lambda, columns)
      column == columns[SelectInSeq(columns, LAMBDA c : c.name = lambda[Min(reads)].name)]
      compares == SelectSeq(lambda, LAMBDA i : i.op = "GREATER")
      filters == IF reads = {} THEN <<>>
                 ELSE [i \in DOMAIN compares |->
                         PACK("DB_SIMD_FILTER_GT", 2, column.offset \div 8, compares[i].c)]
  IN  /\ plan' = [code |-> Append(filters, PACK("RETURN", 0, 0, 0)), columns |-> columns,
                  loop |-> 0, skip |-> 0]
      /\ UNCHANGED planned

-----------------------------------------------------------------------------
(* The past *)
\* mutant: a full registry drops the newest
KeptOldest(s) == IF Len(s) >= MaxSnapshots THEN Front(s) ELSE s
Kept(s) == IF Len(s) >= MaxSnapshots THEN Tail(s) ELSE s

db_temporal_record_snapshot(root) ==
  /\ Len(recorded) < MaxRecords
  /\ snapshots' = Append(Kept(snapshots), [time |-> clock, root |-> root])
  /\ recorded' = Append(recorded, [time |-> clock, root |-> root])
  /\ UNCHANGED <<plan, clock, pageCount, mounted>>

\* db_temporal_find_root: the nearest snapshot that is not later, the first of
\* those of one second, and the present if there is none.
db_temporal_find_root(time) ==
  LET Nearer(best, s) ==
        IF s.time <= time /\ (best.time = 0 \/ s.time > best.time) THEN s ELSE best
  IN  FoldLeft(Nearer, [time |-> 0, root |-> Present], snapshots).root

\* walia_sentry_at
walia_sentry_at(time) ==
  /\ mounted' = [time |-> time, root |-> db_temporal_find_root(time), of |-> recorded]
  /\ UNCHANGED <<plan, snapshots, clock, pageCount, recorded>>

\* db_pager_allocate, and its caller writes: on the registry's page the number of
\* snapshots and what they hold are then the caller's bytes.
Shared == pageCount > RegistryPage
TakesNumber == /\ pageCount <= RegistryPage
               /\ pageCount' = pageCount + 1
               /\ IF pageCount = RegistryPage
                  THEN snapshots' \in {<<>>} \union {<<[time |-> t, root |-> r]>> : t \in 1 .. MaxTime, r \in Roots}
                  ELSE UNCHANGED snapshots
               /\ UNCHANGED <<plan, clock, recorded, mounted>>

\* The clock runs, or is set.
SetClock == clock' \in 1 .. MaxTime /\ UNCHANGED <<plan, snapshots, pageCount, recorded, mounted>>

PlanNext == \/ \E t \in Texts, s \in ColumnLists : walia_db_query_mpp(t, s)
            \/ \E s \in ColumnLists : \E c \in ToSet(s) : db_sqe_jit_compile_filter(c)
            \/ db_sqe_nosql_filter_jit \/ db_sqe_vector_jit
            \/ \E l \in Lambdas, s \in ColumnLists : db_sentry_compile_predicate(l, s)
PastNext == \/ \E r \in Roots : db_temporal_record_snapshot(r)
            \/ \E t \in 1 .. MaxTime : walia_sentry_at(t)
            \/ TakesNumber \/ SetClock

-----------------------------------------------------------------------------
\* Asked for a time, the registry never answers with a state recorded later, and
\* with none that was overtaken in an earlier second by one it still holds: of the
\* last MaxSnapshots, it is one of the last second that is not later, whatever was
\* recorded in which order of the clock; when all of these are later it answers with
\* the present. That is so until its page is given to somebody else.
\* And a plan loads every column to a register of its own behind the row's, and its
\* conditional jump, read high byte first, leads behind the print.
PastAnswered ==
  /\ mounted.time # 0 /\ ~Shared =>
       LET all == mounted.of
           past == {i \in DOMAIN all : i > Len(all) - MaxSnapshots /\ all[i].time <= mounted.time}
           second == {i \in past : \A j \in past : all[j].time <= all[i].time}
       IN  IF past = {} THEN mounted.root = Present
           ELSE \E i \in second : mounted.root = all[i].root
  /\ \A i \in DOMAIN plan.code :
       LET at == plan.code[i]
       IN  at.op = "DB_LOAD_COL" => at.a # at.b /\ \A j \in 1 .. i - 1 : plan.code[j].a # at.a
  /\ plan.skip # 0 => plan.code[Reaches(plan.code, plan.skip)].op = "RETURN"
=============================================================================
