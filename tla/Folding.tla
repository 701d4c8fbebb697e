------------------------------ MODULE Folding ------------------------------
(***************************************************************************)
(* How WaliaOS keeps one copy of equal pages: the wait-free table of       *)
(* waliaos/lib/sys_dedup_table.c, which all cores probe and fill at once,   *)
(* and the frame allocator of waliaos/core/sys_pager_phys.c.               *)
(***************************************************************************)
EXTENDS Naturals, FiniteSets

CONSTANTS Callers,
          Hashes,      \* logic hashes that occur, without NoHash
          Home(_),     \* hash & DEDUP_MASK
          Buckets,     \* DEDUP_BUCKETS
          Window,      \* how many slots are probed
          FirstFrame,  \* _kernel_end / PAGE_SIZE: the linker script aligns it
          Frames,      \* RAM_2GB_PAGES
          MaxCalls     \* bound: calls of the table's two operations
CONSTANTS NoHash, NoAddr  \* 0 in the code

ASSUME TableAssumption == /\ Buckets \in Nat \ {0} /\ Window \in 1 .. Buckets
                          /\ \A h \in Hashes : Home(h) \in 0 .. Buckets - 1
ASSUME NoneAssumption == /\ NoHash \notin Hashes /\ NoAddr \notin Nat \ {0}
                         /\ Frames \in Nat /\ FirstFrame \in 0 .. Frames

VARIABLES logic_hash, physical_addr, \* the slots
          call,      \* per core: the call it is in, and which slot it probes next
          calls,     \* how many were made; a registration's address is its number
          answers,   \* what folds returned (history)
          owners,    \* the addresses registered for each hash (history)
          frame_table, cursor, \* free_frame_cursor as a frame number
          users      \* who got which frame for which hash (history)

tableVars == <<logic_hash, physical_addr, call, calls, answers, owners>>
frameVars == <<frame_table, cursor, users>>
foldingVars == <<tableVars, frameVars>>

Slots == 0 .. Buckets - 1
NoCall == [op |-> "none"]
NoFrame == [hash |-> NoHash, count |-> 0, cold |-> FALSE]

\* sys_dedup_init and sys_pager_phys_init
FoldInit == /\ logic_hash = [s \in Slots |-> NoHash]
        /\ physical_addr = [s \in Slots |-> NoAddr]
        /\ call = [c \in Callers |-> NoCall]
        /\ calls = 0 /\ answers = {} /\ owners = {}
        /\ frame_table = [f \in 0 .. Frames - 1 |-> NoFrame]
        /\ cursor = FirstFrame /\ users = {}

-----------------------------------------------------------------------------
(* The table *)
Probed(c) == (Home(call[c].hash) + call[c].i) % Buckets
Return(c) == call' = [call EXCEPT ![c] = NoCall]

\* A fold of this hash that begins now has to succeed: its address is stored.
Stored(h) == \E s \in Slots : logic_hash[s] = h /\ physical_addr[s] # NoAddr

Enter(c, op, h) ==
  /\ calls < MaxCalls /\ call[c] = NoCall /\ calls' = calls + 1
  /\ call' = [call EXCEPT ![c] = [op |-> op, hash |-> h, addr |-> calls + 1, i |-> 0,
                                  known |-> Stored(h)]]
  /\ owners' = IF op = "register" THEN owners \union {<<h, calls + 1>>} ELSE owners
  /\ UNCHANGED <<logic_hash, physical_addr, answers, frameVars>>

\* Another key is in the slot: the next one, up to the window.
Proceed(c) ==
  LET next == call[c].i + 1
  IN  call' = [call EXCEPT ![c] = IF next = Window THEN NoCall ELSE [@ EXCEPT !.i = next]]

\* mutant: the hash is stored without a look at what the slot holds
ClaimBlindly(c) ==
  /\ call[c].op = "register"
  /\ logic_hash' = [logic_hash EXCEPT ![Probed(c)] = call[c].hash]
  /\ call' = [call EXCEPT ![c].op = "store"]
  /\ UNCHANGED <<physical_addr, calls, answers, owners, frameVars>>

\* sys_dedup_register: compare and swap, on success the address follows.
RegisterProbe(c) ==
  /\ call[c].op = "register"
  /\ CASE logic_hash[Probed(c)] = NoHash ->
            /\ logic_hash' = [logic_hash EXCEPT ![Probed(c)] = call[c].hash]
            /\ call' = [call EXCEPT ![c].op = "store"]
       [] logic_hash[Probed(c)] = call[c].hash -> Return(c) /\ UNCHANGED logic_hash
       [] OTHER -> Proceed(c) /\ UNCHANGED logic_hash
  /\ UNCHANGED <<physical_addr, calls, answers, owners, frameVars>>

RegisterStore(c) ==
  /\ call[c].op = "store"
  /\ physical_addr' = [physical_addr EXCEPT ![Probed(c)] = call[c].addr]
  /\ Return(c)
  /\ UNCHANGED <<logic_hash, calls, answers, owners, frameVars>>

Answer(c, addr) ==
  answers' = answers \union {[hash |-> call[c].hash, addr |-> addr, known |-> call[c].known]}

\* sys_dedup_fold: an empty slot ends the search, and so does the window.
FoldProbe(c) ==
  /\ call[c].op = "fold"
  /\ CASE logic_hash[Probed(c)] = call[c].hash ->
            call' = [call EXCEPT ![c].op = "load"] /\ UNCHANGED answers
       [] logic_hash[Probed(c)] = NoHash -> Return(c) /\ Answer(c, NoAddr)
       [] OTHER -> /\ Proceed(c)
                   /\ IF call[c].i + 1 = Window THEN Answer(c, NoAddr) ELSE UNCHANGED answers
  /\ UNCHANGED <<logic_hash, physical_addr, calls, owners, frameVars>>

\* The address is loaded after the hash; it may not be stored yet.
FoldLoad(c) ==
  /\ call[c].op = "load"
  /\ Answer(c, physical_addr[Probed(c)]) /\ Return(c)
  /\ UNCHANGED <<logic_hash, physical_addr, calls, owners, frameVars>>

-----------------------------------------------------------------------------
(* Frames *)

\* sys_pager_allocate_frame: the frame that has the hash, or a new one.
sys_pager_allocate_frame(h) ==
  LET same == {f \in DOMAIN frame_table : frame_table[f].hash = h /\ frame_table[f].count > 0}
      f == IF h # NoHash /\ same # {} THEN CHOOSE f \in same : \A g \in same : f <= g
           ELSE cursor
  IN  /\ f < Frames  \* beyond the table the code writes behind it
      /\ frame_table' = IF f = cursor
                        THEN [frame_table EXCEPT ![f] = [hash |-> h, count |-> 1, cold |-> FALSE]]
                        ELSE [frame_table EXCEPT ![f].count = @ + 1]
      /\ cursor' = IF f = cursor THEN cursor + 1 ELSE cursor
      /\ users' = users \union {[frame |-> f, hash |-> h, nth |-> Cardinality(users)]}
      /\ UNCHANGED tableVars

sys_pager_mark_cold(f) ==
  /\ \E u \in users : u.frame = f
  /\ frame_table' = [frame_table EXCEPT ![f].cold = TRUE]
  /\ UNCHANGED <<cursor, users, tableVars>>

TableNext == \E c \in Callers :
  \/ \E h \in Hashes : Enter(c, "register", h) \/ Enter(c, "fold", h)
  \/ RegisterProbe(c) \/ RegisterStore(c) \/ FoldProbe(c) \/ FoldLoad(c)
FrameNext == \/ \E h \in Hashes \union {NoHash} :
                  Cardinality(users) < MaxCalls /\ sys_pager_allocate_frame(h)
             \/ \E f \in DOMAIN frame_table : sys_pager_mark_cold(f)

-----------------------------------------------------------------------------
\* Whatever cores register and fold at once: a hash lies in one slot, all folds of
\* it that return an address return the same one, one that was registered for it,
\* and a fold that begins after the address was stored finds it.
FoldsAgree ==
  /\ \A s, t \in Slots : logic_hash[s] = logic_hash[t] /\ s # t => logic_hash[s] = NoHash
  /\ \A a, b \in answers : a.hash = b.hash /\ NoAddr \notin {a.addr, b.addr} => a.addr = b.addr
  /\ \A a \in answers : IF a.addr = NoAddr THEN ~a.known ELSE <<a.hash, a.addr>> \in owners

\* A frame's count is the number of its users, who all asked for its hash; only a
\* hash is shared, and the memory of the kernel is nobody's.
FramesCounted ==
  \A f \in DOMAIN frame_table :
    LET its == {u \in users : u.frame = f}
    IN  /\ frame_table[f].count = Cardinality(its)
        /\ \A u \in its : u.hash = frame_table[f].hash /\ f >= FirstFrame
        /\ Cardinality(its) > 1 => frame_table[f].hash # NoHash
=============================================================================
