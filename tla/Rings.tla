------------------------------- MODULE Rings -------------------------------
(***************************************************************************)
(* The rings through which cores and threads send each other pulses: the   *)
(* mailbox of waliaos/lib/sys_fabric_interconnect.c, the ring of           *)
(* waliaos/lib/ipc_ring.c and the bus of src/tooling/tooling_nexus_bus.c.  *)
(* A sender claims a slot with an atomic increment and fills it afterwards, *)
(* field by field, in any order; one reader copies slots out.               *)
(*                                                                         *)
(* A field holds the number of the claim that wrote it, Blank at first. The *)
(* counters wrap at Wrap (2^32 in the code), claims do not.                 *)
(***************************************************************************)
EXTENDS Naturals, FiniteSets

CONSTANTS Senders,     \* cores and threads that send
          Size,        \* MAILBOX_SIZE, IPC_RING_SIZE, NEXUS_BUS_CAPACITY
          Wrap,        \* one more than the largest counter
          Batch,       \* max, maxCount: how many pulses a call takes
          Mailboxes,       \* fabric_core_count; MAX_CORES for ipc_ring
          MaxClaims    \* bound: pulses sent
CONSTANT Blank         \* a field that no pulse was written to

ASSUME SizeAssumption ==
  Size \in Nat \ {0} /\ Wrap \in Nat \ {0} /\ Wrap % Size = 0 /\ Size < Wrap
ASSUME BlankAssumption == Blank \notin Nat
ASSUME BatchAssumption == Batch \in 1 .. Size /\ Mailboxes \in Nat \ {0} /\ MaxClaims \in Nat

VARIABLES kind,     \* which of the three rings this one is
          claims,   \* how many slots were claimed; head or writeIndex is the rest by Wrap
          tail,     \* tail or readIndex
          buffer,   \* the slots
          pending,  \* per sender: its claim and the fields it still has to write
          reader,   \* the reader's locals while it copies
          isActive, \* of the bus
          taken,    \* how many pulses the reader took (history)
          last,     \* the last pulse taken (history)
          overtaken \* a slot was taken before it was filled, or claimed before it
                    \* was taken (history)

ringVars == <<kind, claims, tail, buffer, pending, reader, isActive, taken, last, overtaken>>

Counter == claims % Wrap
Slot(counter) == counter % Size
Fields == {"type", "payload"}
NoClaim == [claim |-> Blank, left |-> {}]
Resting == [copying |-> FALSE, left |-> 0]

\* sys_fabric_init and walia_pulse_init; the rings of ipc_ring.c are static.
RingInit == /\ kind \in {"fabric", "ipc", "bus"}
        /\ claims = 0 /\ tail = 0
        /\ buffer = [i \in 0 .. Size - 1 |-> [f \in Fields |-> Blank]]
        /\ pending = [s \in Senders |-> NoClaim]
        /\ reader = Resting
        /\ isActive = TRUE
        /\ taken = 0 /\ overtaken = FALSE
        /\ last = [position |-> 0, pulse |-> [f \in Fields |-> 0]]

-----------------------------------------------------------------------------
\* atomic_fetch_add: the slot belongs to the sender from here on, whatever it holds.
Claim(s) ==
  /\ claims < MaxClaims /\ pending[s] = NoClaim
  /\ pending' = [pending EXCEPT ![s] = [claim |-> claims, left |-> Fields]]
  /\ claims' = claims + 1
  /\ overtaken' = (overtaken \/ claims - taken >= Size)
  /\ UNCHANGED <<kind, tail, buffer, reader, isActive, taken, last>>

\* The three sending calls differ in what they refuse. Only ring 0 is ever read
\* (my_id is 0); a pulse for another core stays where it is and is left out here.
sys_fabric_send(s, dest) == kind = "fabric" /\ dest < Mailboxes /\ dest = 0 /\ Claim(s)
sys_ipc_send(s, target) == kind = "ipc" /\ target < Mailboxes /\ target = 0 /\ Claim(s)
walia_pulse_emit(s) == kind = "bus" /\ isActive /\ Claim(s)

\* One of the stores that fill the slot; neither compiler nor processor orders them.
Deposit(s, f) ==
  /\ f \in pending[s].left
  /\ buffer' = [buffer EXCEPT ![Slot(pending[s].claim)][f] = pending[s].claim]
  /\ LET rest == pending[s].left \ {f}
     IN  pending' = [pending EXCEPT ![s] = IF rest = {} THEN NoClaim
                                           ELSE [claim |-> @.claim, left |-> rest]]
  /\ UNCHANGED <<kind, claims, tail, reader, isActive, taken, last, overtaken>>

-----------------------------------------------------------------------------

\* What is there to read: the mailboxes compare the counters, the bus subtracts them.
Available(t) == IF t < Counter THEN Counter - t ELSE 0
Lag(t) == (Counter + Wrap - t) % Wrap

\* The loads of tail and head that open sys_fabric_reap and sys_ipc_reap.
Reap == /\ kind \in {"fabric", "ipc"} /\ ~reader.copying
        /\ Available(tail) > 0
        /\ reader' = [copying |-> TRUE,
                      left |-> IF Available(tail) > Batch THEN Batch ELSE Available(tail)]
        /\ UNCHANGED <<kind, claims, tail, buffer, pending, isActive, taken, last, overtaken>>

\* walia_pulse_collect: a reader that lags by more than the ring skips ahead.
Collect ==
  LET skips == Lag(tail) > Size
      from == IF skips THEN (Counter + Wrap - Batch) % Wrap ELSE tail
      available == IF skips THEN Batch ELSE Lag(tail)
  IN  /\ kind = "bus" /\ ~reader.copying /\ Lag(tail) > 0
      /\ tail' = from
      /\ reader' = [copying |-> TRUE, left |-> IF available > Batch THEN Batch ELSE available]
      /\ taken' = IF skips THEN claims - Batch ELSE taken
      /\ UNCHANGED <<kind, claims, buffer, pending, isActive, last, overtaken>>

\* A slot no sender is still writing to.
Settled(i) == \A s \in Senders : pending[s] = NoClaim \/ Slot(pending[s].claim) # i

\* mutant: the index is advanced before the slot is copied
TakeNext ==
  /\ reader.copying
  /\ last' = [position |-> taken, pulse |-> buffer[Slot(tail + 1)]]
  /\ overtaken' = (overtaken \/ ~Settled(Slot(tail + 1)))
  /\ taken' = taken + 1 /\ tail' = (tail + 1) % Wrap
  /\ reader' = IF reader.left = 1 THEN Resting ELSE [reader EXCEPT !.left = @ - 1]
  /\ UNCHANGED <<kind, claims, buffer, pending, isActive>>

\* One turn of the copying loop. The tail that is stored after the loop is only
\* read by the reader itself, so it may as well advance with each pulse.
Take ==
  /\ reader.copying
  /\ last' = [position |-> taken, pulse |-> buffer[Slot(tail)]]
  /\ overtaken' = (overtaken \/ ~Settled(Slot(tail)))
  /\ taken' = taken + 1 /\ tail' = (tail + 1) % Wrap
  /\ reader' = IF reader.left = 1 THEN Resting ELSE [reader EXCEPT !.left = @ - 1]
  /\ UNCHANGED <<kind, claims, buffer, pending, isActive>>

walia_pulse_shutdown ==
  /\ kind = "bus" /\ isActive /\ isActive' = FALSE
  /\ UNCHANGED <<kind, claims, tail, buffer, pending, reader, taken, last, overtaken>>

RingNext == \/ \E s \in Senders : \/ sys_fabric_send(s, 0) \/ sys_ipc_send(s, 0)
                              \/ walia_pulse_emit(s)
                              \/ \E f \in Fields : Deposit(s, f)
        \/ Reap \/ Collect \/ Take \/ walia_pulse_shutdown

-----------------------------------------------------------------------------
\* As long as no slot was taken before it was filled and none claimed before it
\* was taken, pulses arrive whole, once and in the order of their claims: the
\* n-th pulse taken is the n-th claimed. One sender that is overtaken is enough to
\* spoil a later pulse, because it still writes to its slot.
Delivered == ~overtaken => \A f \in Fields : last.pulse[f] = last.position
=============================================================================
