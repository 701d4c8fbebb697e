----------------------------- MODULE LineInput -----------------------------
(***************************************************************************)
(* The line editor of waliaos/lib/sys_shell_core.c over the bus: the        *)
(* keyboard driver (waliaos/drivers/sys_keyboard_metal.c) turns scancodes   *)
(* into pulses, the shell collects the pulses of everybody, picks out the   *)
(* keys, edits a line and prints what a key does to it. The shell's thread *)
(* is one of the senders; the others emit pulses that are no keys.         *)
(***************************************************************************)
EXTENDS Rings, Sequences, SequencesExt

CONSTANTS Shell,     \* the thread that polls the keyboard and reads lines
          LineSize,  \* length of input_buffer
          Keys,      \* bound: the scancodes pressed, but for those behind the map
          MaxKeys,   \* bound: how many characters
          PortSize,  \* bound: how many the controller holds
          MaxOthers  \* bound: pulses of other threads

ASSUME ShellAssumption == Shell \in Senders /\ LineSize \in Nat \ {0}

VARIABLES step,         \* where read_line's loop is
          port,         \* scancodes the controller holds
          shift_active,
          meant,        \* what each claim is to hold: a key or some other pulse
          batch,        \* the pulses collected and not yet looked at
          input_buffer, buffer_idx, line_complete,
          echo,         \* what was printed on the screen, one string for each key
          lines,        \* the lines returned (history)
          typed,        \* the characters typed, as the user means them (history)
          held,         \* a shift key is down, as the user sees it (history)
          behind,       \* a collection left pulses behind (history)
          beyond        \* a key was pressed that the map of scancodes ends before (history)

inputVars == <<step, port, shift_active, meant, batch, input_buffer, buffer_idx,
               line_complete, echo, lines, typed, held, behind, beyond>>
lineVars == <<ringVars, inputVars>>

Shifted == [a |-> "A", one |-> "one", newline |-> "newline", erase |-> "erase"]
NUL == "NUL"
Beyond == "beyond"

ASSUME KeysAssumption == Keys \subseteq DOMAIN Shifted \union {"down", "up"}

Other == [key |-> FALSE, char |-> NUL, shifted |-> FALSE]

InitInput == /\ step = "poll" /\ port = <<>> /\ shift_active = FALSE
             /\ meant = <<>> /\ batch = <<>>
             /\ input_buffer = [i \in 0 .. LineSize - 1 |-> NUL]
             /\ buffer_idx = 0 /\ line_complete = FALSE
             /\ echo = <<>> /\ lines = <<>> /\ typed = <<>>
             /\ held = FALSE /\ behind = FALSE /\ beyond = FALSE
LineInit == RingInit /\ kind = "bus" /\ InitInput

-----------------------------------------------------------------------------
\* The user presses or releases a key. Only shift keys matter when released.
PressKey(code) ==
  /\ Len(typed) < MaxKeys /\ Len(port) < PortSize /\ ~beyond
  /\ code = "up" => held
  /\ port' = Append(port, code)
  /\ held' = (code = "down" \/ (held /\ code # "up"))
  /\ typed' = IF code \notin DOMAIN Shifted THEN typed
              ELSE Append(typed, IF held THEN Shifted[code] ELSE code)
  /\ UNCHANGED <<ringVars, step, shift_active, meant, batch, input_buffer, buffer_idx,
                 line_complete, echo, lines, behind, beyond>>

\* A key whose scancode is none of the map's: a function key, a cursor key. Bound: none is
\* pressed behind it.
PressBeyond ==
  /\ ~beyond /\ Len(typed) < MaxKeys /\ Len(port) < PortSize
  /\ port' = Append(port, Beyond) /\ beyond' = TRUE
  /\ UNCHANGED <<ringVars, step, shift_active, meant, batch, input_buffer, buffer_idx,
                 line_complete, echo, lines, typed, held, behind>>

\* scancode_map: the shift keys stand for no character. Behind its end lies something.
Mapped(code) == IF code = Beyond THEN DOMAIN Shifted \union {NUL}
                ELSE IF code \in {"up", "down"} THEN {NUL} ELSE {code}

\* sys_keyboard_poll: one scancode, and a pulse if it stands for a character.
sys_keyboard_poll ==
  /\ step = "poll"
  /\ IF port = <<>>
     THEN step' = "collect" /\ UNCHANGED <<port, shift_active, meant, ringVars>>
     ELSE /\ port' = Tail(port)
          /\ shift_active' = (Head(port) = "down" \/ (shift_active /\ Head(port) # "up"))
          /\ \E char \in Mapped(Head(port)) :
               IF char = NUL \/ ~isActive
               THEN step' = "collect" /\ UNCHANGED <<ringVars, meant>>
               ELSE /\ step' = "emit"
                    /\ walia_pulse_emit(Shell)
                    /\ meant' = Append(meant, [key |-> TRUE, char |-> char,
                                               shifted |-> shift_active])
  /\ UNCHANGED <<batch, input_buffer, buffer_idx, line_complete, echo, lines, typed, held,
                 behind, beyond>>

\* The stores of the shell's own pulse.
Emit == /\ step = "emit" /\ \E f \in Fields : Deposit(Shell, f)
        /\ step' = IF pending'[Shell] = NoClaim THEN "collect" ELSE "emit"
        /\ UNCHANGED <<port, shift_active, meant, batch, input_buffer, buffer_idx,
                       line_complete, echo, lines, typed, held, behind, beyond>>

\* Another thread emits a pulse: a resumed continuation, a page.
EmitOther(s) ==
  /\ s # Shell
  /\ \/ /\ Len(SelectSeq(meant, LAMBDA p : ~p.key)) < MaxOthers
        /\ walia_pulse_emit(s) /\ meant' = Append(meant, Other)
     \/ \E f \in Fields : Deposit(s, f) /\ UNCHANGED meant
  /\ UNCHANGED <<step, port, shift_active, batch, input_buffer, buffer_idx,
                 line_complete, echo, lines, typed, held, behind, beyond>>

-----------------------------------------------------------------------------
\* What lies in a slot: the fields of two pulses when a sender was overtaken.
PulseIn(slot) ==
  IF slot.type = Blank \/ slot.payload = Blank THEN Other
  ELSE [meant[slot.payload + 1] EXCEPT !.key = meant[slot.type + 1].key]

CollectPulses ==
  /\ step = "collect"
  /\ IF Lag(tail) = 0 THEN step' = "edit" /\ UNCHANGED <<ringVars, behind>>
     ELSE Collect /\ step' = "take" /\ behind' = (behind \/ Lag(tail) > Batch)
  /\ batch' = <<>>
  /\ UNCHANGED <<port, shift_active, meant, input_buffer, buffer_idx, line_complete,
                 echo, lines, typed, held, beyond>>

TakePulse ==
  /\ step = "take" /\ Take
  /\ batch' = Append(batch, PulseIn(last'.pulse))
  /\ step' = IF reader'.copying THEN "take" ELSE "edit"
  /\ UNCHANGED <<port, shift_active, meant, input_buffer, buffer_idx, line_complete,
                 echo, lines, typed, held, behind, beyond>>

Character(p) == IF p.shifted THEN Shifted[p.char] ELSE p.char

\* What a key prints. For an erasure that is "\b \b", and k_vga_putc knows no '\b': what
\* was erased stays on the screen, and three more cells are drawn behind it.
Echoed(e, p) ==
  CASE p.char = "newline" -> <<"newline">>
    [] p.char = "erase" -> IF e.idx > 0 THEN <<"erase", " ", "erase">> ELSE <<>>
    [] OTHER -> IF e.idx < LineSize - 1 THEN <<Character(p)>> ELSE <<>>

\* process_key_pulse on the editor's state e: buffer, index, whether a line ended, screen.
Edited(e, p) ==
  CASE p.char = "newline" ->
         [e EXCEPT !.buffer[e.idx] = NUL, !.complete = TRUE]
    [] p.char = "erase" ->
         [e EXCEPT !.idx = IF @ > 0 THEN @ - 1 ELSE @]
    [] OTHER ->
         IF e.idx < LineSize - 1
         THEN [e EXCEPT !.buffer[e.idx] = Character(p), !.idx = @ + 1]
         ELSE e
ProcessKey(e, p) ==
  IF p.key THEN [Edited(e, p) EXCEPT !.echo = Append(@, Echoed(e, p))] ELSE e

\* The string in a buffer: what comes before the first NUL.
StringIn(b) ==
  LET size == CHOOSE n \in 0 .. LineSize - 1 :
                 b[n] = NUL /\ \A i \in 0 .. n - 1 : b[i] # NUL
  IN  [i \in 1 .. size |-> b[i - 1]]

\* mutant: the index is reset in every turn of the loop
EditFromStart ==
  /\ step = "edit"
  /\ LET e == FoldLeft(ProcessKey, [buffer |-> input_buffer, idx |-> buffer_idx,
                                    complete |-> line_complete, echo |-> echo], batch)
     IN  /\ input_buffer' = IF e.complete THEN [i \in 0 .. LineSize - 1 |-> NUL] ELSE e.buffer
         /\ buffer_idx' = 0
         /\ line_complete' = FALSE
         /\ echo' = e.echo
         /\ lines' = IF e.complete THEN Append(lines, StringIn(e.buffer)) ELSE lines
  /\ step' = "poll" /\ batch' = <<>>
  /\ UNCHANGED <<ringVars, port, shift_active, meant, typed, held, behind, beyond>>

\* The keys of a batch are processed one after the other, also those behind the
\* end of the line; then read_line returns, and is called again with a clean buffer.
Edit ==
  /\ step = "edit"
  /\ LET e == FoldLeft(ProcessKey, [buffer |-> input_buffer, idx |-> buffer_idx,
                                    complete |-> line_complete, echo |-> echo], batch)
     IN  /\ input_buffer' = IF e.complete THEN [i \in 0 .. LineSize - 1 |-> NUL] ELSE e.buffer
         /\ buffer_idx' = IF e.complete THEN 0 ELSE e.idx
         /\ line_complete' = FALSE
         /\ echo' = e.echo
         /\ lines' = IF e.complete THEN Append(lines, StringIn(e.buffer)) ELSE lines
  /\ step' = "poll" /\ batch' = <<>>
  /\ UNCHANGED <<ringVars, port, shift_active, meant, typed, held, behind, beyond>>

LineNext == \/ PressBeyond \/ \E code \in Keys : PressKey(code)
            \/ sys_keyboard_poll \/ Emit \/ CollectPulses \/ TakePulse \/ Edit
            \/ \E s \in Senders : EmitOther(s)

-----------------------------------------------------------------------------
\* The lines a user means, from what was typed: an erasure takes the nearest
\* character before it on its line that no other took; what does not fit is dropped.
LineAfter(line, c) ==
  IF c = "erase" THEN (IF line = <<>> THEN <<>> ELSE Front(line))
  ELSE IF Len(line) < LineSize - 1 THEN Append(line, c) ELSE line
LinesAfter(done, c) ==
  IF c = "newline" THEN Append(done, <<>>)
  ELSE [done EXCEPT ![Len(done)] = LineAfter(@, c)]
LinesOf(w) == FoldLeft(LinesAfter, << <<>> >>, w)
MeantLines == LinesOf(typed)

\* What typing c behind a line puts on the screen.
EchoOf(line, c) ==
  CASE c = "newline" -> <<"newline">>
    [] c = "erase" -> IF line = <<>> THEN <<>> ELSE <<"erase", " ", "erase">>
    [] OTHER -> IF Len(line) < LineSize - 1 THEN <<c>> ELSE <<>>

\* Unless the bus is flooded (pulses were left behind or overtaken), or a key has been
\* pressed for which the map has no entry: the lines the shell returns are those that were
\* typed, in order, and the screen has got what was typed, key by key. So the row of a line
\* is the line that is executed if nothing on it was erased, and is not if something was.
LinesAsTyped ==
  ~behind /\ ~overtaken /\ ~beyond =>
    /\ Len(lines) < Len(MeantLines)
    /\ \A n \in DOMAIN lines : lines[n] = MeantLines[n]
    /\ Len(echo) <= Len(typed)
    /\ \A n \in DOMAIN echo :
         echo[n] = EchoOf(Last(LinesOf(SubSeq(typed, 1, n - 1))), typed[n])
=============================================================================
