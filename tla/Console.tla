------------------------------ MODULE Console ------------------------------
(***************************************************************************)
(* The diagnostic shell WaliaOS boots into (waliaos/core/sys_shell.c), with *)
(* the text screen (drivers/driver_vga_metal.c), the keyboard controller it *)
(* polls, and the interrupts that end a HLT: the shell halts whenever a     *)
(* scancode stood for no character, and nobody but an interrupt wakes it.   *)
(***************************************************************************)
EXTENDS Naturals, Sequences, SequencesExt

CONSTANTS Width, Height, \* VGA_WIDTH, VGA_HEIGHT
          BufSize,       \* SHELL_BUF_SIZE
          Lower, Upper,  \* scancode_lower and scancode_upper, from codes to characters
          Scancodes,         \* bound: the scancodes that arrive
          MaxScancodes,      \* bound: how many
          FifoSize,      \* bound: how many wait at the controller
          Reports,       \* what help, status, cpu and mem print, by command
          Clear, Reboot  \* the other two commands

ASSUME ScreenAssumption ==
  /\ Width \in Nat \ {0} /\ Height \in Nat \ {0}
  /\ BufSize \in Nat \ {0} /\ BufSize <= Width * (Height - 1)
  /\ DOMAIN Upper = DOMAIN Lower /\ \A line \in DOMAIN Reports : Reports[line] \in Seq(STRING)

VARIABLES fifo,       \* scancodes the controller holds
          shift_held,
          buf,        \* the characters before pos
          screen,     \* VGA_MEM with cursor_x, cursor_y; colours are left out
          cpu,        \* "read": polling, "idle": about to halt, "halted"
          arrived     \* how many codes came (history)

consoleVars == <<fifo, shift_held, buf, screen, cpu, arrived>>

Prompt == <<"> ">>
Newline == "newline"
Erase == "erase"
NoChar == "none"
Space == " "
Cells == 0 .. Width * Height - 1

-----------------------------------------------------------------------------
(* The screen *)
k_vga_clear == [cells |-> [i \in Cells |-> Space], x |-> 0, y |-> 0]

scroll(cells) ==
  [i \in Cells |-> IF i + Width \in Cells THEN cells[i + Width] ELSE Space]

\* The end of k_vga_putc: a full row moves the cursor on, a full screen moves up.
Advanced(s) ==
  LET wraps == s.x >= Width
      y == IF wraps THEN s.y + 1 ELSE s.y
  IN  [cells |-> IF y >= Height THEN scroll(s.cells) ELSE s.cells,
       x |-> IF wraps THEN 0 ELSE s.x,
       y |-> IF y >= Height THEN Height - 1 ELSE y]

k_vga_putc(s, c) ==
  Advanced(IF c = Newline THEN [s EXCEPT !.x = 0, !.y = @ + 1]
           ELSE [s EXCEPT !.cells[s.y * Width + s.x] = c, !.x = @ + 1])

\* (The screen is bound to its value before each character, which keeps TLC fast.)
k_vga_print(s, text) ==
  FoldLeft(LAMBDA t, c : CHOOSE next \in {k_vga_putc(now, c) : now \in {t}} : TRUE, s, text)

k_vga_backspace(s) ==
  LET up == s.x = 0 /\ s.y > 0
      x == IF s.x > 0 THEN s.x - 1 ELSE IF up THEN Width - 1 ELSE 0
      y == IF up THEN s.y - 1 ELSE s.y
  IN  [cells |-> [s.cells EXCEPT ![y * Width + x] = Space], x |-> x, y |-> y]

-----------------------------------------------------------------------------
\* walia_kernel_init up to the shell's first prompt. A reboot comes back here.
Booted == /\ fifo' = <<>> /\ shift_held' = FALSE /\ buf' = <<>>
          /\ screen' = k_vga_print(k_vga_clear, Prompt) /\ cpu' = "read"

ConsoleInit == /\ fifo = <<>> /\ shift_held = FALSE /\ buf = <<>>
        /\ screen = k_vga_print(k_vga_clear, Prompt) /\ cpu = "read"
        /\ arrived = 0

\* A key goes down or up. The controller interrupts (IRQ1) for a code that becomes
\* its first; the handler only acknowledges, but it ends a HLT.
ScancodeArrives(code) ==
  /\ arrived < MaxScancodes /\ Len(fifo) < FifoSize
  /\ fifo' = Append(fifo, code) /\ arrived' = arrived + 1
  /\ cpu' = IF cpu = "halted" /\ fifo = <<>> THEN "read" ELSE cpu
  /\ UNCHANGED <<shift_held, buf, screen>>

\* mutant: the timer's line stays masked
TimerMasked == cpu = "halted" /\ fifo = <<>> /\ cpu' = "read"
               /\ UNCHANGED <<fifo, shift_held, buf, screen, arrived>>

\* The timer (IRQ0) does nothing but end a HLT.
Timer == cpu = "halted" /\ cpu' = "read"
         /\ UNCHANGED <<fifo, shift_held, buf, screen, arrived>>

-----------------------------------------------------------------------------
\* shell_read_key: the character, if any, that a scancode stands for. "down" and
\* "up" are a shift key; codes outside the maps and releases stand for none.
CharOf(code) == IF code \notin DOMAIN Lower THEN NoChar
                ELSE IF shift_held THEN Upper[code] ELSE Lower[code]
\* The character that is next, if one is.
NextChar == IF fifo = <<>> THEN NoChar ELSE CharOf(Head(fifo))

\* A turn of the shell's loop without a character: no code, a shift key, a release.
NoKey == /\ cpu = "read"
         /\ NextChar = NoChar
         /\ IF fifo = <<>> THEN UNCHANGED <<fifo, shift_held>>
            ELSE /\ fifo' = Tail(fifo)
                 /\ shift_held' = (Head(fifo) = "down" \/ (shift_held /\ Head(fifo) # "up"))
         /\ cpu' = "idle"
         /\ UNCHANGED <<buf, screen, arrived>>

\* An interrupt between the poll and the HLT has no effect: the processor halts.
Hlt == cpu = "idle" /\ cpu' = "halted"
       /\ UNCHANGED <<fifo, shift_held, buf, screen, arrived>>

\* shell_execute: what the screen s looks like after a command that comes back.
shell_execute(s, line) ==
  CASE line = <<>> -> s
    [] line = Clear -> k_vga_clear
    [] line \in DOMAIN Reports -> k_vga_print(s, Reports[line])
    [] OTHER -> k_vga_print(s, <<"?">> \o line \o <<Newline>>)

\* Enter: the newline, the command, a fresh prompt. cmd_reboot does not come back.
Execute ==
  /\ cpu = "read" /\ NextChar = Newline
  /\ IF buf = Reboot THEN Booted
     ELSE /\ fifo' = Tail(fifo) /\ buf' = <<>>
          /\ screen' = k_vga_print(shell_execute(k_vga_putc(screen, Newline), buf), Prompt)
          /\ UNCHANGED <<shift_held, cpu>>
  /\ UNCHANGED arrived

\* A character of the line, or an erasure; a full line takes no more.
EditLine ==
  LET c == NextChar
  IN  /\ cpu = "read" /\ c \notin {NoChar, Newline}
      /\ fifo' = Tail(fifo)
      /\ CASE c = Erase /\ buf # <<>> ->
                buf' = Front(buf) /\ screen' = k_vga_backspace(screen)
           [] c # Erase /\ Len(buf) < BufSize - 1 ->
                buf' = Append(buf, c) /\ screen' = k_vga_putc(screen, c)
           [] OTHER -> UNCHANGED <<buf, screen>>
      /\ UNCHANGED <<shift_held, cpu, arrived>>

ConsoleNext == \/ \E code \in Scancodes : ScancodeArrives(code)
        \/ Timer \/ NoKey \/ Hlt \/ Execute \/ EditLine

-----------------------------------------------------------------------------
\* The cells before the cursor show the prompt and the line, wherever the line
\* wrapped, scrolled or was erased: what the user sees is what Enter executes.
ScreenShowsLine ==
  LET shown == Prompt \o buf
      cursor == screen.y * Width + screen.x
  IN  /\ cursor >= Len(shown)
      /\ \A i \in 1 .. Len(shown) : screen.cells[cursor - Len(shown) + i - 1] = shown[i]

\* Every scancode is read in the end, although the shell halts between two of them
\* and the interrupt that announces a code may come before the HLT.
KeysRead == fifo # <<>> ~> fifo = <<>>
=============================================================================
