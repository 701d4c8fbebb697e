------------------------------- MODULE Health -------------------------------
(***************************************************************************)
(* The watchdog over the cores (waliaos/core/sys_watchdog.c) and the        *)
(* governor that throttles a hot processor (waliaos/core/sys_governor.c     *)
(* over drivers/sys_thermal_metal.c). A beat is read from the clock first   *)
(* and stored afterwards; core 0 scans the beats meanwhile.                *)
(***************************************************************************)
EXTENDS Integers

CONSTANTS NCores,       \* sys_topology_get_core_count
          Word,         \* 2^64: the clock's differences are unsigned
          Threshold,    \* cycles without a beat
          MaxClock,     \* bound: the clock
          Readouts,     \* bound: the sensor's readings, degrees below the limit
          Limits,       \* what the limit register may hold
          Fallback,     \* 100, the limit when it holds 0
          Targets,      \* get_target_temp, from policies to degrees
          Critical,     \* TEMP_CRITICAL
          MaxLevel,     \* 15
          Band,         \* 5: the degrees between up and down
          MaxUpdates    \* bound: calls of the governor

ASSUME HealthAssumption ==
  /\ NCores \in Nat \ {0} /\ Word \in Nat /\ MaxClock \in Nat /\ MaxClock < Word
  /\ Threshold \in 1 .. Word - 1
  /\ MaxLevel \in Nat /\ (MaxLevel + 1) % 2 = 0
  /\ Readouts \subseteq Nat /\ Limits \subseteq Nat /\ Fallback \in Nat /\ Band \in Nat
  /\ \A p \in DOMAIN Targets : Targets[p] \in Nat /\ Targets[p] > Band

VARIABLES clock,    \* the time stamp counter
          beats,    \* core_heartbeats
          pulse,    \* per core: the time it has read and not stored yet
          scan,     \* core 0's scan: its time and the core it looks at next
          reports,  \* the failures reported (history)
          beaten,   \* when each core last called the watchdog (history)
          policy, level, halted, updates,
          tjMax,    \* global_tj_max
          modulation, \* the clock modulation register: bits 4 to 1, and the others
          turned    \* the temperature at the last change of level, and its direction
                    \* (history)

watchVars == <<clock, beats, pulse, scan, reports, beaten>>
govVars == <<policy, level, halted, updates, tjMax, modulation, turned>>
healthVars == <<watchVars, govVars>>

Watched == 0 .. NCores - 1
NoTime == -1

\* sys_thermal_init
Limit(target) == IF target = 0 THEN Fallback ELSE target

\* sys_watchdog_init and sys_governor_init; the register is what the firmware left.
HealthInit == /\ clock = 1 /\ beats = [c \in Watched |-> 0] /\ pulse = [c \in Watched |-> NoTime]
        /\ scan = [now |-> NoTime, next |-> 1, failed |-> FALSE] /\ reports = {}
        /\ beaten = [c \in Watched |-> 0]
        /\ policy \in DOMAIN Targets /\ level = 0 /\ halted = FALSE /\ updates = 0
        /\ turned = [up |-> FALSE, temp |-> 0]
        /\ tjMax \in {Limit(t) : t \in Limits}
        /\ modulation = [bits |-> MaxLevel, rest |-> "firmware's"]

-----------------------------------------------------------------------------
Tick == clock < MaxClock /\ clock' = clock + 1
        /\ UNCHANGED <<beats, pulse, scan, reports, beaten, govVars>>

\* sys_watchdog_pulse: the clock is read ...
PulseRead(c) == /\ pulse[c] = NoTime
                /\ pulse' = [pulse EXCEPT ![c] = clock]
                /\ beaten' = [beaten EXCEPT ![c] = clock]
                /\ UNCHANGED <<clock, beats, scan, reports, govVars>>
\* ... and stored.
PulseStore(c) == /\ pulse[c] # NoTime
                 /\ beats' = [beats EXCEPT ![c] = pulse[c]]
                 /\ pulse' = [pulse EXCEPT ![c] = NoTime]
                 /\ UNCHANGED <<clock, scan, reports, beaten, govVars>>

\* sys_watchdog_scan reads the clock once.
ScanBegin == /\ scan.now = NoTime
             /\ scan' = [now |-> clock, next |-> 1, failed |-> FALSE]
             /\ UNCHANGED <<clock, beats, pulse, reports, beaten, govVars>>

\* mutant: a core that never beat is late too
LateOrSilent(c) == (scan.now - beats[c]) % Word > Threshold

\* The difference is unsigned: a beat that is newer than the scan's clock looks as
\* old as the word is wide.
Late(c) == beats[c] # 0 /\ (scan.now - beats[c]) % Word > Threshold

\* One turn of the loop over the cores: a late one is reported ...
ScanCore ==
  LET c == scan.next
  IN  /\ scan.now # NoTime /\ c < NCores /\ ~scan.failed
      /\ IF Late(c)
         THEN /\ reports' = reports \union
                   {[core |-> c, racing |-> beats[c] > scan.now, storing |-> pulse[c] # NoTime,
                     silent |-> beaten[c] # 0 /\ scan.now - beaten[c] > Threshold]}
              /\ scan' = [scan EXCEPT !.failed = TRUE]
         ELSE /\ scan' = [scan EXCEPT !.next = @ + 1]
              /\ UNCHANGED reports
      /\ UNCHANGED <<clock, beats, pulse, beaten, govVars>>
\* ... and its beat cleared, whatever it stored meanwhile.
ScanClear ==
  /\ scan.failed
  /\ beats' = [beats EXCEPT ![scan.next] = 0]
  /\ scan' = [scan EXCEPT !.next = @ + 1, !.failed = FALSE]
  /\ UNCHANGED <<clock, pulse, reports, beaten, govVars>>

ScanEnd == /\ scan.now # NoTime /\ scan.next >= NCores
           /\ scan' = [scan EXCEPT !.now = NoTime]
           /\ UNCHANGED <<clock, beats, pulse, reports, beaten, govVars>>

-----------------------------------------------------------------------------
\* sys_thermal_read_current: an unsigned difference, so a reading below zero degrees
\* is far above the critical temperature, ...
Temperature(readout) == (tjMax - readout) % Word

\* ... at which the processor is halted with interrupts off.
Scram(temp) == /\ temp >= Critical /\ halted' = TRUE
               /\ UNCHANGED <<policy, level, updates, tjMax, modulation, turned, watchVars>>

\* sys_thermal_apply_throttle: a duty of as many bits as the field, whose upper one is
\* the enable bit. The duty of a level above the middle lacks it and is given it.
EnableBit == (MaxLevel + 1) \div 2
Throttled(l) ==
  LET duty == MaxLevel + 1 - l
  IN  IF l = 0 THEN 0 ELSE IF duty < EnableBit THEN duty + EnableBit ELSE duty
sys_thermal_apply_throttle(l) == modulation' = [modulation EXCEPT !.bits = Throttled(l)]

\* mutant: no band between up and down
SteppedAtTarget(temp) ==
  IF temp > Targets[policy] THEN (IF level < MaxLevel THEN level + 1 ELSE level)
  ELSE (IF level > 0 THEN level - 1 ELSE level)

\* sys_governor_update's decision
Stepped(temp) ==
  IF temp > Targets[policy] THEN (IF level < MaxLevel THEN level + 1 ELSE level)
  ELSE IF temp < Targets[policy] - Band THEN (IF level > 0 THEN level - 1 ELSE level)
  ELSE level

sys_governor_update(temp) ==
  /\ ~halted /\ updates < MaxUpdates /\ temp < Critical
  /\ level' = Stepped(temp) /\ updates' = updates + 1
  /\ turned' = IF level' = level THEN turned ELSE [up |-> level' > level, temp |-> temp]
  /\ sys_thermal_apply_throttle(level')
  /\ UNCHANGED <<policy, halted, tjMax, watchVars>>

\* sys_governor_set_policy: the throttle starts again at none.
sys_governor_set_policy(p) ==
  /\ ~halted /\ updates < MaxUpdates /\ updates' = updates + 1
  /\ policy' = p /\ level' = 0 /\ turned' = [up |-> FALSE, temp |-> 0]
  /\ sys_thermal_apply_throttle(0)
  /\ UNCHANGED <<halted, tjMax, watchVars>>

WatchNext == Tick \/ ScanBegin \/ ScanCore \/ ScanClear \/ ScanEnd
             \/ \E c \in Watched : PulseRead(c) \/ PulseStore(c)
GovernNext == \/ \E r \in Readouts : sys_governor_update(Temperature(r))
              \/ \E r \in Readouts : ~halted /\ Scram(Temperature(r))
              \/ \E p \in DOMAIN Targets : sys_governor_set_policy(p)

-----------------------------------------------------------------------------
\* A core is reported only if it has beaten and then kept silent for the threshold, or
\* its beat came between the scan's look at the clock and at the core, which the
\* unsigned difference takes for an age, or it has read the clock for a beat that it
\* has not stored yet.
ReportsJustified == \A r \in reports : r.silent \/ r.racing \/ r.storing

\* The level turns only if the temperature has crossed the whole band: no
\* oscillation around the target. And from the governor's first word on, the clock is
\* braked as long as there is a level, and the register's other bits are left alone.
NoOscillation ==
  /\ [][\A r \in Readouts :
           LET t == Temperature(r)
           IN  sys_governor_update(t) /\ level' < level /\ turned.up => turned.temp - t > Band]_healthVars
  /\ [](/\ updates > 0 => (modulation.bits >= EnableBit <=> level > 0)
        /\ level \in 0 .. MaxLevel /\ modulation.rest = "firmware's")
=============================================================================
