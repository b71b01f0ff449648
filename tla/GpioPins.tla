----------------------------- MODULE GpioPins -----------------------------
(***************************************************************************)
(* What the GPIO module promises (gpio/readme.md): a command names a pin   *)
(* of a header and has its effect on that pin and on no other; a command   *)
(* that names no GPIO pin, or that its file does not know, is refused and  *)
(* has no effect.                                                          *)
(*                                                                         *)
(* Two things weaken it.  Calls of the device that overlap share a buffer: *)
(* while a write is inside, another call may disturb it, and it is then    *)
(* taken for some command.  And a command without an end may be taken for  *)
(* one whose pin has more digits.                                          *)
(***************************************************************************)
EXTENDS Naturals

CONSTANTS Callers,   \* the threads that call the device
          Pins,      \* per file: the header pins that it knows as GPIO
          Commands,  \* what users ask for: records [file, op, pin, ended]
          NoPin

VARIABLES command,   \* the last command
          answer,    \* "done" or "refused"
          outputs,   \* pins configured as output
          high,      \* pins whose output is set high
          selected,  \* the pin selected for reading, or NoPin
          inside,    \* callers inside a call of the device
          disturbed  \* those whose write another call has disturbed

pins == <<command, answer, outputs, high, selected>>
vars == <<pins, inside, disturbed>>

\* Configuration goes to the sysfs file, control to the device; other drivers
\* call gpiolib.
Known(c) == \/ c.file = "sysfs" /\ c.op \in {"i", "o"}
            \/ c.file = "devfs" /\ c.op \in {"r", "h", "l"}
            \/ c.file = "gpiolib" /\ c.op \in {"i", "o", "h", "l"}

Init ==
  /\ command = [file |-> "none", op |-> "none", pin |-> NoPin, ended |-> TRUE]
  /\ answer = "done"
  /\ outputs = {}
  /\ high = {}
  /\ selected = NoPin
  /\ inside = {}
  /\ disturbed = {}

Do(c) ==
  /\ command' = c
  /\ Known(c) /\ c.pin \in Pins[c.file]
  /\ answer' = "done"
  /\ outputs' = CASE c.op = "o" -> outputs \cup {c.pin}
                  [] c.op = "i" -> outputs \ {c.pin}
                  [] OTHER -> outputs
  /\ high' = CASE c.op = "h" -> high \cup {c.pin}
               [] c.op = "l" -> high \ {c.pin}
               [] OTHER -> high
  /\ selected' = IF c.op = "r" THEN c.pin ELSE selected

Refuse(c) ==
  /\ command' = c
  /\ ~(Known(c) /\ c.pin \in Pins[c.file])
  /\ answer' = "refused"
  /\ UNCHANGED <<outputs, high, selected>>

\* A call of t may disturb others that are inside, never itself.
Disturbed(t) == {disturbed \cup others : others \in SUBSET (inside \ {t})}

\* Numbers that begin with the digits of n: up to two more follow.
Longer(n) == {n} \cup (10 * n .. 10 * n + 9) \cup (100 * n .. 100 * n + 99)

\* The commands that a write of c may be taken for.
Taken(t, c) ==
  IF t \in disturbed
  THEN [file : {c.file}, op : {"r", "h", "l", "none"}, pin : Pins[c.file] \cup {NoPin}, ended : {c.ended}]
  ELSE IF c.ended THEN {c} ELSE {[c EXCEPT !.pin = <<c.pin[1], n>>] : n \in Longer(c.pin[2])}

\* A write comes to its end.
Write(t, c) ==
  /\ t \in inside
  /\ c.file = "devfs"
  /\ \E d \in Taken(t, c) : Do(d) \/ Refuse(d)
  /\ inside' = inside \ {t}
  /\ \E now \in Disturbed(t) : disturbed' = now \ {t}

\* A command that goes past the buffer.
Ask(c) ==
  /\ c.file # "devfs"
  /\ Do(c) \/ Refuse(c)
  /\ UNCHANGED <<inside, disturbed>>

Enter(t) ==
  /\ t \notin inside
  /\ inside' = inside \cup {t}
  /\ disturbed' \in Disturbed(t)
  /\ UNCHANGED pins

Proceed(t) ==
  /\ t \in inside
  /\ disturbed' \in Disturbed(t)
  /\ UNCHANGED <<pins, inside>>

\* A read comes to its end.
LeaveRead(t) ==
  /\ t \in inside
  /\ inside' = inside \ {t}
  /\ disturbed' = disturbed \ {t}
  /\ UNCHANGED pins

Next ==
  \/ \E c \in Commands : Ask(c)
  \/ \E t \in Callers : \/ Enter(t) \/ Proceed(t) \/ LeaveRead(t)
                        \/ \E c \in Commands : Write(t, c)

Spec == Init /\ [][Next]_vars

=============================================================================
