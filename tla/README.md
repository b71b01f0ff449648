# Verification of the ES6 drivers

This directory holds TLA+ models of the Linux kernel modules in this
repository, written for an LPC3250 board: an ADC driver, a GPIO driver, a PWM
driver and the sysfs modules, and of the vendor's interrupt and GPIO code they
stand on. TLC checks the models on small instances, and
TLAPS proves the main results for every value of the constants.

Paths below are relative to `src/`; "adc.c:170" is line 170 of `adc/adc.c`.

## 1. The system

Every module is independent of the others. A module is a set of handlers that
the kernel calls on behalf of processes (open, read, write, release, show,
store) or of the hardware (interrupt handlers). The handlers communicate
through static variables and device registers. No module uses a lock. There
are no messages between modules, nothing is stored permanently and there are
no retries, so the hard behaviours are interleaving, stale reads of statics and
registers, order of calls, lost wake-ups, array and buffer limits, and partial
failure while loading.

Modules meet in two places. The ADC driver requests its two interrupts from the
vendor's `irq.c`, and also writes the registers of the controllers itself. The
GPIO driver and the vendor's `gpiolib.c` write the same pin registers.

| Component | State | Operations | Hard behaviour |
|---|---|---|---|
| ADC driver, `adc/adc.c` | `adc_channel`, `adc_values`, `adc_interrupt_handled`, `gpi_interrupt_print`, a wait queue; `ADC_SELECT`, `ADC_CTRL`, `ADC_VALUE` | open, read, release, `adc_interrupt`, `gp_interrupt` | a reader sleeps until an interrupt; the button starts a chain of three conversions with the same statics; readers overlap |
| Measurement build, `adc/adc_gpio.c` | the same, and output pins of port 2 | the same | the pin is set after the conversion was started |
| GPIO driver, `gpio/gpio-base.c`, `gpio/ports.c` | `deviceIsOpen`, `selectedPort`, `Message`, `Message_Ptr`; direction, output and input registers of P0, P2, P3 | open, release, read, write of `es6_gpio`; store of `gpiofs` | state outlives the user that made it; threads share the open file and the buffer, and sleep in the middle of it; P3 has different bits for direction, output and input; partial reads |
| PWM driver, `pwm/pwm.c` | two registers of three fields, `deviceIsOpen`, `Message`, `Message_Ptr` | open, release, read, write, six minors | both registers are read, then user memory is copied (may sleep), then one is written back whole; a read may sleep while others use its buffer |
| Module life cycle, all five modules | what is registered, the reference count | init, exit, open, release, interrupts, attributes | init can fail at each step; things are reachable while init still runs |
| Sysfs buffer, `peek_and_poke/freddy.c` | `sysfs_buffer`, `used_buffer_size` | show, store | shared without a lock; a long text comes in parts |
| Peek and poke, `peek_and_poke_kmod/peekpoke.c` | the same, and any register | show, store with commands r and w | the same; each part is a command |
| BSP interrupts, `adc/lpc-src/irq.c`, `irqs.h` | masks, polarity and type of three controllers, the start controller, `wakeup_irqs`, `backup_irqs`, `wakeupirq` | mask, unmask, ack, set type, set wake, chained handlers, suspend, resume | masks are changed by handlers, by drivers, by sleep and by `adc_init` |
| BSP GPIO, `adc/lpc-src/gpiolib.c`, `gpio.h` | six chips on the pin registers | direction input and output, set value | shares registers with the GPIO driver; P3 bits differ |
| `something.c`, `rtc.c`, `HelloWorld/`, `LPC3250/` | none that this project owns | register dumps, log lines, data sheets | none |

What makes each component correct:

* ADC: `read()` returns a value of the channel that was opened, converted after
  the call; a sleeping reader is woken; a scan prints every channel with its own
  value and ends; `adc_channel` stays inside `adc_values` where it is used.
* Measurement build: the pin of a channel is high while it is converted in a
  scan, so that the analyzer shows the duration.
* GPIO: one open file at a time; a command has its effect on the pin it names and on
  no other; `read()` shows the state of the selected pin; the text fits.
* PWM: a write sets the field of its minor and leaves the five others alone; a
  read shows what was set.
* Life cycle: a failed load leaves nothing behind, module code is called only
  while it is in memory, references balance.
* Sysfs files: the buffer always ends in a NUL, so that a show stays inside it;
  after an undisturbed store the file shows its text.
* BSP interrupts: a requested interrupt is unmasked while the system is awake; a
  sleeping system can be woken by what was asked to wake it, and by nothing
  else; the source is named; a chained handler ends.
* BSP GPIO: a call has its effect on the pin it names and on no other, whatever
  the GPIO driver does to the same registers.

## 2. Modules

    AdcService              abstract ADC: calls, returns, scans
    AdcDriver               adc.c and the converter
      AdcRefinement         the mapping to AdcService, and SerialInv
        AdcRefinementProofs
      AdcProofs
      AdcGpio               adc_gpio.c, extends AdcDriver
        AdcGpioProofs       with the types from AdcProofs
    GpioPins                abstract GPIO: pins and commands
    GpioPorts               the pin tables and their lookup
      GpioDriver            gpio-base.c
        GpioTableProofs     lemmas about the tables, the wires and their bits
        GpioLib             gpiolib.c on the same registers, INSTANCEs GpioPins
          MCGpio
          GpioProofs        with the lemmas of GpioTableProofs
    PwmPanel                abstract PWM: six settings
    PwmDriver               pwm.c, INSTANCEs PwmPanel
      MCPwm, PwmProofs
    ModuleLife              init and exit of the five modules
      SysfsBuffer           the files of freddy.c and peekpoke.c in such a module
        LifeProofs          about both
    LpcIrq                  irq.c, and adc_init's writes to its registers
      MCLpcIrq, LpcIrqProofs

A definition whose comment begins with "Deviation:" is a plausible mistake in
the definition that follows it. It is not part of the model; putting it in
place of its neighbour makes TLC report the property it is meant for.

### 2.1 AdcDriver

Threads run `device_read` cut at each access to shared state: `ReadEnter`
(adc.c:156 to 166, up to the reset of the flag), `SelectChannel`, `NameChannel`
and `StrobeChannel` (the three accesses of `adc_start`), `WaitEvent` (one test
of the condition of `wait_event_interruptible`), `WaitInterrupted` (a signal,
whose result the code ignores) and `ReadReturn` (fetch, `copy_to_user`, which may
fail). The interrupt handlers are registered with `IRQF_DISABLED` and the
processor is single, so each is one step and happens between any two steps of a
thread. `adc_start` inside a handler is therefore atomic (`AdcStart`).

`Env` selects what the environment does: `overlap` (a read or a scan may begin
while another is in progress), `button`, `signal`, `preempt` (the kernel
preempts threads in the driver) and `lax` (the converter restarts on a strobe
during a conversion, and a changed `ADC_SELECT` may affect the conversion under
way; the code does not say which the hardware does, so both are allowed).

A sample is represented by the channel it came from and a bit `fresh` that says
that it was started since the last call of `device_read`. A store beyond the end
of `adc_values` (adc.c:112) sets `overrun`, and the scalar statics become
arbitrary, as the array lies among them. `adc_channel` is an `unsigned char`
and wraps at `MaxByte`.

### 2.2 AdcGpio

`adc_gpio.c` is `adc.c` with a pin set high at the end of `adc_start` and set
low at the start of `adc_interrupt`. A thread can be interrupted between the
strobe and the pin, so it is in `marking` between them.

### Where handlers are interrupted

A kernel with preemption can stop a handler between any two accesses to shared
state, and a handler can sleep where `get_user`, `put_user` or `copy_to_user` finds
the user's memory absent. The models take this into account as follows.

| Model | A handler is cut |
|---|---|
| AdcDriver, AdcGpio | at every access to shared state, by interrupts and, with `preempt`, by other threads |
| SysfsBuffer | at every access to the buffer and its size |
| LpcIrq | between the accesses of `adc_init` to the controllers; the functions of the chip run with interrupts off |
| GpioDriver, PwmDriver | in the copy loops, where `get_user` and `put_user` may sleep |

That no preemption happens elsewhere in the GPIO and PWM handlers is an assumption
of these two models: they have long stretches without a user access, among them the
test and the increment of `deviceIsOpen` (gpio-base.c:54 to 58, pwm.c:36 to 42).

### 2.3 GpioDriver and GpioPorts

Threads of one process, or a parent and its child, share the open file. `device_write`
is `WriteBegin`, then `WritePause` wherever a `get_user` sleeps, then `WriteEnd`, which
copies the rest, parses and obeys (`Obey`). `device_read` is `ReadBegin` (the tests and
`sprintf`), `ReadPause` wherever a `put_user` sleeps, and `ReadEnd`. Between these
steps the other threads open, read and write, and move `Message` and `Message_Ptr`.
`ReadNothing` and `WriteOtherMinor` are the early returns. `disturbed` is the set of
threads over whose command another call has written; `sscanf` may then find anything
in `Mixtures`.

A command is a record of its letter, jumper, pin, and what follows the pin: nothing, a
newline, or so many blanks that `Message` is full and has no NUL. Of `Message` the
model keeps where its string ends and its bytes 6 and 7: these decide whether
a command without an end is completed by the digits of an old one. A register is the
set of its bits that are 1; a register address is its bank. `GpioPorts` holds both
tables row by row, a lookup that returns the first row as the code's loop does, and
the documented map from header pins to register bits, against which the tables are
compared. `overflow` records that a handler went past the end of `Message`; what lies
behind it is not modelled, so the behaviour stops there.

`GpioPins` is what the module promises. It is weakened where calls overlap: a call inside
may disturb the writes of others, and a disturbed write may be taken for any
command; and a command without an end may be taken for a pin with more digits.
`SupportedPins` are the header pins that `findPort` knows. J3.40 and J3.33 are not among
them although gpio/readme.md:46 and 52 list them as GPIO: ports.c:28 and 29 have
their rows under jumper 4, so commands for them are refused.

### 2.4 PwmDriver

`device_write` is three steps: `WriteBegin` reads both registers, `WriteCopy` copies some
bytes (`get_user` sleeps before the next), `WriteParse` copies the rest, parses it and
writes a register. `device_read` is `ReadBegin` (`sprintf`), `ReadPut` wherever a
`put_user` sleeps, and `ReadEnd`. Threads share an open file. `Message` is
represented by the number that is being copied into it, or that it holds a text. Two
numbers copied at once may read as either, as none (-1) or as one of `Mixtures`, such
as the first digits of one. `disturbed` is the set of threads whose call another call
overlapped. `PwmPanel` lets a disturbed write set its setting to any legal value and
a disturbed read show anything, and it leaves open what a number out of 0 to 255
sets, as the code means to refuse it (pwm.c:148) and does not; but no write may
change another setting.

### 2.5 ModuleLife

For each of the five modules, the init function registers things in the order
of the code, any of which can fail; what follows is taken from the code's error
path (the ADC driver goes on without its interrupts, adc.c:75 and 83). Users reach
what is registered at once. The character devices hold the kernel's reference
only if the file operations have an owner; `device_open` of adc.c takes one more
and ignores the result. `stray` records a call to code that is not in memory,
`leaked` what a failed init left registered.

### 2.6 GpioLib

Other drivers of the kernel set up pins through `gpiolib.c`. Its calls
(`LibDirectionInput`, `LibDirectionOutput`, `LibSetValue`) act on the registers
of GpioDriver, with the numbering of `gpio.h` and the operations each chip has.
`DirBit`, `OutBit` and `InBit` of GpioPorts, by which the tables of the GPIO
driver are judged, are translated from gpiolib.c: `ImplementsPins` therefore says
that two pieces of code, written apart, agree about the pins of the headers, and
that the calls of both, in any order, leave each other's pins alone.
`gpio_direction_output` ignores its value argument (gpiolib.c:291), which the
model does too.

### 2.7 SysfsBuffer

Extends ModuleLife: the files are there exactly while the module has its group
registered, and a module that is loaded again starts with fresh statics.
`sysfs_store` is four steps: `StoreEnter` (the command of peekpoke.c),
`StoreSize`, `StoreCopy`, `StoreReturn` (the NUL and the result). The compiler may
keep `used_buffer_size` in a register or read it again, so each later use takes
either value (`SizeSeen`). A copy with the size of another, longer store takes what
lies behind the text in the page: its NUL, then zeros or the tail of an earlier
write. A result smaller than what was written lets the writer call again with
the rest, as `echo` does, or leave it. A byte is represented by its author; of a
command the model keeps whether it writes a register. `last` is the text of the
last store that no other overlapped.

`kobject_put` waits for calls of the attributes, so `Life` does not remove the
directory while a thread is in `sysfs_store`.

### 2.8 LpcIrq

A register of a controller is the set of the interrupt numbers whose bit is 1,
over all three controllers, with the default values of `irqs.h` and the event
table of `irq.c` in full. The chained handlers take a snapshot of the status
(`EnterChained`) and serve it from the highest number down (`HandleChained`); a
device may raise its interrupt between two turns of the loop. `HandleLevelIrq`
stands for the kernel's flow handler, which masks, acks and unmasks through the
chip; an interrupt nobody requested stays masked. `adc_init` reads SIC1_ER in
`AdcReadEr` and writes it back in `AdcWriteEr`, and interrupts may be served in
between; it sets the bits of the number 0x27 and not bit 7, as the code does.
Other drivers may request and free interrupts in between, the converter's among
them (it is the touch screen's too): `raced` is the set of interrupts of SIC1 that were
requested then, and which the write may mask. `AdcReadAtr` and `AdcWriteAtr` do the
same with SIC2_ATR. Processes are frozen before `Suspend`, so it does not come within
them. `Suspend` and `Resume` are `lpc32xx_irq_suspend` and `lpc32xx_irq_resume`.
`Raise`, `Withdraw` and what ends a sleep (`WakesUp`) are the hardware: a latched and
enabled event, or, in standby, an interrupt that is unmasked up to the
processor. Interrupts are off inside suspend and resume, so each is one step.

## 3. Runs

| Run | Specification | Instance | Checks |
|---|---|---|---|
| adc_serial | AdcRefinement | 2 threads, 3 channels, button, preempt, lax, users take turns | `SerialInv`, `ReadReturnsRequested`, `ScanPrintsAllChannels`, `SleeperWoken`, `ScanEnds`, `ImplementsService` |
| adc_overlap | AdcGpio | 1 thread, 2 channels, overlap, button, signal, lax | `TypeOK`, `ScanAlive`, `ScanMarked` |
| adc_readers | AdcDriver | 2 threads, 2 channels, overlap, preempt, signal, lax | `NoLostWakeup`, `SomeReaderReturns` |
| gpio | MCGpio, with GpioLib | 1 thread, all pins, calls of gpiolib.c on wires of every chip, a wire driven from outside, 2 commands | `ShowsInvertedInput`, `DirectionOffP3`, `ImplementsPins`, `SelectionStays` |
| gpio_threads | MCGpio | 2 threads, 2 files, sleeps in both loops, 4 commands with and without an end, whole and short reads, 2 commands | `TypeOK`, `OneHolder`, `ImplementsPins` |
| pwm | MCPwm | 2 threads, 2 files, sleeps in both loops, values in and above the range, 3 writes | `TypeOK`, `SnapshotsAgree`, `ImplementsPanel` |
| sysfs_modules | SysfsBuffer, with ModuleLife | 5 modules, 3 users, 3 threads, buffer of 2 bytes, texts of 1 to 3 | `RefsBalanced`, `CodeStays`, `FailsCleanly`, `StaysTerminated`, `ShowsLast` |
| irq | MCLpcIrq | interrupts 33, 39 (ADC) and 87 (button), all request types | `TypeOK`, `Deliverable`, `WakersArmed`, `ResumeNamesWaker`, `HandlerEnds` |
| adc_shared | AdcDriver | 2 threads, 2 channels, overlap | violates `ReadReturnsChannel` |
| adc_button_steals | AdcDriver | 1 thread, button, overlap | violates `SleeperWoken` |
| adc_overrun | AdcDriver | 1 thread, 3 channels, button, overlap | violates `NoOverrun` |
| gpio_overflow | MCGpio | 1 thread, reads of 10 bytes, 1 command | violates `MessageFits` |

What the passing runs show:

* adc_serial: when users take turns, the driver implements `AdcService`. Every
  accepted `read()` returns a fresh value of its own channel or a fault, then one
  end of file; every press of the button prints all channels in order.
* adc_overlap: in any overlap of a reader, the button and signals, a scan that is
  running always has an interrupt on its way and an index inside the array, and
  the measurement build keeps the pin of its channel high.
* adc_readers: without the button, overlapping readers can exchange values but
  never lose a wake-up, and they cannot all hang.
* gpio: for every pair of commands on supported pins, pins of jumper 4, pins that
  do not exist and an unknown letter, and of calls of gpiolib.c, a command
  affects its own pin only, or is refused without effect; `Input` in the text is the
  inverse of the level of the pin that is named (gpio-base.c:95), and `Direction` its
  direction unless it is a pin of P3; what is selected stays selected.
* gpio_threads: a write that nobody disturbed has the effect of its command even if it
  slept in the middle of it; a command with a newline is never completed by the rest of an
  older one, one without may be ("h J1.2" over "h J1.24"); one holder after every
  order of opens, refusals and closes; until a read leaves `Message`, `Message_Ptr` is
  within its string, refused opens and overlapping calls included.
* pwm: a write never disturbs another setting, although it writes back a register
  it read before it slept. It works because a single file, so a single minor, is
  open at a time (`SnapshotsAgree`). A read that nobody disturbed shows the setting as it
  is when the read ends, although it formatted the text before it slept.
* sysfs_modules: the two references of adc.c balance, the exit order is right, and
  pwm.c, peekpoke.c and freddy.c fail without a trace. Stores that are preempted
  between size, bytes and NUL can mix their texts but never lose the NUL at the end
  of the buffer; a store nobody overlapped is shown as it was written, up to the
  size of the buffer, and its command is the last one executed.
* irq: whatever is masked by handlers and for sleep, and whatever `adc_init` writes
  back in between, requested interrupts can be delivered while the system is awake,
  but for those of SIC1 requested between its read and its write;
  asleep, exactly the wake-up sources get through, including those that share the
  interrupt of a sub controller; one event that wakes is named; no device can keep
  a chained handler in its loop.

What the violated runs show (details in `PROJECT.json`, "findings"):

1. adc.c:112, two overlapping reads of different minors: the second puts its channel in
   `adc_channel` while the conversion of the first is under way, the interrupt stores
   that sample under the second's channel and wakes it, and it returns a value of the
   other channel. `adc/readme.md:73` promises the requested channel.
2. adc.c:138, the button pressed while a thread waits: the scan consumes the
   interrupt, nobody wakes the thread. `adc/readme.md:68` promises the wake-up.
3. adc.c:112, during a scan a reader names its channel and is interrupted before it
   strobes (adc.c:103 to 107); the scan ends there and leaves `adc_channel` at 3, and the
   conversion the reader then starts stores into `adc_values[3]`. `adc_start`
   guards against such a channel (adc.c:94), `adc_interrupt` does not.
4. gpio-base.c:97, a reader that takes ten bytes at a time leaves `Message_Ptr` inside
   `Message`, and each further read formats the whole text from there, until it passes the end.

Four more disagreements follow from definitions of the models and have no run of
their own:

* `findPort` refuses J3.40 and J3.33, which gpio/readme.md:46 and 52 list
  (`SupportedPins`).
* gpio-base.c:81: "No port selected" is logged and the registers of no port are used
  all the same (`ReadBegin` has no guard for it). gpio/readme.md:181 says the bit
  is checked.
* gpio-base.c:94: a P3 pin's input bit is applied to the direction register, so that its
  `Direction` is that of another pin or of none (`DirectionOffP3` leaves them out).
  gpio/readme.md:98 to 114 lists a bit of its own for the direction.
* pwm.c:148: the range check is never true (`OutOfRange`), so a number out of 0 to 255
  changes the register.

### Bounds

* `Readers`: every hazard is between two threads, or a thread and the handlers.
  Threads beyond two add no new pair; the proofs hold for any number.
* `ADC_NUMCHANNELS` is 3 where order or completeness of a scan matters, else 2,
  which has a first and a last channel and one past the end. `MaxByte` is one
  past the array, so that the wrap of the index is reached at once.
* adc_overlap has one reader: a second one adds no new kind of step against the
  scan, and the theorem `ScanNeverStalls` covers any number.
* `MaxCommands` (GPIO) is 2: a command, or a call of gpiolib.c, and what an earlier one
  left, in all pairs. The calls name a wire of each of P0, P1, P2, P3 (both ends), GPI and
  GPO; those of P3 and GPO share an output register.
  `MaxWrites` (PWM) is 3: two overlapping writes and one before or after them.
* `Lengths` is 4096, the size `cat` asks for, and in gpio_threads 20, less than a text: two
  short reads bring the text past the middle of `Message`. gpio_overflow has 10.
  `BUF_LEN` is 80 as in the code, and texts have the 25 or 27 bytes they have with
  pins of two digits.
* `Naps` is {6} in gpio_threads: a call may sleep after six bytes, between the digits of
  the pin for a write, where its command is most easily completed by another's. Naps
  are shorter than a text, so that what `Message` holds behind its string does not
  matter; the theorems hold for every set of them. Every call may also stop before its
  first byte.
* `sysfs_max_data_size` is 2 and texts have 1, 2 and 3 bytes: below, at and above the size
  of the buffer, so that a copy can take the size of a longer and of a shorter store.
  Three threads: two that disturb each other, and one whose text is there before or
  after. The theorems hold for 1024 bytes and any number of threads.
* The interrupts of LpcIrq are two of SIC1, one with and one without an event, so that one
  can be switched off while the other remains, and one of SIC2. One of them has a number
  above another of its controller, so that the order in the loop matters. Those of the MIC itself
  reach the processor without a chained handler and are left out. A request has
  no type, a type the chip takes or one it refuses.
* `Values` has 130 and 256, in and above the range, with a value that needs its high bit
  and one that does not fit in eight bits; `Mixtures` has 13, the first digits of 130, and -1
  is what no number reads as. The theorems hold for every set of numbers.

No configuration uses symmetry or turns the deadlock check off.

### Fairness

`FairSpec` of AdcDriver has weak fairness on `ConversionDone` (the converter
finishes), `GpInterrupt` and `AdcInterrupt` (a pending, enabled interrupt is
taken) and on `ReadStep` of each thread (a runnable thread is scheduled). Nothing
forces a user to call or a button to be pressed, and signals have no fairness.
`FairSpec` of LpcIrq has weak fairness on `HandleChained` only: the handler runs with
interrupts off, so nothing takes the processor from it before its loop ends.
GPIO, PWM, life cycle and the sysfs files have no liveness properties: their calls do
not wait for one another.

## 4. Proofs

All theorems follow from the named assumptions on the constants
(`ConstantsAssumption`, `CommandsAssumption`, `UsersAssumption`, `SizesAssumption`,
`ThreadsAssumption`, `IrqsAssumption`) and the definitions.

| Theorem | Module | Statement |
|---|---|---|
| TypeCorrect | AdcProofs | `Spec => []TypeOK` |
| ScanNeverStalls | AdcProofs | `Spec => []ScanAlive` |
| NoReaderIsForgotten | AdcProofs | `Spec => []NoLostWakeup` |
| SerialUseIsOrderly | AdcRefinementProofs | `Spec => []SerialInv` |
| SerialReadsAreCorrect | AdcRefinementProofs | `Serial`: `Spec => []ReadReturnsRequested` |
| SerialScansAreComplete | AdcRefinementProofs | `Serial`: `Spec => ScanPrintsAllChannels` |
| OverrunNeedsOverlapAndButton | AdcRefinementProofs | without overlap, or without the button, `[]NoOverrun` |
| DriverImplementsService | AdcRefinementProofs | `Serial`: `Spec => ImplementsServiceSafely` |
| ScanIsMarked | AdcGpioProofs | `GpioSpec => []ScanMarked` |
| DeviceHasOneHolder | GpioProofs | `LibSpec => []OneHolder` |
| TypeCorrect | GpioProofs | `LibSpec => []TypeOK` |
| InputIsInvertedLevel | GpioProofs | `LibSpec => []ShowsInvertedInput` |
| DirectionIsWrongOnP3Only | GpioProofs | `LibSpec => []DirectionOffP3` |
| SelectionIsKept | GpioProofs | `LibSpec => SelectionStays` |
| DriverImplementsPins | GpioProofs | `LibSpec => ImplementsPins` |
| TypeCorrect | PwmProofs | `Spec => []TypeOK` |
| StaleRegistersLoseNothing | PwmProofs | `Spec => []SnapshotsAgree` |
| DriverImplementsPanel | PwmProofs | `Spec => ImplementsPanel` |
| ReferencesBalance | LifeProofs | `SysfsSpec => []RefsBalanced` |
| NothingCallsCodeThatIsGone | LifeProofs | `SysfsSpec => []CodeStays` |
| FailedLoadsLeaveNothing | LifeProofs | `SysfsSpec => []FailsCleanly` |
| BufferStaysTerminated | LifeProofs | `SysfsSpec => []StaysTerminated` |
| LastStoreIsShown | LifeProofs | `SysfsSpec => []ShowsLast` |
| TypeCorrect | LpcIrqProofs | `Spec => []TypeOK` |
| InterruptsStayDeliverable | LpcIrqProofs | `Spec => []Deliverable` |
| SleepersAreArmed | LpcIrqProofs | `Spec => []WakersArmed` |
| WakerIsNamed | LpcIrqProofs | `Spec => ResumeNamesWaker` |

The arguments:

* `TypeInv` is `TypeOK` and that a thread in a call has a file open; without the
  latter, `ADC_SELECT` could get the minor of no file.
* `ScanAlive` is inductive together with `TypeInv`: each interrupt of a scan
  either starts the next conversion or ends the scan, and a reader only ever
  stores a channel of the array.
* `NoLostWakeup` needs more than it says. Not only a sleeping thread but also
  one that is about to test the flag must have a conversion or a strobe ahead,
  as otherwise its test would put it to sleep with nothing to come; and all
  sleepers are woken in the step that sets the flag, so a set flag excludes
  sleepers. `WakeUpStep` proves this invariant.
* `OneAtATime` follows the one sample of a serial user through the converter,
  `ADC_VALUE` and `adc_values`, and says at each place which of `ADC_SELECT`,
  `adc_channel` and the caller's minor agree. It gives the reads, the scans, the
  absence of overruns and the refinement, in which `SelectChannel`,
  `NameChannel`, `StrobeChannel`, `WaitEvent` and `ConversionDone` stutter.
* `HolderInv` adds to `OneHolder` that the set of holders is finite.
* `TypeInv` of GpioProofs is `TypeOK`, with the part about `Message` (`BufferInv`) only until
  a handler goes past its end. Short reads make `Message_Ptr` creep towards it, so that
  nothing can be said of that part afterwards. It needs `HolderInv`, since a close takes
  one from the count, `CallInv`, that a call has copied or put no more bytes than it
  was asked for, and that every bit a command or call writes is that of a wire.
* The GPIO theorems rest on the lemmas of GpioTableProofs, which settle the tables for
  all pins at once. `RowsAreWires` goes through the 25 rows and says that each is the pin
  and the bits of one wire (`PortOf`), but for the two under jumper 4, which no lookup
  returns. Pins and wires determine each other (`PinsDiffer`,
  `WireOfPin`), so the first row the loop finds is the right one (`FindPortIsRight`), in
  the table for reading as well (`PortToReadIsRight`). That two wires never share a direction, an
  output or an input bit (`DirBitsDiffer`, `OutBitsDiffer`, `InBitsDiffer`), the wires
  only gpiolib.c knows included, comes down to powers of two; these the prover knows
  by value only, one to 2^30.
* `SelectInv` says that `selectedPort` is no port or the row for reading of a pin the
  tables know. What `read()` then shows is the input bit of that pin, which is 1 only if
  its own wire is high. The same row has the direction bit of the pin unless
  the pin is one of P3: `DirectionIsWrongOnP3Only` says that the mistake in
  gpio-base.c:94 concerns these four pins and no others.
* `DriverImplementsPins`: each step of a handler is a step of `GpioPins`, because the bit
  it writes is that of the pin it parsed (`DirectionOfOnePin`, `OutputOfOnePin`). What it
  parsed needs `CopyInv`: whatever a call copies while another is in the middle of its
  command disturbs that other, so bytes 6 and 7 of an undisturbed command, as far as it got,
  are its own. With a newline or blanks behind the pin they hold no digit, and the
  command is taken for itself; without, they may add a digit or two
  (`ScannedIsTaken`). `Proceed` and `Enter` of `GpioPins` are the steps in which calls sleep.
* `PwmInv` joins `SnapshotsAgree` with the types and `OneFile`: one file is open,
  and all calls use it, so all write the field that they do not need to agree on.
* `PanelInv` adds to `PwmInv` what nobody can do to a call without disturbing it
  (`AloneInv`): an undisturbed write read the registers as they are and, once it copies, has
  its number in `Message`; the text of an undisturbed read shows the setting as it is. With
  it each step is one of `PwmPanel`: `EndSetsOne` says that a parse changes one setting,
  `ToggledEncodes` that the exclusive or with a fresh register is the value asked for,
  `TextShowsSetting` that the text is the setting, and `DivisionsCompose` that dividing
  twice loses nothing. `TextInv`, `OpenInv` and `IdleInv` tie the text, the open
  minor and the number asked for to the state of the driver.
* `MarkInv` says that the pin of the channel a scan has reached is high, or that a reader
  that named this channel still has its strobe or its pin ahead. The handler clears
  the pin of the old channel before it sets that of the next, and a reader's steps
  only turn one of the two cases into the other.
* `LifeInv` says for each init and exit function what is registered at each of its
  steps, by the order of the code, and that whoever has the ADC device open holds its
  module: that is what keeps `stray` false. `RefsBalanced` counts users by their
  place, and `UserMoves` says how the counts change when one user moves.
* `BufferInv` has the NUL in the last cell. Every size a store can see, its own or
  another's, has been clamped, so no copy reaches the last cell except with a NUL
  behind it. `AloneInv` follows a store that nobody overlaps through its steps, so that
  the size it sees is its own; `LastInv` is what it leaves, which the first step of
  the next store gives up.
* `WakeInv` says that `wakeup_irqs` is what the kernel asked for, and the interrupt of a
  sub controller exactly while one behind it is there; it makes `DisableWake` right in any
  order. `SleepInv` says what suspend has saved, and that the events latched during sleep
  are the ones that happened during sleep: from it a single enabled event is the single
  bit resume finds. `WriteBackInv` says that what `adc_init` is about to write back
  contains every interrupt of SIC1 in use but those of `raced`, which were requested after
  it read: handlers that run in between unmask what they mask.

Only model-checked: the liveness properties (`SleeperWoken`, `ScanEnds`,
`SomeReaderReturns`, `HandlerEnds`, the fairness of `ImplementsService`), which the
prover does not handle. Every other property of a passing run is the statement of a
theorem.

## 5. Not modelled

* Electrical and clock set-up of the converter in `adc_init`, the multiplexer
  registers in `gpio_init_ports`: written once and read by nothing in the code.
* Texts, log lines and the number of digits. `device_read` of adc.c ignores the
  caller's length; since the value is abstract the model cannot tell.
* Interrupts of the MIC in `LpcIrq`, and the processor's fast interrupts: no code here treats
  them. `gpio_get_value`, `gpio_to_irq` and `wakeup_event_show` change nothing. AdcDriver
  does not extend LpcIrq; it assumes of the controller what `Deliverable` says, that
  its interrupts are unmasked, and that a pending one is latched.
* `something.c`, `rtc.c`, the HelloWorld modules: no state and no concurrency.
* The registers the commands r and w of peekpoke.c read and write, which are any: the model
  knows whose command came last.
* Reads of adc.c while its `adc_init` has not yet got the interrupts, and the power-up
  of the converter: ModuleLife and AdcDriver each cover one side.
* Preemption inside a GPIO or PWM handler elsewhere than at accesses to user memory
  (section 2).
* In GPIO: writes that are shorter than a command, the empty one included; what lies
  behind `Message` once a handler has left it; the bytes that a short or disturbed read
  delivers.
* In PWM: more than three threads in the file at once, and reads shorter than the text,
  which let the texts creep past the end of `Message` as in GPIO; numbers without a newline.

## 6. Plan

Done, in this order: AdcDriver, AdcService and AdcRefinement with their proofs,
because sleeping, interrupts and sharing meet there; GpioPorts, GpioDriver and
GpioPins with proofs; PwmDriver and PwmPanel with proofs; ModuleLife; AdcGpio;
LpcIrq with proofs; GpioLib; SysfsBuffer; the proofs of ModuleLife, SysfsBuffer and
AdcGpio, and that the PWM driver implements its panel; the lemmas about the GPIO
tables, the types and reads of the GPIO driver and that it implements GpioPins.

What is left:

1. A join of the ADC life cycle and reads: `cdev_add` publishes the device before
   `adc_init` requests the interrupts (adc.c:228), and a failed request is
   ignored (adc.c:75), so a read may wait for an interrupt nobody handles.
2. The unlocked test and increment of `deviceIsOpen` (gpio-base.c:54, pwm.c:36)
   under preemption.
3. Further disagreements met while reading: a scan disturbed by an overlapping
   read (adc/readme.md:75), the ignored signal (adc.c:168), the
   comparison of the unsigned `wakeupirq` with 0 (irq.c:371); and runs for the four of
   section 3 that have none.
4. Proofs: what `read()` of es6_gpio does with short reads, that is, how far the text
   creeps for readers of a given length.
