----------------------------- MODULE ModuleLife -----------------------------
(***************************************************************************)
(* How the kernel modules of this repository are loaded, used and removed: *)
(* adc.c, gpio-base.c, pwm.c, peekpoke.c and freddy.c.  An init function   *)
(* registers one thing after the other, each of which can fail and each of *)
(* which users can reach at once; an exit function takes them back.        *)
(*                                                                         *)
(* The modules share nothing here, so a behaviour is about one of them.    *)
(***************************************************************************)
EXTENDS Integers, Sequences, FiniteSets

CONSTANTS Users, Modules

ASSUME ModulesAssumption == Modules \subseteq {"adc", "gpio", "pwm", "peekpoke", "freddy"}
ASSUME UsersAssumption == IsFiniteSet(Users)

VARIABLES
  module,   \* the module this behaviour is about
  state,    \* "absent", "loading", "live" or "unloading"
  step,     \* how far the init or exit function has come
  held,     \* what the loaded module has registered
  leaked,   \* what an init that failed has left registered
  refs,     \* the module's reference count
  user,     \* per user: its place in open() and close()
  stray     \* code of the module was called when it was not in memory

vars == <<module, state, step, held, leaked, refs, user, stray>>

-----------------------------------------------------------------------------
(* What the init functions register, and what the exit functions take back, *)
(* in the order of the code.                                                *)

adcdev_init   == <<"region", "cdev", "ts_irq", "gpi_irq">>
gpio_init     == <<"chrdev", "kobject", "group">>
pwm_init      == <<"chrdev">>
peekpoke_init == <<"kobject", "group">>
freddy_init   == <<"kobject", "group">>

\* Deviation: the exit function forgets the interrupts.
adc_cleanup_only == <<"cdev", "region">>

adc_cleanup   == <<"cdev", "region", "gpi_irq", "ts_irq">>
gpio_exit     == <<"kobject", "chrdev">>
pwm_cleanup   == <<"chrdev">>
peekpoke_exit == <<"kobject">>
freddy_exit   == <<"kobject">>

InitPlan == CASE module = "adc" -> adcdev_init [] module = "gpio" -> gpio_init
              [] module = "pwm" -> pwm_init [] module = "peekpoke" -> peekpoke_init
              [] module = "freddy" -> freddy_init
ExitPlan == CASE module = "adc" -> adc_cleanup [] module = "gpio" -> gpio_exit
              [] module = "pwm" -> pwm_cleanup [] module = "peekpoke" -> peekpoke_exit
              [] module = "freddy" -> freddy_exit

\* request_irq may fail and adc_init goes on.
Optional == {"ts_irq", "gpi_irq"}

\* Deviation: a group that cannot be created leaves its kobject behind.
NothingUndone(thing) == {}

\* kobject_put, when sysfs_create_group has failed.
Undone(thing) == IF thing = "group" THEN {"kobject"} ELSE {}

\* A kobject takes its group with it.
Unregistered(thing) == IF thing = "kobject" THEN {"kobject", "group"} ELSE {thing}

\* A fixed major is taken once; alloc_chrdev_region finds a free one.
MayRegister(thing) == thing = "chrdev" => "chrdev" \notin leaked

\* Deviation: file_operations without an owner.
NoOwner == FALSE

\* fops.owner = THIS_MODULE: the kernel counts open files, and device_open
\* and device_release of adc.c count them once more.
HasOwner == module = "adc"

Init ==
  /\ module \in Modules
  /\ state = "absent"
  /\ step = 0
  /\ held = {}
  /\ leaked = {}
  /\ refs = 0
  /\ user = [u \in Users |-> "closed"]
  /\ stray = FALSE

-----------------------------------------------------------------------------
(* Loading and unloading.                                                   *)

Load ==
  /\ state = "absent"
  /\ state' = "loading"
  /\ step' = 1
  /\ UNCHANGED <<module, held, leaked, refs, user, stray>>

Advance == IF step = Len(InitPlan)
           THEN state' = "live" /\ step' = 0
           ELSE step' = step + 1 /\ UNCHANGED state

Register ==
  /\ state = "loading"
  /\ MayRegister(InitPlan[step])
  /\ held' = held \cup {InitPlan[step]}
  /\ Advance
  /\ UNCHANGED <<module, leaked, refs, user, stray>>

\* The failure is logged only.
GoOnWithout ==
  /\ state = "loading"
  /\ InitPlan[step] \in Optional
  /\ Advance
  /\ UNCHANGED <<module, held, leaked, refs, user, stray>>

\* Init returns an error and the kernel frees the module.
GiveUp ==
  /\ state = "loading"
  /\ InitPlan[step] \notin Optional
  /\ state' = "absent"
  /\ step' = 0
  /\ leaked' = leaked \cup (held \ Undone(InitPlan[step]))
  /\ held' = {}
  /\ UNCHANGED <<module, refs, user, stray>>

\* rmmod of a module without references.
Unload ==
  /\ state = "live"
  /\ refs = 0
  /\ state' = "unloading"
  /\ step' = 1
  /\ UNCHANGED <<module, held, leaked, refs, user, stray>>

\* free_irq of an interrupt that was not granted changes nothing.
Unregister ==
  /\ state = "unloading"
  /\ held' = held \ Unregistered(ExitPlan[step])
  /\ IF step = Len(ExitPlan)
     THEN state' = "absent" /\ step' = 0
     ELSE step' = step + 1 /\ UNCHANGED state
  /\ UNCHANGED <<module, leaked, refs, user, stray>>

-----------------------------------------------------------------------------
(* Users of a character device.                                             *)

Published == (held \cup leaked) \cap {"cdev", "chrdev"} # {}

\* The module's code runs.
Runs == stray' = (stray \/ state = "absent")

\* try_module_get succeeds unless the module is being removed.
MayGet == state \in {"loading", "live"}

\* chrdev_open finds the device and takes the kernel's reference.
Find(u) ==
  /\ user[u] = "closed"
  /\ Published
  /\ HasOwner => MayGet
  /\ refs' = IF HasOwner THEN refs + 1 ELSE refs
  /\ user' = [user EXCEPT ![u] = "opening"]
  /\ UNCHANGED <<module, state, step, held, leaked, stray>>

\* device_open; that of adc.c takes a reference of its own and does not look
\* whether it got one.
DeviceOpen(u) ==
  /\ user[u] = "opening"
  /\ Runs
  /\ refs' = IF module = "adc" /\ MayGet THEN refs + 1 ELSE refs
  /\ user' = [user EXCEPT ![u] = "open"]
  /\ UNCHANGED <<module, state, step, held, leaked>>

\* device_read or device_write.
Call(u) ==
  /\ user[u] = "open"
  /\ Runs
  /\ UNCHANGED <<module, state, step, held, leaked, refs, user>>

\* Deviation: device_release forgets module_put.
Kept(references) == references

\* module_put, which only adc.c calls.
Released(references) == IF module = "adc" THEN references - 1 ELSE references

DeviceRelease(u) ==
  /\ user[u] = "open"
  /\ Runs
  /\ refs' = Released(refs)
  /\ user' = [user EXCEPT ![u] = "closing"]
  /\ UNCHANGED <<module, state, step, held, leaked>>

\* The kernel drops its reference.
Drop(u) ==
  /\ user[u] = "closing"
  /\ refs' = IF HasOwner THEN refs - 1 ELSE refs
  /\ user' = [user EXCEPT ![u] = "closed"]
  /\ UNCHANGED <<module, state, step, held, leaked, stray>>

\* An interrupt handler, or show and store of an attribute.
Enter ==
  /\ (held \cup leaked) \cap {"ts_irq", "gpi_irq", "group"} # {}
  /\ Runs
  /\ UNCHANGED <<module, state, step, held, leaked, refs, user>>

-----------------------------------------------------------------------------

Next ==
  \/ Load \/ Register \/ GoOnWithout \/ GiveUp
  \/ Unload \/ Unregister
  \/ Enter
  \/ \E u \in Users : Find(u) \/ DeviceOpen(u) \/ Call(u) \/ DeviceRelease(u) \/ Drop(u)

Spec == Init /\ [][Next]_vars

-----------------------------------------------------------------------------

UsersIn(places, place) == Cardinality({u \in Users : places[u] = place})

\* The reference count of adc.c is what its open files account for: when the
\* last is closed the module can be removed, and not before.
RefsBalanced ==
  refs = IF module = "adc"
         THEN UsersIn(user, "opening") + 2 * UsersIn(user, "open") + UsersIn(user, "closing")
         ELSE 0

\* No open file, interrupt or attribute of these modules reaches their code
\* after it has left memory, whatever failed while they were loaded.
CodeStays == module \in {"adc", "peekpoke", "freddy"} => ~stray

\* When one of these modules cannot be loaded, nothing of it stays behind.
FailsCleanly == module \in {"pwm", "peekpoke", "freddy"} => leaked = {}

=============================================================================
