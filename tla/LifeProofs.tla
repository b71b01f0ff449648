----------------------------- MODULE LifeProofs -----------------------------
(***************************************************************************)
(* Theorems about the life of the modules and about the sysfs files of two *)
(* of them, for every number of users and threads and every size of the    *)
(* buffer and of the texts.                                                *)
(***************************************************************************)
EXTENDS SysfsBuffer, FiniteSetTheorems, TLAPS

Places == {"closed", "opening", "open", "closing"}

\* One user goes from one place to another.
Moves(f, g, u, a, b) ==
  f \in [Users -> Places] /\ f[u] = a /\ a # b /\ g = [f EXCEPT ![u] = b]

\* When one user moves from a place to another, one count falls and one rises.
LEMMA UserMoves ==
  ASSUME NEW f, NEW g, NEW u \in Users, NEW a, NEW b, Moves(f, g, u, a, b)
  PROVE  /\ UsersIn(g, a) = UsersIn(f, a) - 1
         /\ UsersIn(g, b) = UsersIn(f, b) + 1
         /\ \A c \in Places \ {a, b} : UsersIn(g, c) = UsersIn(f, c)
<1> DEFINE from == {v \in Users : f[v] = a}
           to   == {v \in Users : f[v] = b}
<1> USE DEF Moves
<1>1. IsFiniteSet(from) /\ IsFiniteSet(to)
  BY FS_Subset, UsersAssumption
<1>2. {v \in Users : g[v] = a} = from \ {u} /\ u \in from
  OBVIOUS
<1>3. {v \in Users : g[v] = b} = to \cup {u} /\ u \notin to
  OBVIOUS
<1>4. \A c \in Places \ {a, b} : {v \in Users : g[v] = c} = {v \in Users : f[v] = c}
  OBVIOUS
<1>5. Cardinality(from \ {u}) = Cardinality(from) - 1
  <2> HIDE DEF from
  <2> QED
    BY <1>1, <1>2, FS_RemoveElement
<1>6. Cardinality(to \cup {u}) = Cardinality(to) + 1
  <2> HIDE DEF to
  <2> QED
    BY <1>1, <1>3, FS_AddElement
<1>7. UsersIn(g, a) = UsersIn(f, a) - 1
  BY <1>2, <1>5 DEF UsersIn
<1>8. UsersIn(g, b) = UsersIn(f, b) + 1
  BY <1>3, <1>6 DEF UsersIn
<1>9. \A c \in Places \ {a, b} : UsersIn(g, c) = UsersIn(f, c)
  BY <1>4 DEF UsersIn
<1> QED
  BY <1>7, <1>8, <1>9

\* A number of users is a number, and is 0 only if there is no such user.
LEMMA UsersCounted ==
  ASSUME NEW f, NEW c
  PROVE  /\ UsersIn(f, c) \in Nat
         /\ UsersIn(f, c) = 0 => \A u \in Users : f[u] # c
<1> DEFINE S == {v \in Users : f[v] = c}
<1>1. IsFiniteSet(S)
  BY FS_Subset, UsersAssumption
<1>2. Cardinality(S) \in Nat /\ (Cardinality(S) = 0 <=> S = {})
  BY <1>1, FS_CardinalityType, FS_EmptySet
<1> QED
  BY <1>2 DEF UsersIn

-----------------------------------------------------------------------------

Attributed == {"peekpoke", "freddy"}

\* The ADC driver: what is registered at each step of its init and exit, and
\* that whoever has it open keeps it loaded.
AdcInv ==
  module = "adc" =>
    /\ leaked \subseteq {"region"}
    /\ held \subseteq {"region", "cdev", "ts_irq", "gpi_irq"}
    /\ state = "absent" => held = {}
    /\ state = "loading" => step \in 1 .. 4 /\ (step = 1 => held = {})
                                            /\ (step = 2 => held \subseteq {"region"})
    /\ state = "unloading" => step \in 1 .. 4 /\ (step >= 2 => "cdev" \notin held)
                                              /\ (step >= 3 => "region" \notin held)
                                              /\ (step >= 4 => "gpi_irq" \notin held)
    /\ \A u \in Users : user[u] # "closed" => state = "live" \/ (state = "loading" /\ step >= 3)

\* The PWM driver registers one thing.
PwmInv ==
  module = "pwm" =>
    /\ leaked = {}
    /\ held \subseteq {"chrdev"}
    /\ state = "absent" => held = {}
    /\ state = "loading" => step = 1 /\ held = {}
    /\ state = "unloading" => step = 1

\* The two modules with a sysfs file have no device to open.
AttributeInv ==
  module \in Attributed =>
    /\ leaked = {}
    /\ held \subseteq {"kobject", "group"}
    /\ state = "absent" => held = {}
    /\ state = "loading" => step \in 1 .. 2 /\ (step = 1 => held = {})
                                            /\ (step = 2 => held = {"kobject"})
    /\ state = "unloading" => step = 1
    /\ \A u \in Users : user[u] = "closed"

LifeInv ==
  /\ module \in Modules
  /\ state \in {"absent", "loading", "live", "unloading"}
  /\ user \in [Users -> Places]
  /\ AdcInv
  /\ PwmInv
  /\ AttributeInv
  /\ RefsBalanced
  /\ CodeStays

\* What a module has registered, by its name.
LEMMA Plans ==
  /\ module = "adc" => InitPlan = adcdev_init /\ ExitPlan = adc_cleanup
  /\ module = "gpio" => InitPlan = gpio_init /\ ExitPlan = gpio_exit
  /\ module = "pwm" => InitPlan = pwm_init /\ ExitPlan = pwm_cleanup
  /\ module = "peekpoke" => InitPlan = peekpoke_init /\ ExitPlan = peekpoke_exit
  /\ module = "freddy" => InitPlan = freddy_init /\ ExitPlan = freddy_exit
BY DEF InitPlan, ExitPlan

\* A module that is not loaded satisfies the invariant.
LEMMA LifeInit == Init => LifeInv
<1> SUFFICES ASSUME Init PROVE LifeInv
  OBVIOUS
<1>1. user \in [Users -> Places] /\ \A u \in Users : user[u] = "closed"
  BY DEF Init, Places
<1>2. \A c \in Places \ {"closed"} : UsersIn(user, c) = 0
  <2> SUFFICES ASSUME NEW c \in Places \ {"closed"} PROVE UsersIn(user, c) = 0
    OBVIOUS
  <2>1. {u \in Users : user[u] = c} = {}
    BY <1>1
  <2> QED
    BY <2>1, FS_EmptySet DEF UsersIn
<1>3. RefsBalanced
  BY <1>2 DEF RefsBalanced, Init, Places
<1> QED
  BY <1>1, <1>3 DEF Init, LifeInv, AdcInv, PwmInv, AttributeInv, CodeStays

\* A module that nobody refers to is not open.
LEMMA Unused ==
  ASSUME LifeInv, module = "adc", refs = 0
  PROVE  \A u \in Users : user[u] = "closed"
<1>1. /\ UsersIn(user, "opening") \in Nat /\ UsersIn(user, "open") \in Nat /\ UsersIn(user, "closing") \in Nat
      /\ UsersIn(user, "opening") + 2 * UsersIn(user, "open") + UsersIn(user, "closing") = 0
  BY UsersCounted DEF LifeInv, RefsBalanced
<1>2. UsersIn(user, "opening") = 0 /\ UsersIn(user, "open") = 0 /\ UsersIn(user, "closing") = 0
  BY <1>1
<1>3. \A u \in Users : user[u] # "opening" /\ user[u] # "open" /\ user[u] # "closing"
  BY <1>2, UsersCounted
<1> QED
  BY <1>3 DEF LifeInv, Places

-----------------------------------------------------------------------------
(* Loading and unloading.                                                   *)

\* What is registered and taken back keeps to the plans.
LEMMA LoadingStep ==
  ASSUME LifeInv, Load \/ Register \/ GoOnWithout \/ GiveUp \/ Unload \/ Unregister
  PROVE  LifeInv'
<1> USE DEF LifeInv
<1>1. module' = module /\ user' = user /\ refs' = refs /\ stray' = stray
  BY DEF Load, Register, GoOnWithout, GiveUp, Unload, Unregister
<1>2. RefsBalanced' /\ CodeStays'
  BY <1>1 DEF RefsBalanced, CodeStays
<1>3. state' \in {"absent", "loading", "live", "unloading"}
  BY DEF Load, Register, Advance, GoOnWithout, GiveUp, Unload, Unregister
<1>4. AdcInv'
  <2> SUFFICES ASSUME module = "adc" PROVE AdcInv'
    BY <1>1 DEF AdcInv
  <2>1. InitPlan = adcdev_init /\ ExitPlan = adc_cleanup
    BY Plans
  <2>2. CASE Load
    BY <2>2 DEF Load, AdcInv
  <2>3. CASE Register
    BY <2>1, <2>3 DEF Register, Advance, AdcInv, adcdev_init
  <2>4. CASE GoOnWithout
    BY <2>1, <2>4 DEF GoOnWithout, Advance, AdcInv, adcdev_init, Optional
  <2>5. CASE GiveUp
    <3>1. step \in {1, 2}
      BY <2>1, <2>5 DEF GiveUp, AdcInv, adcdev_init, Optional
    <3> QED
      BY <2>5, <3>1 DEF GiveUp, AdcInv
  <2>6. CASE Unload
    <3>1. \A u \in Users : user[u] = "closed"
      BY <2>6, Unused DEF Unload
    <3> QED
      BY <2>6, <3>1 DEF Unload, AdcInv
  <2>7. CASE Unregister
    BY <2>1, <2>7 DEF Unregister, Unregistered, AdcInv, adc_cleanup
  <2> QED
    BY <2>2, <2>3, <2>4, <2>5, <2>6, <2>7
<1>5. PwmInv'
  <2> SUFFICES ASSUME module = "pwm" PROVE PwmInv'
    BY <1>1 DEF PwmInv
  <2>1. InitPlan = pwm_init /\ ExitPlan = pwm_cleanup
    BY Plans
  <2>2. CASE Load \/ Register \/ GoOnWithout
    BY <2>1, <2>2 DEF Load, Register, GoOnWithout, Advance, PwmInv, pwm_init, Optional
  <2>3. CASE GiveUp \/ Unload \/ Unregister
    BY <2>1, <2>3 DEF GiveUp, Unload, Unregister, Unregistered, PwmInv, pwm_init, pwm_cleanup
  <2> QED
    BY <2>2, <2>3
<1>6. AttributeInv'
  <2> SUFFICES ASSUME module \in Attributed PROVE AttributeInv'
    BY <1>1 DEF AttributeInv
  <2>1. InitPlan = <<"kobject", "group">> /\ ExitPlan = <<"kobject">>
    BY Plans DEF Attributed, peekpoke_init, freddy_init, peekpoke_exit, freddy_exit
  <2>2. CASE Load \/ Register \/ GoOnWithout
    BY <2>1, <2>2 DEF Load, Register, GoOnWithout, Advance, AttributeInv, Optional
  <2>3. CASE GiveUp
    BY <2>1, <2>3 DEF GiveUp, Undone, AttributeInv
  <2>4. CASE Unload \/ Unregister
    BY <2>1, <2>4 DEF Unload, Unregister, Unregistered, AttributeInv
  <2> QED
    BY <2>2, <2>3, <2>4
<1> QED
  BY <1>1, <1>2, <1>3, <1>4, <1>5, <1>6

-----------------------------------------------------------------------------
(* Users.                                                                   *)

\* A user's step moves one user, and the references follow.
LEMMA UserStep ==
  ASSUME LifeInv,
         NEW u \in Users, Find(u) \/ DeviceOpen(u) \/ Call(u) \/ DeviceRelease(u) \/ Drop(u)
  PROVE  LifeInv'
<1> USE DEF LifeInv
<1>1. UNCHANGED <<module, state, step, held, leaked>>
  BY DEF Find, DeviceOpen, Call, DeviceRelease, Drop
<1>2. user' \in [Users -> Places]
  BY DEF Find, DeviceOpen, Call, DeviceRelease, Drop, Places
<1>3. module = "adc" /\ (user[u] # "closed" \/ Find(u)) => state = "live" \/ (state = "loading" /\ step >= 3)
  <2>1. CASE user[u] # "closed"
    BY <2>1 DEF AdcInv
  <2>2. CASE module = "adc" /\ Find(u)
    BY <2>2 DEF Find, Published, HasOwner, MayGet, AdcInv
  <2> QED
    BY <2>1, <2>2
<1>4. module \in Attributed => user[u] = "closed" /\ ~Find(u)
  BY DEF AttributeInv, Find, Published
<1>5. user[u] # "closed" \/ Find(u)
  BY DEF DeviceOpen, Call, DeviceRelease, Drop
<1>6. module \notin Attributed
  BY <1>4, <1>5
<1>7. AttributeInv' /\ PwmInv'
  BY <1>1, <1>6 DEF AttributeInv, PwmInv
<1>8. AdcInv'
  <2> SUFFICES ASSUME module = "adc" PROVE AdcInv'
    BY <1>1 DEF AdcInv
  <2>1. state = "live" \/ (state = "loading" /\ step >= 3)
    BY <1>3, <1>5
  <2> QED
    BY <1>1, <2>1 DEF AdcInv
<1>9. CodeStays'
  <2>1. module = "adc" => ~stray'
    <3>1. module = "adc" => state # "absent"
      BY <1>3, <1>5
    <3> QED
      BY <3>1 DEF Find, DeviceOpen, Call, DeviceRelease, Drop, Runs, CodeStays
  <2> QED
    BY <1>1, <1>6, <2>1 DEF CodeStays, Attributed
<1>10. RefsBalanced'
  <2>1. CASE module # "adc"
    BY <1>1, <2>1 DEF RefsBalanced, Find, DeviceOpen, Call, DeviceRelease, Drop, HasOwner, Released
  <2>2. CASE module = "adc"
    <3>1. MayGet
      BY <1>3, <1>5, <2>2 DEF MayGet
    <3>2. \A c : UsersIn(user, c) \in Nat
      BY UsersCounted
    <3>3. refs = UsersIn(user, "opening") + 2 * UsersIn(user, "open") + UsersIn(user, "closing")
      BY <2>2 DEF RefsBalanced
    <3> SUFFICES refs' = UsersIn(user', "opening") + 2 * UsersIn(user', "open") + UsersIn(user', "closing")
      BY <1>1, <2>2 DEF RefsBalanced
    <3>4. CASE Find(u)
      <4>1. Moves(user, user', u, "closed", "opening") /\ refs' = refs + 1
        BY <2>2, <3>4 DEF Moves, Find, HasOwner
      <4>2. /\ UsersIn(user', "opening") = UsersIn(user, "opening") + 1
            /\ \A c \in {"open", "closing"} : UsersIn(user', c) = UsersIn(user, c)
        BY <4>1, UserMoves DEF Places
      <4> QED
        BY <3>2, <3>3, <4>1, <4>2
    <3>5. CASE DeviceOpen(u)
      <4>1. Moves(user, user', u, "opening", "open") /\ refs' = refs + 1
        BY <2>2, <3>1, <3>5 DEF Moves, DeviceOpen
      <4>2. /\ UsersIn(user', "opening") = UsersIn(user, "opening") - 1
            /\ UsersIn(user', "open") = UsersIn(user, "open") + 1
            /\ UsersIn(user', "closing") = UsersIn(user, "closing")
        BY <4>1, UserMoves DEF Places
      <4> QED
        BY <3>2, <3>3, <4>1, <4>2
    <3>6. CASE Call(u)
      BY <3>3, <3>6 DEF Call
    <3>7. CASE DeviceRelease(u)
      <4>1. Moves(user, user', u, "open", "closing") /\ refs' = refs - 1
        BY <2>2, <3>7 DEF Moves, DeviceRelease, Released
      <4>2. /\ UsersIn(user', "open") = UsersIn(user, "open") - 1
            /\ UsersIn(user', "closing") = UsersIn(user, "closing") + 1
            /\ UsersIn(user', "opening") = UsersIn(user, "opening")
        BY <4>1, UserMoves DEF Places
      <4> QED
        BY <3>2, <3>3, <4>1, <4>2
    <3>8. CASE Drop(u)
      <4>1. Moves(user, user', u, "closing", "closed") /\ refs' = refs - 1
        BY <2>2, <3>8 DEF Moves, Drop, HasOwner
      <4>2. /\ UsersIn(user', "closing") = UsersIn(user, "closing") - 1
            /\ \A c \in {"open", "opening"} : UsersIn(user', c) = UsersIn(user, c)
        BY <4>1, UserMoves DEF Places
      <4> QED
        BY <3>2, <3>3, <4>1, <4>2
    <3> QED
      BY <3>4, <3>5, <3>6, <3>7, <3>8
  <2> QED
    BY <2>1, <2>2
<1>11. module' \in Modules /\ state' \in {"absent", "loading", "live", "unloading"}
  BY <1>1
<1> QED
  BY <1>2, <1>7, <1>8, <1>9, <1>10, <1>11

\* Every step of a module's life keeps the invariant.
LEMMA LifeNext ==
  ASSUME LifeInv, [Next]_vars
  PROVE  LifeInv'
<1>1. CASE Enter
  <2>1. module \in {"adc", "peekpoke", "freddy"} => state # "absent"
    BY <1>1 DEF Enter, LifeInv, AdcInv, AttributeInv, Attributed
  <2> QED
    BY <1>1, <2>1 DEF Enter, Runs, LifeInv, AdcInv, PwmInv, AttributeInv, RefsBalanced, CodeStays
<1>2. CASE UNCHANGED vars
  BY <1>2 DEF vars, LifeInv, AdcInv, PwmInv, AttributeInv, RefsBalanced, CodeStays
<1> QED
  BY <1>1, <1>2, LoadingStep, UserStep DEF Next

-----------------------------------------------------------------------------
(* The sysfs files.                                                         *)

CallType ==
  [place : {"idle", "entered", "sized", "copied", "again"}, rest : Nat, size : Cells,
   pokes : BOOLEAN, alone : BOOLEAN]

BufferInv ==
  /\ call \in [Threads -> CallType]
  /\ used_buffer_size \in Cells
  /\ DOMAIN sysfs_buffer = Cells
  /\ sysfs_buffer[sysfs_max_data_size] = NUL
  /\ \A t \in Threads : Active(t) => Reachable

\* The buffer holds one author's text of this size.
Holds(buffer, author, size) ==
  /\ size \in Cells
  /\ author # NUL
  /\ buffer[size] = NUL
  /\ \A i \in Cells : i < size => buffer[i] = author

\* How far a store has come that no other has overlapped.
AloneInv ==
  \A t \in Threads :
    call[t].alone /\ Active(t) =>
      /\ \A u \in Threads \ {t} : ~Active(u)
      /\ module = "peekpoke" /\ call[t].pokes => register = t
      /\ call[t].place \in {"sized", "copied"} =>
           used_buffer_size = call[t].size /\ call[t].size <= call[t].rest
      /\ call[t].place = "copied" =>
           \A i \in Cells : i < call[t].size => sysfs_buffer[i] = t

LastInv ==
  last # Unknown =>
    /\ \A t \in Threads : ~Active(t)
    /\ Holds(sysfs_buffer, last.author, last.size)
    /\ module = "peekpoke" /\ last.pokes => register = last.author

SysfsInv == LifeInv /\ BufferInv /\ AloneInv /\ LastInv

\* Sizes that the stores clamp are places in the buffer.
LEMMA CellFacts ==
  /\ sysfs_max_data_size \in Cells /\ 0 \in Cells /\ Cells \subseteq Nat
  /\ \A n \in Nat : Clamped(n) \in Cells /\ Clamped(n) <= n
  /\ InitialSize \in Cells
BY SizesAssumption DEF Cells, Clamped, SmallerOf, InitialSize

\* A module is loaded with a text in its buffer.
LEMMA LoadedHolds ==
  /\ Holds(Loaded(InitialSize), Ours, InitialSize)
  /\ DOMAIN Loaded(InitialSize) = Cells
  /\ Loaded(InitialSize)[sysfs_max_data_size] = NUL
<1>1. \A i \in Cells : i <= sysfs_max_data_size
  BY SizesAssumption DEF Cells
<1> QED
  BY <1>1, CellFacts DEF Holds, Loaded, Ours, NUL, Cells

\* The buffer as it was compiled satisfies the invariant.
LEMMA SysfsInitial == SysfsInit => SysfsInv
<1> SUFFICES ASSUME SysfsInit PROVE SysfsInv
  OBVIOUS
<1>1. LifeInv
  BY LifeInit DEF SysfsInit
<1>2. \A t \in Threads : call[t] = Idle /\ ~Active(t)
  BY DEF SysfsInit, Idle, Active
<1>3. Idle \in CallType
  BY CellFacts DEF Idle, CallType
<1>4. BufferInv
  BY <1>2, <1>3, CellFacts, LoadedHolds DEF SysfsInit, BufferInv
<1>5. AloneInv
  BY <1>2 DEF AloneInv
<1>6. LastInv
  BY <1>2, LoadedHolds DEF SysfsInit, LastInv, Text
<1> QED
  BY <1>1, <1>4, <1>5, <1>6 DEF SysfsInv

\* The life of the module leaves a file that is in use alone.
LEMMA LifeStep ==
  ASSUME SysfsInv, Life
  PROVE  SysfsInv'
<1> USE DEF SysfsInv
<1>1. LifeInv'
  BY LifeNext DEF Life
<1>2. module' = module
  BY DEF Life, Next, Load, Register, GoOnWithout, GiveUp, Unload, Unregister, Enter,
         Find, DeviceOpen, Call, DeviceRelease, Drop
<1>3. CASE state = "absent" /\ state' = "loading"
  <2>1. Reloaded
    BY <1>3 DEF Life
  <2>2. InitialSize' = InitialSize /\ Loaded(InitialSize)' = Loaded(InitialSize)
    BY <1>2 DEF InitialSize, Loaded
  <2>3. \A t \in Threads : call'[t] = Idle /\ ~Active(t)'
    BY <2>1 DEF Reloaded, Idle, Active
  <2>4. Idle \in CallType
    BY CellFacts DEF Idle, CallType
  <2>5. BufferInv'
    BY <2>1, <2>2, <2>3, <2>4, CellFacts, LoadedHolds DEF Reloaded, BufferInv
  <2>6. AloneInv'
    BY <2>3 DEF AloneInv
  <2>7. LastInv'
    BY <2>1, <2>2, <2>3, LoadedHolds DEF Reloaded, LastInv, Text
  <2> QED
    BY <1>1, <2>5, <2>6, <2>7
<1>4. CASE ~(state = "absent" /\ state' = "loading")
  <2>1. UNCHANGED sysfs
    BY <1>4 DEF Life
  <2>2. \A t \in Threads : Active(t)' <=> Active(t)
    BY <2>1 DEF sysfs, Active
  <2>3. (\E t \in Threads : Active(t)) => Reachable'
    <3> SUFFICES ASSUME NEW t \in Threads, Active(t) PROVE Reachable'
      OBVIOUS
    <3>1. Reachable
      BY DEF BufferInv
    <3>2. ExitPlan = <<"kobject">> /\ (state = "unloading" => step = 1)
      BY <3>1, Plans DEF Reachable, peekpoke_exit, freddy_exit, LifeInv, AttributeInv, Attributed
    <3>3. ~Unregister
      BY <3>2 DEF Life, Unregister
    <3>4. ~GiveUp
      BY <3>1 DEF GiveUp, Reachable, LifeInv, AttributeInv, Attributed
    <3>5. "group" \in held'
      BY <3>1, <3>3, <3>4 DEF Life, Next, Load, Register, GoOnWithout, Unload, Enter,
         Find, DeviceOpen, Call, DeviceRelease, Drop, Reachable
    <3> QED
      BY <1>2, <3>1, <3>5 DEF Reachable
  <2>4. BufferInv'
    BY <2>1, <2>2, <2>3 DEF sysfs, BufferInv
  <2>5. AloneInv' /\ LastInv'
    BY <1>2, <2>1, <2>2 DEF sysfs, AloneInv, LastInv
  <2> QED
    BY <1>1, <2>4, <2>5
<1> QED
  BY <1>3, <1>4

\* A thread in sysfs_store finds the module in memory, so that its steps leave
\* the life of the module as it is.
LEMMA ThreadLeavesLife ==
  ASSUME SysfsInv, Reachable, Runs,
         UNCHANGED <<module, state, step, held, leaked, refs, user>>
  PROVE  LifeInv' /\ (Reachable' <=> Reachable)
<1>1. state # "absent"
  BY DEF SysfsInv, LifeInv, AttributeInv, Attributed, Reachable
<1>2. CodeStays'
  BY <1>1 DEF SysfsInv, LifeInv, CodeStays, Runs
<1> QED
  BY <1>2 DEF SysfsInv, LifeInv, AdcInv, PwmInv, AttributeInv, RefsBalanced, Reachable

\* Entering sysfs_store, which disturbs the stores that are under way.
LEMMA StoreEnterStep ==
  ASSUME SysfsInv, NEW t \in Threads, NEW size \in Sizes \cup {call[t].rest}, StoreEnter(t, size)
  PROVE  SysfsInv'
<1> USE DEF SysfsInv
<1>1. LifeInv' /\ (Reachable' <=> Reachable)
  BY ThreadLeavesLife DEF StoreEnter
<1>2. PICK pokes \in BOOLEAN :
        /\ register' = IF module = "peekpoke" /\ pokes THEN t ELSE register
        /\ call' = [u \in Threads |->
                      IF u = t THEN [place |-> "entered", rest |-> size, size |-> 0, pokes |-> pokes,
                                     alone |-> \A v \in Threads : ~Active(v)]
                      ELSE [call[u] EXCEPT !.alone = FALSE]]
  BY DEF StoreEnter
<1>3. size \in Nat
  BY SizesAssumption DEF BufferInv, CallType
<1>4. call' \in [Threads -> CallType]
  <2>1. call'[t] \in CallType
    BY <1>2, <1>3, CellFacts DEF CallType
  <2>2. \A u \in Threads \ {t} : call'[u] \in CallType
    BY <1>2 DEF BufferInv, CallType
  <2> QED
    BY <1>2, <2>1, <2>2
<1>5. BufferInv'
  BY <1>1, <1>4 DEF BufferInv, StoreEnter
<1>6. /\ call'[t].place = "entered" /\ call'[t].pokes = pokes
      /\ call'[t].alone = \A v \in Threads : ~Active(v)
  BY <1>2
<1>7. \A u \in Threads \ {t} : call'[u].place = call[u].place /\ ~call'[u].alone
  BY <1>2 DEF BufferInv, CallType
<1>8. AloneInv'
  BY <1>2, <1>6, <1>7 DEF AloneInv, Active, StoreEnter
<1>9. LastInv'
  BY DEF LastInv, StoreEnter, Unknown
<1> QED
  BY <1>1, <1>5, <1>8, <1>9

\* The new size lies within the buffer.
LEMMA StoreSizeStep ==
  ASSUME SysfsInv, NEW t \in Threads, StoreSize(t)
  PROVE  SysfsInv'
<1> USE DEF SysfsInv
<1>1. Active(t) /\ Reachable
  BY DEF StoreSize, Active, BufferInv
<1>2. LifeInv' /\ (Reachable' <=> Reachable)
  BY <1>1, ThreadLeavesLife DEF StoreSize
<1>3. call[t] \in CallType /\ Clamped(call[t].rest) \in Cells /\ Clamped(call[t].rest) <= call[t].rest
  BY CellFacts DEF BufferInv, CallType
<1>4. /\ \A u \in Threads \ {t} : call'[u] = call[u]
      /\ call'[t] = [call[t] EXCEPT !.place = "sized", !.size = Clamped(call[t].rest)]
      /\ call' \in [Threads -> CallType]
  BY <1>3 DEF StoreSize, BufferInv, CallType
<1>5. /\ call'[t].place = "sized" /\ call'[t].size = Clamped(call[t].rest)
      /\ call'[t].rest = call[t].rest /\ call'[t].pokes = call[t].pokes /\ call'[t].alone = call[t].alone
  BY <1>3, <1>4 DEF CallType
<1>6. \A u \in Threads : Active(u)' <=> Active(u)
  BY <1>1, <1>4, <1>5 DEF Active
<1>7. BufferInv'
  BY <1>2, <1>3, <1>4, <1>6 DEF BufferInv, StoreSize
<1>8. AloneInv'
  BY <1>1, <1>3, <1>4, <1>5, <1>6 DEF AloneInv, StoreSize
<1>9. LastInv'
  BY <1>1, <1>6 DEF LastInv, StoreSize
<1> QED
  BY <1>2, <1>7, <1>8, <1>9

\* memcpy writes in front of the last cell, and an undisturbed one its author's
\* text.
LEMMA StoreCopyStep ==
  ASSUME SysfsInv, NEW t \in Threads, StoreCopy(t)
  PROVE  SysfsInv'
<1> USE DEF SysfsInv
<1>1. Active(t) /\ Reachable
  BY DEF StoreCopy, Active, BufferInv
<1>2. LifeInv' /\ (Reachable' <=> Reachable)
  BY <1>1, ThreadLeavesLife DEF StoreCopy
<1>3. PICK size \in SizeSeen(t), tail \in {t, NUL} :
        sysfs_buffer' = [i \in Cells |-> CASE i >= size                      -> sysfs_buffer[i]
                                           [] i < size /\ i < call[t].rest  -> t
                                           [] i < size /\ i = call[t].rest  -> NUL
                                           [] i < size /\ i > call[t].rest  -> tail]
  BY DEF StoreCopy
<1>4. call[t] \in CallType /\ size \in Cells
  BY DEF BufferInv, SizeSeen, CallType
<1>5. /\ \A u \in Threads \ {t} : call'[u] = call[u]
      /\ call'[t] = [call[t] EXCEPT !.place = "copied"]
      /\ call' \in [Threads -> CallType]
  BY <1>4 DEF StoreCopy, BufferInv, CallType
<1>6. /\ call'[t].place = "copied" /\ call'[t].size = call[t].size
      /\ call'[t].rest = call[t].rest /\ call'[t].pokes = call[t].pokes /\ call'[t].alone = call[t].alone
  BY <1>4, <1>5 DEF CallType
<1>7. \A u \in Threads : Active(u)' <=> Active(u)
  BY <1>1, <1>5, <1>6 DEF Active
<1>8. DOMAIN sysfs_buffer' = Cells /\ sysfs_buffer'[sysfs_max_data_size] = NUL
  <2>1. /\ sysfs_max_data_size \in Cells /\ sysfs_max_data_size >= size
        /\ sysfs_max_data_size \in Nat /\ size \in Nat /\ ~(sysfs_max_data_size < size)
    BY <1>4, CellFacts, SizesAssumption DEF Cells
  <2>2. DOMAIN sysfs_buffer' = Cells
    BY <1>3
  <2>3. sysfs_buffer'[sysfs_max_data_size] = sysfs_buffer[sysfs_max_data_size]
    BY <1>3, <2>1
  <2> QED
    BY <2>2, <2>3 DEF BufferInv
<1>9. BufferInv'
  BY <1>2, <1>5, <1>7, <1>8 DEF BufferInv, StoreCopy
<1>10. AloneInv'
  <2> SUFFICES ASSUME NEW u \in Threads, call'[u].alone, Active(u)'
               PROVE  AloneInv!(u)!2'
    BY DEF AloneInv
  <2>1. u = t
    BY <1>1, <1>5, <1>7 DEF AloneInv
  <2>2. /\ \A v \in Threads \ {t} : ~Active(v)
        /\ module = "peekpoke" /\ call[t].pokes => register = t
        /\ used_buffer_size = call[t].size /\ call[t].size <= call[t].rest
    BY <1>1, <1>6, <2>1 DEF AloneInv, StoreCopy
  <2>3. size = call[t].size /\ size \in Nat /\ call[t].rest \in Nat
    BY <1>4, <2>2, CellFacts DEF SizeSeen, CallType
  <2>4. \A i \in Cells : i < size => sysfs_buffer'[i] = t
    BY <1>3, <2>2, <2>3, CellFacts
  <2> QED
    BY <1>6, <1>7, <2>1, <2>2, <2>3, <2>4 DEF StoreCopy
<1>11. LastInv'
  BY <1>1, <1>7 DEF LastInv, StoreCopy
<1> QED
  BY <1>2, <1>9, <1>10, <1>11

\* An undisturbed store leaves its text, ended by the NUL.
LEMMA StoreReturnStep ==
  ASSUME SysfsInv, NEW t \in Threads, StoreReturn(t)
  PROVE  SysfsInv'
<1> USE DEF SysfsInv
<1>1. Active(t) /\ Reachable
  BY DEF StoreReturn, Active, BufferInv
<1>2. LifeInv' /\ (Reachable' <=> Reachable)
  BY <1>1, ThreadLeavesLife DEF StoreReturn
<1>3. PICK size \in SizeSeen(t) : sysfs_buffer' = [sysfs_buffer EXCEPT ![size] = NUL]
  BY DEF StoreReturn, Terminated
<1>4. call[t] \in CallType /\ SizeSeen(t) \subseteq Cells /\ size \in Cells
  BY DEF BufferInv, SizeSeen, CallType
<1>5. /\ \A u \in Threads \ {t} : call'[u] = call[u]
      /\ call'[t] \in CallType /\ ~Active(t)' /\ ~call'[t].alone
      /\ call' \in [Threads -> CallType]
  <2>1. CASE call' = [call EXCEPT ![t] = Idle]
    BY <2>1, CellFacts DEF BufferInv, Idle, CallType, Active
  <2>2. ASSUME NEW result \in SizeSeen(t), result < call[t].rest,
               call' = [call EXCEPT ![t] = [Idle EXCEPT !.place = "again", !.rest = call[t].rest - result]]
        PROVE  <1>5
    <3>1. call[t].rest - result \in Nat
      BY <1>4, <2>2, CellFacts DEF CallType
    <3> QED
      BY <2>2, <3>1, CellFacts DEF BufferInv, Idle, CallType, Active
  <2> QED
    BY <2>1, <2>2 DEF StoreReturn
<1>6. \A u \in Threads : Active(u)' => Active(u)
  BY <1>5 DEF Active
<1>7. BufferInv'
  <2>1. DOMAIN sysfs_buffer' = Cells /\ sysfs_buffer'[sysfs_max_data_size] = NUL
    BY <1>3, CellFacts DEF BufferInv
  <2> QED
    BY <1>2, <1>5, <1>6, <2>1 DEF BufferInv, StoreReturn
<1>8. AloneInv'
  BY <1>1, <1>5, <1>6 DEF AloneInv, Active
<1>9. LastInv'
  <2>1. CASE ~call[t].alone
    BY <1>1, <2>1 DEF LastInv, StoreReturn
  <2>2. CASE call[t].alone
    <3>1. /\ \A u \in Threads \ {t} : ~Active(u)
          /\ module = "peekpoke" /\ call[t].pokes => register = t
          /\ used_buffer_size = call[t].size
          /\ \A i \in Cells : i < call[t].size => sysfs_buffer[i] = t
      BY <1>1, <2>2 DEF AloneInv, StoreReturn
    <3>2. size = call[t].size
      BY <3>1 DEF SizeSeen
    <3>3. last' = Text(t, size, call[t].pokes)
      BY <2>2, <3>2 DEF StoreReturn
    <3>4. Holds(sysfs_buffer', t, size)
      BY <1>3, <1>4, <3>1, <3>2, CellFacts, ThreadsAssumption DEF Holds, BufferInv
    <3>5. \A u \in Threads : ~Active(u)'
      BY <1>5, <1>6, <3>1
    <3> QED
      BY <3>1, <3>3, <3>4, <3>5 DEF LastInv, Text, StoreReturn
  <2> QED
    BY <2>1, <2>2
<1> QED
  BY <1>2, <1>7, <1>8, <1>9

\* A writer that leaves its rest changes nothing others see.
LEMMA GiveUpRestStep ==
  ASSUME SysfsInv, NEW t \in Threads, GiveUpRest(t)
  PROVE  SysfsInv'
<1> USE DEF SysfsInv
<1>1. LifeInv' /\ (Reachable' <=> Reachable)
  BY DEF GiveUpRest, vars, LifeInv, AdcInv, PwmInv, AttributeInv, RefsBalanced, CodeStays, Reachable
<1>2. /\ \A u \in Threads \ {t} : call'[u] = call[u]
      /\ call' \in [Threads -> CallType] /\ ~Active(t)' /\ ~call'[t].alone
  BY CellFacts DEF GiveUpRest, BufferInv, Idle, CallType, Active
<1>3. \A u \in Threads : Active(u)' => Active(u)
  BY <1>2 DEF Active
<1>4. BufferInv'
  BY <1>1, <1>2, <1>3 DEF BufferInv, GiveUpRest
<1>5. AloneInv'
  BY <1>2, <1>3 DEF AloneInv, Active, GiveUpRest, vars
<1>6. LastInv'
  BY <1>3 DEF LastInv, GiveUpRest, vars
<1> QED
  BY <1>1, <1>4, <1>5, <1>6

\* sysfs_show changes nothing.
LEMMA ShowStep ==
  ASSUME SysfsInv, Show
  PROVE  SysfsInv'
<1>1. LifeInv' /\ (Reachable' <=> Reachable)
  BY ThreadLeavesLife DEF Show
<1> QED
  BY <1>1 DEF Show, sysfs, SysfsInv, BufferInv, AloneInv, LastInv, Active

\* Every step of the files and of the module's life keeps the invariant.
LEMMA SysfsStep ==
  ASSUME SysfsInv, [SysfsNext]_sysfsVars
  PROVE  SysfsInv'
<1>1. CASE UNCHANGED sysfsVars
  BY <1>1 DEF sysfsVars, vars, sysfs, SysfsInv, LifeInv, AdcInv, PwmInv, AttributeInv, RefsBalanced,
     CodeStays, BufferInv, AloneInv, LastInv, Active, Reachable
<1> QED
  BY <1>1, LifeStep, ShowStep, StoreEnterStep, StoreSizeStep, StoreCopyStep, StoreReturnStep,
     GiveUpRestStep DEF SysfsNext

-----------------------------------------------------------------------------

\* Everything above holds in every state.
THEOREM SysfsInvariant == SysfsSpec => []SysfsInv
BY SysfsInitial, SysfsStep, PTL DEF SysfsSpec

\* device_open and device_release keep the count of references, over every order
\* of opens, closes, loads and removals.
THEOREM ReferencesBalance == SysfsSpec => []RefsBalanced
<1>1. SysfsInv => RefsBalanced
  BY DEF SysfsInv, LifeInv
<1> QED
  BY <1>1, SysfsInvariant, PTL

\* The exit functions of adc.c, peekpoke.c and freddy.c take away all that leads
\* to their code before it goes.
THEOREM NothingCallsCodeThatIsGone == SysfsSpec => []CodeStays
<1>1. SysfsInv => CodeStays
  BY DEF SysfsInv, LifeInv
<1> QED
  BY <1>1, SysfsInvariant, PTL

\* Wherever the init of pwm.c, peekpoke.c or freddy.c fails, nothing stays behind.
THEOREM FailedLoadsLeaveNothing == SysfsSpec => []FailsCleanly
<1>1. SysfsInv => FailsCleanly
  BY DEF SysfsInv, LifeInv, PwmInv, AttributeInv, Attributed, FailsCleanly
<1> QED
  BY <1>1, SysfsInvariant, PTL

\* Stores that race for used_buffer_size never reach the last byte of the
\* buffer, so that sysfs_show finds a NUL in it.
THEOREM BufferStaysTerminated == SysfsSpec => []StaysTerminated
<1>1. SysfsInv => StaysTerminated
  BY DEF SysfsInv, BufferInv, StaysTerminated
<1> QED
  BY <1>1, SysfsInvariant, PTL

\* sysfs_show returns the text of the last store if no other overlapped it, and
\* the register is as its command left it.
THEOREM LastStoreIsShown == SysfsSpec => []ShowsLast
<1>1. SysfsInv => ShowsLast
  <2> SUFFICES ASSUME SysfsInv, last # Unknown
               PROVE  /\ ShownText = [i \in 1 .. last.size |-> last.author]
                      /\ module = "peekpoke" /\ last.pokes => register = last.author
    BY DEF ShowsLast
  <2> DEFINE Ends(n) == sysfs_buffer[n] = NUL /\ \A i \in 0 .. n - 1 : sysfs_buffer[i] # NUL
             end     == CHOOSE n \in Cells : Ends(n)
  <2>1. Holds(sysfs_buffer, last.author, last.size)
    BY DEF SysfsInv, LastInv
  <2>2. \A n \in Cells : n \in Nat /\ 0 .. n - 1 \subseteq Cells
    BY SizesAssumption DEF Cells
  <2>3. last.size \in Cells /\ Ends(last.size)
    BY <2>1, <2>2 DEF Holds
  <2>4. \A n \in Cells : Ends(n) => n = last.size
    <3> SUFFICES ASSUME NEW n \in Cells, Ends(n) PROVE n = last.size
      OBVIOUS
    <3>1. ~(n < last.size)
      BY <2>1 DEF Holds
    <3>2. ~(last.size < n)
      BY <2>2, <2>3
    <3> QED
      BY <2>2, <2>3, <3>1, <3>2
  <2>5. end = last.size
    <3> HIDE DEF Ends
    <3> QED
      BY <2>3, <2>4
  <2>6. ShownText = [i \in 1 .. end |-> sysfs_buffer[i - 1]]
    BY DEF ShownText
  <2>7. \A i \in 1 .. last.size : sysfs_buffer[i - 1] = last.author
    BY <2>1, <2>2 DEF Holds
  <2>8. ShownText = [i \in 1 .. last.size |-> last.author]
    BY <2>5, <2>6, <2>7
  <2> QED
    BY <2>8 DEF SysfsInv, LastInv
<1> QED
  BY <1>1, SysfsInvariant, PTL

=============================================================================
