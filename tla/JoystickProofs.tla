--------------------------- MODULE JoystickProofs ---------------------------
(***************************************************************************)
(* The keys of a pad, for any pads and setups, queues of any size and any  *)
(* limits: the types, the cadence of a held key, and that a pad's events,  *)
(* read one by one, leave no key behind.                                   *)
(***************************************************************************)
EXTENDS Joystick, TLAPS

(* The conjuncts of TypeOK, grouped by the operations that change them.     *)
SetupTypes ==
    \E s \in Setups : /\ pads = s.pads /\ evdev = s.evdev /\ kind = s.kind
                      /\ faults <= s.failures /\ moves <= s.moves
BoundTypes == moves \in Nat /\ faults \in Nat
NodeTypes ==
    /\ link \in {"out", "in", "leaving"}
    /\ plugs \in 0 .. MaxPlugs /\ joyfd \in 0 .. plugs /\ evfd \in 0 .. plugs
    /\ ours \in BOOLEAN /\ js \in BOOLEAN /\ ev \in BOOLEAN
HandTypes == hand \in Hands
QueueTypes == joyq \in Seq(Events) /\ evq \in Seq(Events)
KeyTypes ==
    /\ tmp \subseteq UsbKeys /\ gkey \subseteq UsbKeys
    /\ pcM \in {"poll", "usb", "menu"}
    /\ rfsnap \subseteq RFKeys
    /\ joy \subseteq UsbKeys \union RFKeys
    /\ press \subseteq UsbKeys \union RFKeys
    /\ report = {} \/ report = press
DelayTypes == delay \in 0 .. RepeatAt - 1 /\ run \in Nat
PadTypes ==
    /\ range \in BOOLEAN /\ rfhand \subseteq RFKeys /\ rfkey \subseteq RFKeys
    /\ pcR \in {"packet", "last", "tick"} /\ rfnow \subseteq RFKeys
TimerTypes == timer \in 0 .. TimerSize - 1
HistTypes ==
    /\ cold \in BOOLEAN
    /\ jdrop \in BOOLEAN /\ edrop \in BOOLEAN /\ seen \in BOOLEAN /\ missed \in BOOLEAN

LEMMA TypeParts ==
    TypeOK <=> /\ SetupTypes /\ BoundTypes /\ NodeTypes /\ HandTypes /\ QueueTypes
               /\ KeyTypes /\ DelayTypes /\ PadTypes /\ TimerTypes /\ HistTypes
  BY Zenon DEF TypeOK, SetupTypes, BoundTypes, NodeTypes, HandTypes, QueueTypes,
         KeyTypes, DelayTypes, PadTypes, TimerTypes, HistTypes

LEMMA TypeNext ==
    TypeOK' <=> /\ SetupTypes' /\ BoundTypes' /\ NodeTypes' /\ HandTypes' /\ QueueTypes'
                /\ KeyTypes' /\ DelayTypes' /\ PadTypes' /\ TimerTypes' /\ HistTypes'
  BY Zenon DEF TypeOK, SetupTypes, BoundTypes, NodeTypes, HandTypes, QueueTypes,
         KeyTypes, DelayTypes, PadTypes, TimerTypes, HistTypes

(* The calls of ReadUSBJoy.                                                *)
ReadUSB == JsClosed \/ EvOpen \/ EvRead \/ EvGone \/ JsOpen \/ JsRead

LEMMA Steps ==
    [Next]_vars =>
        \/ PlugIn \/ Unplug \/ Move \/ RFPad \/ JsAppears \/ EvAppears \/ JsRemoved \/ EvRemoved
        \/ ReadRF \/ ReadUSB \/ ReadJoystick \/ EnterMenu \/ RFThread \/ Tick
        \/ UNCHANGED vars
  BY Zenon DEF Next, Player, Kernel, Program, ReadUSB

LEMMA Groups ==
    [Next]_vars => \/ Player \/ Kernel \/ ReadUSB \/ RFThread
                   \/ ReadRF \/ ReadJoystick \/ EnterMenu \/ Tick \/ UNCHANGED vars
  BY Zenon DEF Next, Program, ReadUSB

LEMMA Queues == /\ <<>> \in Seq(Events)
                /\ \A q \in Seq(Events) : q # <<>> => Head(q) \in Events /\ Tail(q) \in Seq(Events)
  OBVIOUS

LEMMA HandMoved ==
    ASSUME NEW h \in Hands, NEW e \in Events
    PROVE  /\ Moved(h, e) \in Hands
           /\ e.control = "button" => Moved(h, e).button = e.value /\ Moved(h, e).axis = h.axis
           /\ e.control = "axis" => Moved(h, e).axis = e.value /\ Moved(h, e).button = h.button
           /\ e.control \in {"button", "axis"}
<1>1. CASE e \in [control : {"button"}, value : Button]
  <2>1. Moved(h, e) = [h EXCEPT !.button = e.value]
    BY <1>1 DEF Moved
  <2> QED
    BY <1>1, <2>1 DEF Hands
<1>2. CASE e \in [control : {"axis"}, value : Axis]
  <2>1. Moved(h, e) = [h EXCEPT !.axis = e.value]
    BY <1>2 DEF Moved
  <2> QED
    BY <1>2, <2>1 DEF Hands
<1> QED
  BY <1>1, <1>2 DEF Events

LEMMA SetupTypesStep == ASSUME TypeOK, [Next]_vars PROVE SetupTypes'
<1> USE TypeParts, SetupAssumption
<1>1. CASE Player
  BY <1>1 DEF SetupTypes, BoundTypes, Player, PlugIn, Unplug, Move, RFPad, chosen
<1>2. CASE Kernel
  BY <1>2 DEF SetupTypes, BoundTypes, Kernel, JsAppears, EvAppears, JsRemoved,
         EvRemoved, chosen
<1>3. CASE ReadUSB
  BY <1>3 DEF SetupTypes, BoundTypes, ReadUSB, JsClosed, EvOpen, EvRead, EvGone,
         JsOpen, JsRead, Return, chosen, usbpad
<1>4. CASE RFThread
  BY <1>4 DEF SetupTypes, BoundTypes, RFThread, RFPacket, RFLast, RFSilence, RFTick,
         chosen, usbpad
<1>5. CASE ReadRF \/ ReadJoystick \/ EnterMenu \/ Tick \/ UNCHANGED vars
  BY <1>5 DEF SetupTypes, BoundTypes, ReadRF, ReadJoystick, EnterMenu, Tick, vars,
         chosen, usbpad
<1> QED
  BY <1>1, <1>2, <1>3, <1>4, <1>5, Groups

LEMMA BoundTypesStep == ASSUME TypeOK, [Next]_vars PROVE BoundTypes'
<1> USE TypeParts
<1>1. CASE Player
  BY <1>1 DEF BoundTypes, Player, PlugIn, Unplug, Move, RFPad
<1>2. CASE Kernel
  BY <1>2 DEF BoundTypes, Kernel, JsAppears, EvAppears, JsRemoved, EvRemoved
<1>3. CASE ReadUSB
  BY <1>3 DEF BoundTypes, ReadUSB, JsClosed, EvOpen, EvRead, EvGone, JsOpen, JsRead,
         Return, usbpad
<1>4. CASE RFThread
  BY <1>4 DEF BoundTypes, RFThread, RFPacket, RFLast, RFSilence, RFTick, usbpad
<1>5. CASE ReadRF \/ ReadJoystick \/ EnterMenu \/ Tick \/ UNCHANGED vars
  BY <1>5 DEF BoundTypes, ReadRF, ReadJoystick, EnterMenu, Tick, vars, usbpad
<1> QED
  BY <1>1, <1>2, <1>3, <1>4, <1>5, Groups

LEMMA NodeTypesStep == ASSUME TypeOK, [Next]_vars PROVE NodeTypes'
<1> USE TypeParts, BoundAssumption
<1>1. CASE Player
  BY <1>1 DEF NodeTypes, Player, PlugIn, Unplug, Move, RFPad, node, jsdev, evdevs
<1>2. CASE Kernel
  BY <1>2 DEF NodeTypes, Kernel, JsAppears, EvAppears, JsRemoved, EvRemoved, jsdev,
         evdevs
<1>3. CASE ReadUSB
  BY <1>3 DEF NodeTypes, ReadUSB, JsClosed, EvOpen, EvRead, EvGone, JsOpen, JsRead,
         Return, usbpad, node, jsdev, evdevs
<1>4. CASE RFThread
  BY <1>4 DEF NodeTypes, RFThread, RFPacket, RFLast, RFSilence, RFTick, usbpad,
         node, jsdev, evdevs
<1>5. CASE ReadRF \/ ReadJoystick \/ EnterMenu \/ Tick \/ UNCHANGED vars
  BY <1>5 DEF NodeTypes, ReadRF, ReadJoystick, EnterMenu, Tick, vars, usbpad, node,
         jsdev, evdevs
<1> QED
  BY <1>1, <1>2, <1>3, <1>4, <1>5, Groups

LEMMA HandTypesStep == ASSUME TypeOK, [Next]_vars PROVE HandTypes'
<1> USE TypeParts, HandMoved, HeldAssumption
<1>1. CASE Player
  BY <1>1 DEF HandTypes, Hands, Free, Axis, Button, Player, PlugIn, Unplug, Move,
         RFPad
<1>2. CASE Kernel
  BY <1>2 DEF HandTypes, Kernel, JsAppears, EvAppears, JsRemoved, EvRemoved
<1>3. CASE ReadUSB
  BY <1>3 DEF HandTypes, ReadUSB, JsClosed, EvOpen, EvRead, EvGone, JsOpen, JsRead,
         Return, usbpad
<1>4. CASE RFThread
  BY <1>4 DEF HandTypes, RFThread, RFPacket, RFLast, RFSilence, RFTick, usbpad
<1>5. CASE ReadRF \/ ReadJoystick \/ EnterMenu \/ Tick \/ UNCHANGED vars
  BY <1>5 DEF HandTypes, ReadRF, ReadJoystick, EnterMenu, Tick, vars, usbpad
<1> QED
  BY <1>1, <1>2, <1>3, <1>4, <1>5, Groups

LEMMA QueueTypesStep == ASSUME TypeOK, [Next]_vars PROVE QueueTypes'
<1> USE TypeParts, Queues
<1>1. CASE PlugIn \/ Unplug \/ RFPad
  BY <1>1 DEF QueueTypes, PlugIn, Unplug, RFPad, jsdev, evdevs
<1>2. CASE Move
  BY <1>2 DEF QueueTypes, Move
<1>3. CASE Kernel
  BY <1>3 DEF QueueTypes, Kernel, JsAppears, EvAppears, JsRemoved, EvRemoved, jsdev,
         evdevs
<1>4. CASE ReadUSB
  BY <1>4 DEF QueueTypes, ReadUSB, JsClosed, EvOpen, EvRead, EvGone, JsOpen, JsRead,
         Return, jsdev, evdevs
<1>5. CASE RFThread
  BY <1>5 DEF QueueTypes, RFThread, RFPacket, RFLast, RFSilence, RFTick, jsdev,
         evdevs
<1>6. CASE ReadRF \/ ReadJoystick \/ EnterMenu \/ Tick \/ UNCHANGED vars
  BY <1>6 DEF QueueTypes, ReadRF, ReadJoystick, EnterMenu, Tick, vars, jsdev, evdevs
<1> QED
  BY <1>1, <1>2, <1>3, <1>4, <1>5, <1>6, Groups DEF Player

LEMMA KeyTypesStep == ASSUME TypeOK, [Next]_vars PROVE KeyTypes'
<1> USE TypeParts
<1>1. CASE Player
  BY <1>1 DEF KeyTypes, Player, PlugIn, Unplug, Move, RFPad, jsdev, evdevs, menu
<1>2. CASE Kernel
  BY <1>2 DEF KeyTypes, Kernel, JsAppears, EvAppears, JsRemoved, EvRemoved, jsdev,
         evdevs, menu
<1>3. CASE ReadUSB
  BY <1>3 DEF KeyTypes, UsbKeys, RFKeys, QueueTypes, Events, Axis, AfterJs, AfterEv,
         AfterHat, PadTypes, ReadUSB, JsClosed, EvOpen, EvRead, EvGone, JsOpen,
         JsRead, Return, jsdev, evdevs, menu
<1>4. CASE RFThread
  BY <1>4 DEF KeyTypes, RFThread, RFPacket, RFLast, RFSilence, RFTick, jsdev,
         evdevs, menu
<1>5. CASE ReadRF \/ ReadJoystick \/ EnterMenu \/ Tick \/ UNCHANGED vars
  BY <1>5 DEF KeyTypes, PadTypes, ReadRF, ReadJoystick, EnterMenu, Tick, vars,
         jsdev, evdevs, menu
<1> QED
  BY <1>1, <1>2, <1>3, <1>4, <1>5, Groups

LEMMA DelayTypesStep == ASSUME TypeOK, [Next]_vars PROVE DelayTypes'
<1> USE TypeParts, RepeatAssumption
<1>1. CASE Player
  BY <1>1 DEF DelayTypes, Player, PlugIn, Unplug, Move, RFPad, menu
<1>2. CASE Kernel
  BY <1>2 DEF DelayTypes, Kernel, JsAppears, EvAppears, JsRemoved, EvRemoved, menu
<1>3. CASE ReadUSB
  BY <1>3 DEF DelayTypes, ReadUSB, JsClosed, EvOpen, EvRead, EvGone, JsOpen, JsRead,
         Return, menu
<1>4. CASE RFThread
  BY <1>4 DEF DelayTypes, RFThread, RFPacket, RFLast, RFSilence, RFTick, menu
<1>5. CASE ReadRF \/ ReadJoystick \/ EnterMenu \/ Tick \/ UNCHANGED vars
  BY <1>5 DEF DelayTypes, Runs, ReadRF, ReadJoystick, EnterMenu, Tick, vars, menu
<1> QED
  BY <1>1, <1>2, <1>3, <1>4, <1>5, Groups

LEMMA PadTypesStep == ASSUME TypeOK, [Next]_vars PROVE PadTypes'
<1> USE TypeParts
<1>1. CASE Player
  BY <1>1 DEF PadTypes, RFKeys, Player, PlugIn, Unplug, Move, RFPad, rf
<1>2. CASE Kernel
  BY <1>2 DEF PadTypes, RFKeys, Kernel, JsAppears, EvAppears, JsRemoved, EvRemoved,
         rf
<1>3. CASE ReadUSB
  BY <1>3 DEF PadTypes, RFKeys, ReadUSB, JsClosed, EvOpen, EvRead, EvGone, JsOpen,
         JsRead, Return, rf
<1>4. CASE RFThread
  BY <1>4 DEF PadTypes, RFKeys, RFThread, RFPacket, RFLast, RFSilence, RFTick, rf
<1>5. CASE ReadRF \/ ReadJoystick \/ EnterMenu \/ Tick \/ UNCHANGED vars
  BY <1>5 DEF PadTypes, RFKeys, ReadRF, ReadJoystick, EnterMenu, Tick, vars, rf
<1> QED
  BY <1>1, <1>2, <1>3, <1>4, <1>5, Groups

LEMMA TimerTypesStep == ASSUME TypeOK, [Next]_vars PROVE TimerTypes'
<1> USE TypeParts, SizeAssumption
<1>1. CASE Player
  BY <1>1 DEF TimerTypes, Player, PlugIn, Unplug, Move, RFPad, rf
<1>2. CASE Kernel
  BY <1>2 DEF TimerTypes, Kernel, JsAppears, EvAppears, JsRemoved, EvRemoved, rf
<1>3. CASE ReadUSB
  BY <1>3 DEF TimerTypes, ReadUSB, JsClosed, EvOpen, EvRead, EvGone, JsOpen, JsRead,
         Return, rf
<1>4. CASE RFThread
  BY <1>4 DEF TimerTypes, RFThread, RFPacket, RFLast, RFSilence, RFTick, rf
<1>5. CASE ReadRF \/ ReadJoystick \/ EnterMenu \/ Tick \/ UNCHANGED vars
  BY <1>5 DEF TimerTypes, ReadRF, ReadJoystick, EnterMenu, Tick, vars, rf
<1> QED
  BY <1>1, <1>2, <1>3, <1>4, <1>5, Groups

LEMMA HistTypesStep == ASSUME TypeOK, [Next]_vars PROVE HistTypes'
<1> USE TypeParts
<1>1. CASE Player
  BY <1>1 DEF HistTypes, Player, PlugIn, Unplug, Move, RFPad, jsdev, evdevs
<1>2. CASE Kernel
  BY <1>2 DEF HistTypes, Kernel, JsAppears, EvAppears, JsRemoved, EvRemoved, jsdev,
         evdevs
<1>3. CASE ReadUSB
  BY <1>3 DEF HistTypes, ReadUSB, JsClosed, EvOpen, EvRead, EvGone, JsOpen, JsRead,
         Return, jsdev, evdevs
<1>4. CASE RFThread
  BY <1>4 DEF HistTypes, RFThread, RFPacket, RFLast, RFSilence, RFTick, jsdev,
         evdevs
<1>5. CASE ReadRF \/ ReadJoystick \/ EnterMenu \/ Tick \/ UNCHANGED vars
  BY <1>5 DEF HistTypes, ReadRF, ReadJoystick, EnterMenu, Tick, vars, jsdev, evdevs
<1> QED
  BY <1>1, <1>2, <1>3, <1>4, <1>5, Groups

LEMMA TypedInit == Init => TypeOK
<1> SUFFICES ASSUME Init PROVE TypeOK
  OBVIOUS
<1>1. SetupTypes /\ BoundTypes
  BY SetupAssumption DEF Init, SetupTypes, BoundTypes
<1>2. DelayTypes /\ TimerTypes
  BY SizeAssumption, RepeatAssumption DEF Init, DelayTypes, TimerTypes
<1>3. NodeTypes
  <2>1. 0 \in 0 .. MaxPlugs /\ 0 \in 0 .. 0
    BY BoundAssumption
  <2>2. /\ link = "out" /\ plugs = 0 /\ joyfd = 0 /\ evfd = 0
        /\ ours = TRUE /\ js = FALSE /\ ev = FALSE
    BY DEF Init
  <2> QED
    BY <2>1, <2>2 DEF NodeTypes
<1>4. HandTypes /\ QueueTypes /\ KeyTypes /\ PadTypes /\ HistTypes
  BY Queues DEF Init, HandTypes, Hands, Free, Axis, Button, QueueTypes, KeyTypes,
         PadTypes, HistTypes
<1> QED
  BY <1>1, <1>2, <1>3, <1>4, TypeParts

LEMMA TypedStep == ASSUME TypeOK, [Next]_vars PROVE TypeOK'
  BY SetupTypesStep, BoundTypesStep, NodeTypesStep, HandTypesStep, QueueTypesStep,
     KeyTypesStep,
     DelayTypesStep, PadTypesStep, TimerTypesStep, HistTypesStep, TypeNext

(* Queues hold events, the counters stay in their ranges (TimeCountReg in  *)
(* its 16 bits), and only keys of a pad reach its bits of joy_key.         *)
THEOREM JoystickTypeOK == Spec => []TypeOK
  BY TypedInit, TypedStep, PTL DEF Spec

-----------------------------------------------------------------------------
(* The cadence: what run counts is what Joy1_Delay counts.                 *)
Period == RepeatAt - RepeatFrom

(* Until the first repetition Joy1_Delay counts the calls, from then on it *)
(* is RepeatFrom at each repetition and counts on from there.              *)
Cadence ==
    /\ run = 0 => press = {}
    /\ run <= RepeatAt + 1 + Period
    /\ run \in 1 .. RepeatAt => delay = run - 1 /\ (report # {} <=> run = 1)
    /\ run \in RepeatAt + 1 .. RepeatAt + Period =>
         delay = RepeatFrom + (run - RepeatAt - 1) /\ (report # {} <=> run = RepeatAt + 1)
    /\ run = RepeatAt + 1 + Period => delay = RepeatFrom /\ report # {}

LEMMA Limits == /\ RepeatAt \in Nat /\ RepeatFrom \in Nat /\ RepeatFrom < RepeatAt
                /\ Period \in Nat /\ Period > 0 /\ RepeatFrom + Period = RepeatAt
  BY RepeatAssumption DEF Period

LEMMA CadenceStep == ASSUME TypeOK, Cadence, [Next]_vars PROVE Cadence'
<1>1. run \in Nat /\ delay \in 0 .. RepeatAt - 1
  BY TypeParts DEF DelayTypes
<1>2. CASE UNCHANGED <<press, delay, report, run>>
  BY <1>2 DEF Cadence
<1>3. CASE press' = {} /\ delay' = 0 /\ report' = {} /\ run' = 0
  BY <1>3, Limits DEF Cadence
<1>4. CASE joy # {} /\ press' = joy /\ delay' = 0 /\ report' = joy /\ run' = 1
  BY <1>4, Limits DEF Cadence
<1>5. CASE /\ joy # {} /\ joy = press /\ press' = press /\ run' = Runs
           /\ IF delay + 1 < RepeatAt
              THEN delay' = delay + 1 /\ report' = {}
              ELSE delay' = RepeatFrom /\ report' = joy
  <2>1. run > 0 /\ run' = IF run = RepeatAt + 1 + Period THEN RepeatAt + 2 ELSE run + 1
    BY <1>1, <1>5 DEF Cadence, Runs, Period
  <2>2. CASE run \in 1 .. RepeatAt
    BY <1>1, <1>5, <2>1, <2>2, Limits DEF Cadence
  <2>3. CASE run \in RepeatAt + 1 .. RepeatAt + Period
    BY <1>1, <1>5, <2>1, <2>3, Limits DEF Cadence
  <2>4. CASE run = RepeatAt + 1 + Period
    BY <1>1, <1>5, <2>1, <2>4, Limits DEF Cadence
  <2> QED
    BY <1>1, <2>1, <2>2, <2>3, <2>4, Limits DEF Cadence
<1> QED
  BY <1>2, <1>3, <1>4, <1>5, Steps
     DEF PlugIn, Unplug, Move, RFPad, JsAppears, EvAppears, JsRemoved, EvRemoved,
         ReadRF, ReadUSB, JsClosed, EvOpen, EvRead, EvGone, JsOpen, JsRead, Return,
         ReadJoystick, EnterMenu, RFThread, RFPacket, RFLast, RFSilence, RFTick, Tick,
         vars, menu

(* For any RepeatAt and RepeatFrom the menus get a held key when           *)
(* ReadJoystick first sees it, at the RepeatAt-th call after that, and     *)
(* every RepeatAt - RepeatFrom calls from then on.                         *)
THEOREM JoystickCadence == Spec => []RepeatCadence
<1>1. TypeOK /\ [Next]_vars => TypeOK'
  BY TypedStep
<1>2. Init => Cadence
  BY Limits DEF Init, Cadence
<1>3. TypeOK /\ Cadence => RepeatCadence
  BY Limits, TypeParts DEF DelayTypes, Cadence, RepeatCadence, Period
<1> QED
  BY <1>1, <1>2, <1>3, TypedInit, CadenceStep, PTL DEF Spec

-----------------------------------------------------------------------------
(* Events read one by one.  A queue follows a hand from the keys read so   *)
(* far if the newest event of each control says where it is now, and where *)
(* none waits the keys say it.                                             *)
Place(h, c) == IF c = "button" THEN h.button ELSE h.axis
Newest(q, i) == \A j \in 1 .. Len(q) : j > i => q[j].control # q[i].control
Absent(q, c) == \A i \in 1 .. Len(q) : q[i].control # c
Sides(k, h) == IF k = "hat" /\ h.axis # "mid" THEN {"up", "down"} ELSE {h.axis}

Follows(q, keys, h, k) ==
    /\ \A i \in 1 .. Len(q) : Newest(q, i) => q[i].value = Place(h, q[i].control)
    /\ Absent(q, "button") => ("a" \in keys => h.button = "on")
    /\ Absent(q, "axis") => keys \cap {"up", "down"} \subseteq Sides(k, h)

LEMMA EventParts ==
    ASSUME NEW e \in Events
    PROVE  \/ e.control = "button" /\ e.value \in Button
           \/ e.control = "axis" /\ e.value \in Axis
  BY DEF Events

LEMMA FollowsEmpty == ASSUME NEW h \in Hands, NEW k PROVE Follows(<<>>, {}, h, k)
  BY DEF Follows

LEMMA FollowsMove ==
    ASSUME NEW q \in Seq(Events), NEW keys, NEW h \in Hands, NEW k, NEW e \in Events,
           Follows(q, keys, h, k)
    PROVE  Follows(Append(q, e), keys, Moved(h, e), k)
<1> DEFINE a == Append(q, e)
           n == Len(q) + 1
<1>1. /\ Len(q) \in Nat /\ Len(a) = n /\ a[n] = e /\ n \in 1 .. Len(a)
      /\ \A i \in 1 .. Len(q) : a[i] = q[i] /\ i \in 1 .. Len(a) /\ n > i
  OBVIOUS
<1>2. \A i \in 1 .. Len(a) : i = n \/ i \in 1 .. Len(q)
  BY <1>1
<1> HIDE DEF a, n
<1>3. Place(Moved(h, e), e.control) = e.value
      /\ \A c \in {"button", "axis"} : c # e.control => Place(Moved(h, e), c) = Place(h, c)
  BY HandMoved DEF Place
<1>4. ASSUME NEW i \in 1 .. Len(a), Newest(a, i)
      PROVE  a[i].value = Place(Moved(h, e), a[i].control)
  <2>1. CASE i = n
    BY <1>1, <1>3, <2>1
  <2>2. CASE i \in 1 .. Len(q)
    <3>1. a[i] = q[i] /\ q[i].control # e.control /\ q[i] \in Events
      BY <1>1, <1>4, <2>2 DEF Newest
    <3>2. Newest(q, i)
      BY <1>1, <1>4, <2>2 DEF Newest
    <3>3. q[i].control \in {"button", "axis"}
      BY <3>1, EventParts
    <3> QED
      BY <1>3, <2>2, <3>1, <3>2, <3>3 DEF Follows
  <2> QED
    BY <1>2, <2>1, <2>2
<1>5. \A c \in {"button", "axis"} : Absent(a, c) => Absent(q, c) /\ e.control # c
  BY <1>1 DEF Absent
<1>6. Absent(a, "button") => ("a" \in keys => Moved(h, e).button = "on")
  BY <1>3, <1>5 DEF Follows, Place
<1>7. Absent(a, "axis") => keys \cap {"up", "down"} \subseteq Sides(k, Moved(h, e))
  BY <1>3, <1>5 DEF Follows, Place, Sides
<1> QED
  BY <1>4, <1>6, <1>7, Zenon DEF Follows, a

(* An event is read: cgm_evdev_poll with a hat, otherwise as ReadUSBJoy.   *)
After(k, keys, e) == IF k = "hat" THEN AfterHat(keys, e) ELSE AfterJs(keys, e)

LEMMA AfterSays ==
    ASSUME NEW k, NEW keys, NEW e \in Events
    PROVE  /\ e.control = "button" =>
                /\ "a" \in After(k, keys, e) <=> e.value = "on"
                /\ After(k, keys, e) \cap {"up", "down"} = keys \cap {"up", "down"}
           /\ e.control = "axis" =>
                /\ "a" \in After(k, keys, e) <=> "a" \in keys
                /\ \A h : h.axis = e.value =>
                      After(k, keys, e) \cap {"up", "down"} \subseteq Sides(k, h)
<1>1. CASE e.control = "button" /\ e.value \in Button
  BY <1>1 DEF After, AfterHat, AfterJs, Button
<1>2. CASE e.control = "axis" /\ e.value \in Axis
  BY <1>2 DEF After, AfterHat, AfterJs, Axis, Sides
<1> QED
  BY <1>1, <1>2, EventParts

LEMMA FollowsRead ==
    ASSUME NEW q \in Seq(Events), NEW keys, NEW h \in Hands, NEW k, q # <<>>,
           Follows(q, keys, h, k)
    PROVE  Follows(Tail(q), After(k, keys, Head(q)), h, k)
<1> DEFINE e == Head(q)
           r == Tail(q)
<1>1. /\ Len(q) \in Nat /\ Len(q) > 0 /\ e = q[1] /\ e \in Events /\ 1 \in 1 .. Len(q)
      /\ Len(r) = Len(q) - 1
      /\ \A i \in 1 .. Len(r) : r[i] = q[i + 1] /\ i + 1 \in 1 .. Len(q)
      /\ \A i \in 1 .. Len(q) : i = 1 \/ (i - 1 \in 1 .. Len(r) /\ r[i - 1] = q[i])
  OBVIOUS
<1> HIDE DEF e, r
<1>2. ASSUME NEW i \in 1 .. Len(r), Newest(r, i) PROVE r[i].value = Place(h, r[i].control)
  <2>1. Newest(q, i + 1)
    <3> SUFFICES ASSUME NEW j \in 1 .. Len(q), j > i + 1 PROVE q[j].control # q[i + 1].control
      BY DEF Newest
    <3>1. j - 1 \in 1 .. Len(r) /\ r[j - 1] = q[j] /\ j - 1 > i
      BY <1>1
    <3> QED
      BY <1>1, <1>2, <3>1 DEF Newest
  <2> QED
    BY <1>1, <2>1 DEF Follows
<1>3. ASSUME NEW c, Absent(r, c)
      PROVE  (e.control # c => Absent(q, c)) /\ (e.control = c => e.value = Place(h, c))
  <2>1. \A i \in 1 .. Len(q) : i > 1 => q[i].control # c
    BY <1>1, <1>3 DEF Absent
  <2>2. e.control # c => Absent(q, c)
    BY <1>1, <2>1 DEF Absent
  <2>3. e.control = c => Newest(q, 1)
    BY <1>1, <2>1 DEF Newest
  <2> QED
    BY <1>1, <2>2, <2>3 DEF Follows
<1>4. Absent(r, "button") => ("a" \in After(k, keys, e) => h.button = "on")
  BY <1>1, <1>3, AfterSays, EventParts DEF Follows, Place
<1>5. Absent(r, "axis") => After(k, keys, e) \cap {"up", "down"} \subseteq Sides(k, h)
  BY <1>1, <1>3, AfterSays, EventParts DEF Follows, Place
<1> QED
  BY <1>2, <1>4, <1>5, Zenon DEF Follows, e, r

LEMMA FollowsIdle ==
    ASSUME NEW keys, NEW h \in Hands, NEW k, Follows(<<>>, keys, h, k), keys \subseteq UsbKeys
    PROVE  keys \subseteq Keys(h) \union
              (IF k = "hat" /\ h.axis # "mid" THEN {"up", "down"} ELSE {})
<1>1. ("a" \in keys => h.button = "on") /\ keys \cap {"up", "down"} \subseteq Sides(k, h)
  BY DEF Follows, Absent
<1>2. h.axis \in Axis
  BY DEF Hands
<1> QED
  BY <1>1, <1>2 DEF Keys, Sides, UsbKeys, Axis

(* A descriptor of this connection was opened while its node was there.    *)
Nodes == /\ js \/ ev => link # "out"
         /\ link = "in" => plugs > 0 /\ (~js => joyfd # plugs) /\ (~ev => evfd # plugs)

LEMMA NodesStep == ASSUME TypeOK, Nodes, [Next]_vars PROVE Nodes'
<1> USE TypeParts
<1>1. CASE PlugIn
  BY <1>1 DEF Nodes, NodeTypes, PlugIn, jsdev, evdevs
<1>2. CASE Unplug \/ JsRemoved \/ EvRemoved
  BY <1>2 DEF Nodes, NodeTypes, Unplug, JsRemoved, EvRemoved
<1>3. CASE JsAppears \/ EvAppears
  BY <1>3 DEF Nodes, NodeTypes, JsAppears, EvAppears, jsdev, evdevs
<1>4. CASE ReadUSB
  BY <1>4 DEF Nodes, NodeTypes, ReadUSB, JsClosed, EvOpen, EvRead, EvGone, JsOpen,
         JsRead, Return, usbpad, node, jsdev, evdevs
<1>5. CASE UNCHANGED <<link, plugs, js, ev, joyfd, evfd>>
  BY <1>5 DEF Nodes
<1> QED
  BY <1>1, <1>2, <1>3, <1>4, <1>5, Steps
     DEF Move, RFPad, ReadRF, ReadJoystick, EnterMenu, RFThread, RFPacket, RFLast,
         RFSilence, RFTick, Tick, vars, usbpad, node, jsdev, evdevs

(* A queue that lost nothing follows the hand on the pad.                  *)
Joydev == link = "in" /\ JsAlive /\ ~jdrop => Follows(joyq, tmp, hand, "stick")
Evdev == link = "in" /\ EvAlive /\ ~edrop => Follows(evq, gkey, hand, kind)

LEMMA JoydevStep == ASSUME TypeOK, Nodes, Joydev, [Next]_vars PROVE Joydev'
<1> USE TypeParts
<1>1. CASE UNCHANGED <<link, plugs, js, joyfd, joyq, tmp, jdrop, hand>>
  BY <1>1 DEF Joydev, JsAlive
<1>2. CASE PlugIn \/ Unplug \/ JsAppears \/ JsRemoved \/ EvRemoved
  BY <1>2 DEF Joydev, JsAlive, Nodes, NodeTypes, PlugIn, Unplug, JsAppears,
         JsRemoved, EvRemoved, jsdev
<1>3. CASE Move
  <2>1. PICK e \in Events :
           /\ hand' = Moved(hand, e)
           /\ JsAlive /\ ~jdrop' => joyq' = Append(joyq, e)
    BY <1>3 DEF Move
  <2>2. UNCHANGED <<link, plugs, js, joyfd, tmp>> /\ (jdrop => jdrop')
    BY <1>3 DEF Move, node
  <2> QED
    BY <2>1, <2>2, FollowsMove DEF Joydev, JsAlive, HandTypes, QueueTypes
<1>4. CASE JsClosed
  BY <1>4 DEF Joydev, JsAlive, Nodes, NodeTypes, JsClosed, Return, usbpad, node
<1>5. CASE JsOpen
  <2>1. UNCHANGED <<link, plugs, js, hand>>
    BY <1>5 DEF JsOpen, Return, usbpad, node
  <2>2. CASE joyq' = <<>> /\ tmp' = {}
    BY <2>1, <2>2, FollowsEmpty DEF Joydev, HandTypes
  <2>3. CASE UNCHANGED <<joyfd, joyq, tmp, jdrop>>
    BY <2>1, <2>3 DEF Joydev, JsAlive
  <2> QED
    BY <1>5, <2>2, <2>3 DEF JsOpen
<1>6. CASE JsRead
  <2>1. UNCHANGED <<link, plugs, js, hand, joyfd, jdrop>>
    BY <1>6 DEF JsRead, Return, usbpad, node
  <2>2. CASE UNCHANGED <<joyq, tmp>>
    BY <2>1, <2>2 DEF Joydev, JsAlive
  <2>3. CASE joyq # <<>> /\ tmp' = AfterJs(tmp, Head(joyq)) /\ joyq' = Tail(joyq)
    <3>1. tmp' = After("stick", tmp, Head(joyq))
      BY <2>3 DEF After
    <3> QED
      BY <2>1, <2>3, <3>1, FollowsRead DEF Joydev, JsAlive, HandTypes, QueueTypes
  <2> QED
    BY <1>6, <2>2, <2>3 DEF JsRead
<1>7. CASE RFPad \/ EvAppears
  BY <1>1, <1>7 DEF RFPad, EvAppears, node, jsdev
<1>8. CASE EvOpen \/ EvRead \/ EvGone
  BY <1>1, <1>8 DEF EvOpen, EvRead, EvGone, Return, usbpad, node, jsdev
<1>9. CASE ReadRF \/ ReadJoystick \/ EnterMenu \/ RFThread \/ Tick \/ UNCHANGED vars
  BY <1>1, <1>9 DEF ReadRF, ReadJoystick, EnterMenu, RFThread, RFPacket, RFLast,
         RFSilence, RFTick, Tick, vars, usbpad, node, jsdev
<1> QED
  BY <1>2, <1>3, <1>4, <1>5, <1>6, <1>7, <1>8, <1>9, Steps DEF ReadUSB

LEMMA EvdevStep == ASSUME TypeOK, Nodes, Evdev, [Next]_vars PROVE Evdev'
<1> USE TypeParts
<1>1. CASE UNCHANGED <<link, plugs, ev, evfd, evq, gkey, edrop, hand, kind>>
  BY <1>1 DEF Evdev, EvAlive
<1>2. CASE PlugIn \/ Unplug \/ EvAppears \/ EvRemoved \/ JsRemoved
  BY <1>2 DEF Evdev, EvAlive, Nodes, NodeTypes, PlugIn, Unplug, EvAppears,
         EvRemoved, JsRemoved, evdevs
<1>3. CASE Move
  <2>1. PICK e \in Events :
           /\ hand' = Moved(hand, e)
           /\ EvAlive /\ ~edrop' => evq' = Append(evq, e)
    BY <1>3 DEF Move
  <2>2. UNCHANGED <<link, plugs, ev, evfd, gkey, kind>> /\ (edrop => edrop')
    BY <1>3 DEF Move, node, chosen
  <2> QED
    BY <2>1, <2>2, FollowsMove DEF Evdev, EvAlive, HandTypes, QueueTypes
<1>4. CASE EvGone
  BY <1>4 DEF Evdev, EvAlive, Nodes, NodeTypes, EvGone, Return, usbpad, node
<1>5. CASE EvOpen
  BY <1>5, FollowsEmpty DEF Evdev, HandTypes, EvOpen, Return, usbpad, node
<1>6. CASE EvRead
  <2>1. UNCHANGED <<link, plugs, ev, hand, evfd, edrop, kind>>
    BY <1>6 DEF EvRead, Return, usbpad, node, chosen
  <2>2. CASE UNCHANGED <<evq, gkey>>
    BY <2>1, <2>2 DEF Evdev, EvAlive
  <2>3. CASE evq # <<>> /\ gkey' = AfterEv(gkey, Head(evq)) /\ evq' = Tail(evq)
    <3>1. gkey' = After(kind, gkey, Head(evq))
      BY <2>3 DEF After, AfterEv
    <3> QED
      BY <2>1, <2>3, <3>1, FollowsRead DEF Evdev, EvAlive, HandTypes, QueueTypes
  <2> QED
    BY <1>6, <2>2, <2>3 DEF EvRead
<1>7. CASE RFPad \/ JsAppears
  BY <1>1, <1>7 DEF RFPad, JsAppears, node, evdevs, chosen
<1>8. CASE JsClosed \/ JsOpen \/ JsRead
  BY <1>1, <1>8 DEF JsClosed, JsOpen, JsRead, Return, usbpad, node, evdevs, chosen
<1>9. CASE ReadRF \/ ReadJoystick \/ EnterMenu \/ RFThread \/ Tick \/ UNCHANGED vars
  BY <1>1, <1>9 DEF ReadRF, ReadJoystick, EnterMenu, RFThread, RFPacket, RFLast,
         RFSilence, RFTick, Tick, vars, usbpad, node, evdevs, chosen
<1> QED
  BY <1>2, <1>3, <1>4, <1>5, <1>6, <1>7, <1>8, <1>9, Steps DEF ReadUSB

(* However long the queues, ReadUSBJoy and cgm_evdev_poll, which take one  *)
(* event per call, end with no key that the player does not hold.          *)
THEOREM JoystickNoGhosts == Spec => []NoGhostKeys
<1>1. TypeOK /\ [Next]_vars => TypeOK'
  BY TypedStep
<1>2. Init => Nodes /\ Joydev /\ Evdev
  BY DEF Init, Nodes, Joydev, Evdev
<1>3. TypeOK /\ Joydev /\ Evdev => NoGhostKeys
  BY TypeParts, FollowsIdle DEF Joydev, Evdev, NoGhostKeys, KeyTypes, HandTypes
<1> QED
  BY <1>1, <1>2, <1>3, TypedInit, NodesStep, JoydevStep, EvdevStep, PTL DEF Spec
=============================================================================
