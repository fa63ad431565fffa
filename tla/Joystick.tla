------------------------------- MODULE Joystick -------------------------------
(***************************************************************************)
(* How the keys of one player reach the program.  A wireless pad talks to  *)
(* the thread RF_Joystick_timer_isr, which keeps RF_joy_key; a USB pad has *)
(* a joydev node (/dev/input/jsN) and an event node, whose event queues    *)
(* ReadUSBJoy and cgm_evdev_poll drain by one event per call.              *)
(* ReadJoystickProc combines both into joy_key, and ReadJoystick turns     *)
(* joy_key into key presses for the menus.                                 *)
(*                                                                         *)
(* The four slots run the same code side by side: the model has one.  The  *)
(* program may be busy elsewhere for any time between two polls, while     *)
(* pads come and go and queues fill.                                       *)
(***************************************************************************)
EXTENDS Naturals, Sequences

CONSTANTS
    Setups,         \* the pads about, is CGM_ENABLE_EVDEV defined, how the
                    \* event node reports directions; bounds: opens that
                    \* fail, changes of the pads' state
    QueueSize,      \* events a queue holds before the kernel drops them
    RFTimeout,      \* polls without a packet until the key is cleared: 0x100
    TimerSize,      \* TimeCountReg is unsigned short: 0x10000
    RepeatAt,       \* 0x27
    RepeatFrom,     \* 0x1e
    HeldAtPlug,     \* bound: what the player may hold while he plugs it in
    MaxPlugs        \* bound: times the USB pad is plugged in

ASSUME SetupAssumption ==
    Setups \subseteq [pads : SUBSET {"usb", "rf"}, evdev : BOOLEAN,
                      kind : {"hat", "stick"}, failures : Nat, moves : Nat]
ASSUME SizeAssumption  == /\ QueueSize \in Nat \ {0}
                          /\ RFTimeout \in Nat /\ TimerSize \in Nat
                          /\ RFTimeout < TimerSize - 1
ASSUME RepeatAssumption == /\ RepeatAt \in Nat /\ RepeatFrom \in Nat
                           /\ RepeatFrom < RepeatAt
ASSUME HeldAssumption ==
    HeldAtPlug \subseteq [button : {"on", "off"}, axis : {"up", "mid", "down"}]
ASSUME BoundAssumption == MaxPlugs \in Nat

(* What a hand does to the USB pad, one button and one axis, and the bits  *)
(* of joy_key that say so.                                                 *)
Axis  == {"up", "mid", "down"}
Button == {"on", "off"}
Hands == [button : Button, axis : Axis]
Free  == [button |-> "off", axis |-> "mid"]
Keys(h) == (IF h.button = "on" THEN {"a"} ELSE {}) \union ({h.axis} \ {"mid"})

(* An event carries the new position of the control that moved.            *)
Events == [control : {"button"}, value : Button]
            \union [control : {"axis"}, value : Axis]

(* Keys of the wireless pad: "x" comes with the first byte of a packet,    *)
(* "z" is the bit of that byte looked at last, "y" comes with the second,  *)
(* whose keys the program never learns (see RFPacket).                     *)
RFKeys == {"x", "y", "z"}
UsbKeys == {"a", "up", "down"}

VARIABLES
    pads, evdev, kind,  \* chosen at the start
    (* the USB pad and the kernel *)
    link,       \* "out", "in", or "leaving": its nodes are being removed
    plugs,      \* number of the last connection
    ours,       \* its joydev node has the number of this slot
    js, ev,     \* the joydev node, the event node is there
    hand,       \* what the player does to the pad
    moves,      \* changes the player may still make
    (* the program *)
    joyfd,      \* joystick_fd: the connection it was opened on, or 0
    joyq,       \* events waiting in it
    tmp,        \* joy_key_tmp
    evfd,       \* g_fd
    evq,
    gkey,       \* g_key
    cold,       \* g_backoff_until is in the future
    pcM,        \* main thread: "poll", "usb", "menu"
    rfsnap,     \* the RF key read by ReadJoystickProc
    joy,        \* joy_key
    press,      \* Joy1_Press
    delay,      \* Joy1_Delay
    report,     \* what ReadJoystick returned
    (* the wireless pad and its thread *)
    range,      \* the pad is switched on and in range
    rfhand,     \* keys of the first byte held on it
    rfkey,      \* RF_joy_key
    timer,      \* TimeCountReg
    pcR,        \* "packet", "last", "tick"
    rfnow,      \* keys of the packet at hand
    faults,     \* opens that may still fail
    (* history *)
    jdrop, edrop,   \* events of the open queue were dropped
    seen,           \* ReadUSBJoy has closed the descriptor of a removed node
    missed,         \* the node came back before ReadUSBJoy saw it gone
    run             \* calls of ReadJoystick that saw the key held now

chosen == <<pads, evdev, kind>>
node   == <<link, plugs, ours, js, ev>>
usbpad == <<node, hand, moves>>
jsdev  == <<joyfd, joyq, tmp, jdrop, seen, missed>>
evdevs == <<evfd, evq, gkey, cold, edrop>>
menu   == <<press, delay, report, run>>
rf     == <<range, rfhand, rfkey, timer, pcR, rfnow>>

vars == <<chosen, usbpad, jsdev, evdevs, pcM, rfsnap, joy, menu, rf, faults>>

Init ==
    /\ \E s \in Setups :
         /\ pads = s.pads /\ evdev = s.evdev /\ kind = s.kind
         /\ faults = s.failures /\ moves = s.moves
    /\ link = "out" /\ plugs = 0 /\ ours = TRUE /\ js = FALSE /\ ev = FALSE
    /\ hand = Free
    /\ joyfd = 0 /\ joyq = <<>> /\ tmp = {}
    /\ evfd = 0 /\ evq = <<>> /\ gkey = {} /\ cold = FALSE
    /\ pcM = "poll" /\ rfsnap = {} /\ joy = {}
    /\ press = {} /\ delay = 0 /\ report = {}
    /\ range = FALSE /\ rfhand = {} /\ rfkey = {} /\ timer = 0
    /\ pcR = "packet" /\ rfnow = {}
    /\ jdrop = FALSE /\ edrop = FALSE /\ run = 0
    /\ seen = TRUE /\ missed = FALSE

-----------------------------------------------------------------------------
(* The USB pad and the kernel's input core.                                *)

JsAlive == joyfd = plugs /\ js
EvAlive == evfd = plugs /\ ev

PlugIn ==
    /\ "usb" \in pads
    /\ link = "out"
    /\ plugs < MaxPlugs
    /\ plugs' = plugs + 1
    /\ link' = "in"
    /\ ours' \in BOOLEAN
    /\ hand' \in HeldAtPlug
    /\ UNCHANGED <<chosen, js, ev, moves, jsdev, evdevs, pcM, rfsnap, joy,
                   menu, rf, faults>>

JsAppears ==
    /\ link = "in" /\ ours /\ ~js
    /\ js' = TRUE
    /\ missed' = ~seen
    /\ UNCHANGED <<chosen, link, plugs, ours, ev, hand, moves, joyfd, joyq, tmp,
                   jdrop, seen, evdevs, pcM, rfsnap, joy, menu, rf, faults>>

EvAppears ==
    /\ link = "in" /\ ~ev
    /\ ev' = TRUE
    /\ UNCHANGED <<chosen, link, plugs, ours, js, hand, moves, jsdev, evdevs,
                   pcM, rfsnap, joy, menu, rf, faults>>

Unplug ==
    /\ link = "in"
    /\ link' = IF js \/ ev THEN "leaving" ELSE "out"
    /\ hand' = Free
    /\ UNCHANGED <<chosen, plugs, ours, js, ev, moves, jsdev, evdevs, pcM,
                   rfsnap, joy, menu, rf, faults>>

(* A read from a removed device fails whatever was still queued.           *)
JsRemoved ==
    /\ link = "leaving" /\ js
    /\ js' = FALSE
    /\ link' = IF ev THEN "leaving" ELSE "out"
    /\ joyq' = <<>>
    /\ seen' = (joyfd = 0)
    /\ UNCHANGED <<chosen, plugs, ours, ev, hand, moves, joyfd, tmp, jdrop,
                   missed, evdevs, pcM, rfsnap, joy, menu, rf, faults>>

EvRemoved ==
    /\ link = "leaving" /\ ev
    /\ ev' = FALSE
    /\ link' = IF js THEN "leaving" ELSE "out"
    /\ evq' = <<>>
    /\ UNCHANGED <<chosen, plugs, ours, js, hand, moves, jsdev, evfd, gkey,
                   cold, edrop, pcM, rfsnap, joy, menu, rf, faults>>

Moved(h, e) == [h EXCEPT ![e.control] = e.value]

(* A full joydev queue is emptied, a full evdev queue keeps the newest.    *)
Move ==
    /\ link = "in"
    /\ moves > 0
    /\ moves' = moves - 1
    /\ \E e \in Events :
         /\ hand[e.control] # e.value
         /\ hand' = Moved(hand, e)
         /\ LET jfull == JsAlive /\ Len(joyq) + 1 >= QueueSize
                efull == EvAlive /\ Len(evq) + 1 >= QueueSize
            IN /\ joyq' = IF ~JsAlive THEN joyq
                          ELSE IF jfull THEN <<>> ELSE Append(joyq, e)
               /\ evq'  = IF ~EvAlive THEN evq
                          ELSE IF efull THEN <<e>> ELSE Append(evq, e)
               /\ jdrop' = (jdrop \/ jfull)
               /\ edrop' = (edrop \/ efull)
    /\ UNCHANGED <<chosen, node, joyfd, tmp, seen, missed, evfd, gkey, cold, pcM,
                   rfsnap, joy, menu, rf, faults>>

-----------------------------------------------------------------------------
(* ReadJoystickProc: the wireless key, then ReadUSBJoy, then joy_key.      *)

ReadRF ==
    /\ pcM = "poll"
    /\ rfsnap' = rfkey
    /\ pcM' = "usb"
    /\ UNCHANGED <<chosen, usbpad, jsdev, evdevs, joy, menu, rf, faults>>

(* ReadUSBJoy(slot) = k.  The caller is the game loop, or ReadJoystick.    *)
Return(k) ==
    /\ pcM = "usb"
    /\ joy' = rfsnap \union k
    /\ rfsnap' = {}
    /\ \/ pcM' = "poll"
       \/ pcM' = "menu"
    /\ UNCHANGED <<chosen, usbpad, menu, rf>>

(* Mutant: the node is gone, and its descriptor kept. *)
JsClosed_KeepsOpen ==
    /\ ~js
    /\ evdev => evfd = 0
    /\ \/ (evdev => cold \/ ~ev) /\ faults' = faults
       \/ evdev /\ ~cold /\ ev /\ faults > 0 /\ faults' = faults - 1
    /\ cold' = (cold \/ evdev)
    /\ seen' = TRUE /\ missed' = FALSE
    /\ Return(tmp)
    /\ UNCHANGED <<joyfd, joyq, tmp, jdrop, evfd, evq, gkey, edrop>>

(* No joydev node, and no event node to fall back on: cgm_evdev_ready      *)
(* tries to open one at most once a second.  The last key is returned.     *)
JsClosed ==
    /\ ~js
    /\ evdev => evfd = 0
    /\ \/ (evdev => cold \/ ~ev) /\ faults' = faults
       \/ evdev /\ ~cold /\ ev /\ faults > 0 /\ faults' = faults - 1
    /\ cold' = (cold \/ evdev)
    /\ joyfd' = 0 /\ joyq' = <<>>
    /\ seen' = TRUE /\ missed' = FALSE
    /\ Return(tmp)
    /\ UNCHANGED <<tmp, jdrop, evfd, evq, gkey, edrop>>

(* cgm_evdev_open, then cgm_evdev_poll finds nothing to read yet.          *)
EvOpen ==
    /\ ~js /\ evdev
    /\ evfd = 0 /\ ~cold /\ ev
    /\ evfd' = plugs /\ evq' = <<>> /\ gkey' = {} /\ edrop' = FALSE
    /\ Return({})
    /\ UNCHANGED <<jsdev, cold, faults>>

(* Only one of the pair's bits is touched, unless it is back in the middle.*)
AfterHat(k, e) ==
    IF e.control = "axis"
    THEN IF e.value = "mid" THEN k \ {"up", "down"} ELSE k \union {e.value}
    ELSE IF e.value = "on" THEN k \union {"a"} ELSE k \ {"a"}

(* Mutant: a release is not an event. *)
AfterJs_NoRelease(k, e) ==
    IF e.control = "axis"
    THEN IF e.value = "mid" THEN k ELSE (k \ {"up", "down"}) \union {e.value}
    ELSE IF e.value = "on" THEN k \union {"a"} ELSE k

(* Both bits of the pair are cleared before one is set.                    *)
AfterJs(k, e) ==
    IF e.control = "axis"
    THEN (k \ {"up", "down"}) \union ({e.value} \ {"mid"})
    ELSE IF e.value = "on" THEN k \union {"a"} ELSE k \ {"a"}

AfterEv(k, e) == IF kind = "hat" THEN AfterHat(k, e) ELSE AfterJs(k, e)

EvRead ==
    /\ ~js /\ evdev
    /\ evfd # 0 /\ EvAlive
    /\ \/ /\ evq = <<>>
          /\ Return(gkey)
          /\ UNCHANGED <<evq, gkey>>
       \/ /\ evq # <<>>
          /\ gkey' = AfterEv(gkey, Head(evq))
          /\ evq' = Tail(evq)
          /\ Return(AfterEv(gkey, Head(evq)))
    /\ UNCHANGED <<jsdev, evfd, cold, edrop, faults>>

(* ENODEV: closed, but g_key is kept and returned.                         *)
EvGone ==
    /\ ~js /\ evdev
    /\ evfd # 0 /\ ~EvAlive
    /\ evfd' = 0
    /\ Return(gkey)
    /\ UNCHANGED <<jsdev, evq, gkey, cold, edrop, faults>>

(* Mutant: the keys of the pad before are kept. *)
JsOpen_KeepsKey ==
    /\ js /\ joyfd = 0
    /\ \/ /\ joyfd' = plugs /\ joyq' = <<>> /\ tmp' = tmp /\ jdrop' = FALSE
          /\ Return(tmp)
          /\ faults' = faults
       \/ /\ faults > 0 /\ faults' = faults - 1
          /\ Return(tmp)
          /\ UNCHANGED <<joyfd, joyq, tmp, jdrop>>
    /\ UNCHANGED <<seen, missed, evdevs>>

(* The state of the pad at the opening comes as events of another type,    *)
(* which ReadUSBJoy skips: a key held then is seen when it moves again.    *)
JsOpen ==
    /\ js /\ joyfd = 0
    /\ \/ /\ joyfd' = plugs /\ joyq' = <<>> /\ tmp' = {} /\ jdrop' = FALSE
          /\ Return({})
          /\ faults' = faults
       \/ /\ faults > 0 /\ faults' = faults - 1
          /\ Return(tmp)
          /\ UNCHANGED <<joyfd, joyq, tmp, jdrop>>
    /\ UNCHANGED <<seen, missed, evdevs>>

(* One event per call.  A failing read counts as "nothing new".            *)
JsRead ==
    /\ js /\ joyfd # 0
    /\ \/ /\ joyq = <<>> \/ ~JsAlive
          /\ Return(tmp)
          /\ UNCHANGED <<joyq, tmp>>
       \/ /\ joyq # <<>> /\ JsAlive
          /\ tmp' = AfterJs(tmp, Head(joyq))
          /\ joyq' = Tail(joyq)
          /\ Return(AfterJs(tmp, Head(joyq)))
    /\ UNCHANGED <<joyfd, jdrop, seen, missed, evdevs, faults>>

(* Time passes: the second without a new attempt is over.                  *)
Tick ==
    /\ cold
    /\ cold' = FALSE
    /\ UNCHANGED <<chosen, usbpad, jsdev, evfd, evq, gkey, edrop, pcM, rfsnap,
                   joy, menu, rf, faults>>

-----------------------------------------------------------------------------
(* ReadJoystick: a key is reported when it changes, and repeated while it  *)
(* is held.                                                                *)

(* run counts the calls up to the first repetition, then from one          *)
(* repetition to the next.                                                 *)
Runs == IF joy # press THEN 1
        ELSE IF run = RepeatAt + 1 + (RepeatAt - RepeatFrom)
             THEN RepeatAt + 2 ELSE run + 1

(* Mutant: the delay of the key before goes on. *)
ReadJoystick_KeepsDelay ==
    /\ pcM = "menu"
    /\ pcM' = "poll"
    /\ \/ /\ joy = {}
          /\ press' = {} /\ delay' = 0 /\ report' = {} /\ run' = 0
       \/ /\ joy # {} /\ joy # press
          /\ press' = joy /\ report' = joy /\ run' = 1 /\ delay' = delay
       \/ /\ joy # {} /\ joy = press
          /\ IF delay + 1 < RepeatAt
             THEN delay' = delay + 1 /\ report' = {}
             ELSE delay' = RepeatFrom /\ report' = joy
          /\ run' = Runs
          /\ press' = press
    /\ UNCHANGED <<chosen, usbpad, jsdev, evdevs, rfsnap, joy, rf, faults>>

(* Mutant: no way back from the limit. *)
ReadJoystick_NoBackoff ==
    /\ pcM = "menu"
    /\ pcM' = "poll"
    /\ \/ /\ joy = {}
          /\ press' = {} /\ delay' = 0 /\ report' = {} /\ run' = 0
       \/ /\ joy # {} /\ joy # press
          /\ press' = joy /\ delay' = 0 /\ report' = joy /\ run' = 1
       \/ /\ joy # {} /\ joy = press
          /\ delay' = delay + 1
          /\ report' = IF delay' < RepeatAt THEN {} ELSE joy
          /\ run' = Runs
          /\ press' = press
    /\ UNCHANGED <<chosen, usbpad, jsdev, evdevs, rfsnap, joy, rf, faults>>

ReadJoystick ==
    /\ pcM = "menu"
    /\ pcM' = "poll"
    /\ \/ /\ joy = {}
          /\ press' = {} /\ delay' = 0 /\ report' = {} /\ run' = 0
       \/ /\ joy # {} /\ joy # press
          /\ press' = joy /\ delay' = 0 /\ report' = joy /\ run' = 1
       \/ /\ joy # {} /\ joy = press
          /\ IF delay + 1 < RepeatAt
             THEN delay' = delay + 1 /\ report' = {}
             ELSE delay' = RepeatFrom /\ report' = joy
          /\ run' = Runs
          /\ press' = press
    /\ UNCHANGED <<chosen, usbpad, jsdev, evdevs, rfsnap, joy, rf, faults>>

(* mui_menu forgets the key: one still held from the game counts as new.   *)
EnterMenu ==
    /\ pcM = "poll"
    /\ press # {} \/ delay # 0
    /\ press' = {} /\ delay' = 0 /\ report' = {} /\ run' = 0
    /\ UNCHANGED <<chosen, usbpad, jsdev, evdevs, pcM, rfsnap, joy, rf, faults>>

-----------------------------------------------------------------------------
(* The wireless pad and RF_Joystick_timer_isr.                             *)

RFPad ==
    /\ "rf" \in pads
    /\ moves > 0
    /\ moves' = moves - 1
    /\ \/ range' = FALSE /\ rfhand' = {}
       \/ range' = TRUE  /\ rfhand' \in SUBSET {"x", "z"}
    /\ UNCHANGED <<chosen, node, hand, jsdev, evdevs, pcM, rfsnap, joy, menu,
                   rfkey, timer, pcR, rfnow, faults>>

(* The second byte of the packet is read into the byte behind local_2c,    *)
(* and its keys are taken from local_2b, which nothing assigns: any value. *)
RFPacket ==
    /\ "rf" \in pads
    /\ pcR = "packet" /\ range
    /\ \E second \in SUBSET {"y"} :
         /\ rfnow' = rfhand \union second
         /\ rfkey' = (rfhand \ {"z"}) \union second
    /\ timer' = 0
    /\ pcR' = "last"
    /\ UNCHANGED <<chosen, usbpad, jsdev, evdevs, pcM, rfsnap, joy, menu,
                   range, rfhand, faults>>

(* The last bit of the first byte is added with a store of its own.        *)
RFLast ==
    /\ pcR = "last"
    /\ rfkey' = IF "z" \in rfnow THEN rfnow ELSE rfkey
    /\ rfnow' = {}
    /\ pcR' = "tick"
    /\ UNCHANGED <<chosen, usbpad, jsdev, evdevs, pcM, rfsnap, joy, menu,
                   range, rfhand, timer, faults>>

RFSilence ==
    /\ "rf" \in pads
    /\ pcR = "packet"
    /\ pcR' = "tick"
    /\ UNCHANGED <<chosen, usbpad, jsdev, evdevs, pcM, rfsnap, joy, menu,
                   range, rfhand, rfkey, timer, rfnow, faults>>

(* Mutant: the limit lies beyond the range of the counter. *)
RFTick_NeverClears ==
    /\ pcR = "tick"
    /\ timer' = (timer + 1) % TimerSize
    /\ rfkey' = IF timer' > TimerSize THEN {} ELSE rfkey
    /\ pcR' = "packet"
    /\ UNCHANGED <<chosen, usbpad, jsdev, evdevs, pcM, rfsnap, joy, menu,
                   range, rfhand, rfnow, faults>>

(* One channel hop later: without a packet for 0x100 hops the key goes.    *)
RFTick ==
    /\ pcR = "tick"
    /\ timer' = (timer + 1) % TimerSize
    /\ rfkey' = IF timer' > RFTimeout THEN {} ELSE rfkey
    /\ pcR' = "packet"
    /\ UNCHANGED <<chosen, usbpad, jsdev, evdevs, pcM, rfsnap, joy, menu,
                   range, rfhand, rfnow, faults>>

-----------------------------------------------------------------------------
Kernel == JsAppears \/ EvAppears \/ JsRemoved \/ EvRemoved

Program == \/ ReadRF \/ JsClosed \/ EvOpen \/ EvRead \/ EvGone
           \/ JsOpen \/ JsRead \/ ReadJoystick

RFThread == RFPacket \/ RFLast \/ RFSilence \/ RFTick

Player == PlugIn \/ Unplug \/ Move \/ RFPad

Next == Player \/ Kernel \/ Program \/ EnterMenu \/ RFThread \/ Tick

Spec == Init /\ [][Next]_vars

(* Nodes follow the plug, the program polls again and again, its thread    *)
(* runs, and time passes.  The player owes nothing.                        *)
FairSpec == /\ Spec
            /\ WF_vars(JsAppears) /\ WF_vars(EvAppears)
            /\ WF_vars(JsRemoved) /\ WF_vars(EvRemoved)
            /\ WF_vars(Program) /\ WF_vars(RFThread) /\ WF_vars(Tick)

-----------------------------------------------------------------------------
TypeOK ==
    /\ \E s \in Setups :
         /\ pads = s.pads /\ evdev = s.evdev /\ kind = s.kind
         /\ faults <= s.failures /\ moves <= s.moves
    /\ link \in {"out", "in", "leaving"}
    /\ plugs \in 0 .. MaxPlugs /\ joyfd \in 0 .. plugs /\ evfd \in 0 .. plugs
    /\ ours \in BOOLEAN /\ js \in BOOLEAN /\ ev \in BOOLEAN
    /\ hand \in Hands /\ moves \in Nat
    /\ joyq \in Seq(Events) /\ evq \in Seq(Events)
    /\ tmp \subseteq UsbKeys /\ gkey \subseteq UsbKeys
    /\ cold \in BOOLEAN
    /\ pcM \in {"poll", "usb", "menu"}
    /\ rfsnap \subseteq RFKeys
    /\ joy \subseteq UsbKeys \union RFKeys
    /\ press \subseteq UsbKeys \union RFKeys
    /\ delay \in 0 .. RepeatAt - 1
    /\ report = {} \/ report = press
    /\ range \in BOOLEAN /\ rfhand \subseteq RFKeys /\ rfkey \subseteq RFKeys
    /\ timer \in 0 .. TimerSize - 1
    /\ pcR \in {"packet", "last", "tick"} /\ rfnow \subseteq RFKeys
    /\ faults \in Nat
    /\ jdrop \in BOOLEAN /\ edrop \in BOOLEAN /\ seen \in BOOLEAN /\ missed \in BOOLEAN
    /\ run \in Nat

(* Once every event is read, joy_key_tmp and g_key hold no key the player  *)
(* does not hold, as long as the pad is plugged in and the kernel dropped  *)
(* nothing.  The exception is a hat thrown from one side to the other.     *)
NoGhostKeys ==
    link = "in" =>
    /\ JsAlive /\ joyq = <<>> /\ ~jdrop => tmp \subseteq Keys(hand)
    /\ EvAlive /\ evq = <<>> /\ ~edrop =>
         gkey \subseteq Keys(hand) \union
             (IF kind = "hat" /\ hand.axis # "mid" THEN {"up", "down"} ELSE {})

(* A key is reported when it is pressed, again after 0x27 further calls of *)
(* ReadJoystick, then every nine calls, and never in between.              *)
RepeatCadence ==
    run > 0 => ((report # {}) =
        (run \in {1, RepeatAt + 1, RepeatAt + 1 + (RepeatAt - RepeatFrom)}))

(* joy_key follows the USB pad: when the player is done, no key of it is   *)
(* pressed that he does not hold, although events are read one by one and  *)
(* pads were exchanged with keys held.                                     *)
Settles ==
    /\ <>[](js /\ ~jdrop /\ ~missed => joy \cap UsbKeys \subseteq Keys(hand))
    /\ <>[](link = "in" /\ ~js /\ evdev /\ kind = "stick" /\ ~edrop
             => joy \cap UsbKeys \subseteq Keys(hand))

(* A pad that was seen to go is read again when it comes back.             *)
RecoversIfNoticed == <>[](js /\ ~missed => joyfd = plugs)

(* A wireless pad out of range lets go of its keys.                        *)
SilentPadReleases == <>[](~range => joy \cap RFKeys = {})

-----------------------------------------------------------------------------
(* ReadUSBJoy.c:36-42 calls hot plugging by access() part of the verified  *)
(* behaviour of the joydev path, and DIAG-RUNBOOK.md:448 sums it up: closed *)
(* when the pad is pulled, opened again when it is back.  So, when plugs    *)
(* rest, what ReadUSBJoy has open is the pad that is there.                *)
PadComesBack == <>[](js => joyfd = plugs)
=============================================================================
