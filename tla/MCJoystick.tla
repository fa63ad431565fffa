----------------------------- MODULE MCJoystick ------------------------------
(* Joystick for TLC: a USB pad with either kind of directions, in the build *)
(* with the evdev fallback and without, and a wireless pad.                 *)
EXTENDS Joystick

Setup(p, e, k, f, m) ==
    [pads |-> {p}, evdev |-> e, kind |-> k, failures |-> f, moves |-> m]

Held == {Free, [button |-> "on", axis |-> "up"]}

Factory == {Setup("usb", FALSE, "hat", 0, 1)}
AllSetups == {Setup("usb", FALSE, "hat", 1, 2),
              Setup("usb", TRUE, "hat", 0, 2), Setup("usb", TRUE, "stick", 0, 2),
              Setup("usb", TRUE, "stick", 1, 1), Setup("rf", FALSE, "hat", 0, 2)}
=============================================================================
