------------------------------ MODULE MCHotkey ------------------------------
(* Instances of Hotkey for TLC.                                             *)
EXTENDS Hotkey

CONSTANTS kbd, mirror

OneKeyboard == {kbd}
TwoKeyboards == {kbd, mirror}

\* One tick of delay at keyd's own device, shorter than the settle interval.
OneLag == [d \in OneKeyboard |-> 1]
\* A mirror slower than the settle interval but faster than the cooldown.
MirrorLag == [d \in TwoKeyboards |-> IF d = kbd THEN 1 ELSE 2]
=============================================================================
