------------------------------- MODULE Devices -------------------------------
(***************************************************************************)
(* The choice of audio devices and of one stream format for both, from     *)
(* device_selection.rs and device.rs.  A result is a set: empty for an     *)
(* error, else its only element.  A device is a record:                    *)
(*   matches   the selectors its name contains, case ignored               *)
(*   ranges    its supported configurations [format, channels, min, max]   *)
(*   default   the set of its default configuration [format, channels, rate] *)
(***************************************************************************)
EXTENDS Integers, FiniteSets

NoNeedle == "no selector"

SelectDevice(devices, needle, default) ==
  LET found == {d \in devices : needle \in d.matches}
  IN  IF needle = NoNeedle THEN default
      ELSE IF Cardinality(found) = 1 THEN found ELSE {}

\* (Mutant: the sample format is not compared.)
ConfigMatchesAny(range, rate, channels) ==
  range.channels = channels /\ range.min <= rate /\ rate <= range.max
ConfigMatches(range, rate, channels) ==
  /\ range.format = "f32"
  /\ range.channels = channels /\ range.min <= rate /\ rate <= range.max

\* choose_config: what was asked for, else the device's default if it is f32.
FindMatchingConfig(d, rate, channels) ==
  {[rate |-> rate, channels |-> channels] :
     range \in {r \in d.ranges : ConfigMatches(r, rate, channels)}}
DefaultConfig(d) ==
  {[rate |-> c.rate, channels |-> c.channels] : c \in {c \in d.default : c.format = "f32"}}
ChooseConfig(d, rate, channels) ==
  IF FindMatchingConfig(d, rate, channels) # {}
  THEN FindMatchingConfig(d, rate, channels) ELSE DefaultConfig(d)

\* negotiate_devices: the output is asked for the format the input got.
Negotiated(host, cli) ==
  UNION {
    {[input |-> a, output |-> b, format |-> f] :
       f \in {g \in ChooseConfig(a, cli.rate, cli.channels) :
                g \in ChooseConfig(b, g.rate, g.channels)}} :
    a \in SelectDevice(host.inputs, cli.capture, host.defaultInput),
    b \in SelectDevice(host.outputs, cli.playback, host.defaultOutput)}

\* What the device really does with an f32 stream of a format.
Supports(d, f) ==
  \/ \E r \in d.ranges : r.format = "f32" /\ r.channels = f.channels
                          /\ f.rate \in r.min..r.max
  \/ \E c \in d.default : c.format = "f32" /\ c.channels = f.channels /\ c.rate = f.rate
=============================================================================
