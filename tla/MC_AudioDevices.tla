--------------------------- MODULE MC_AudioDevices ---------------------------
EXTENDS AudioDevices

\* Two devices that share a name, one without a unique id, and a speaker.
MCDescs == {[name |-> "Mic", uid |-> ""], [name |-> "Mic", uid |-> "m1"],
            [name |-> "Spk", uid |-> "s1"]}
=============================================================================
