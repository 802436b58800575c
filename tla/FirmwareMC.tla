----------------------------- MODULE FirmwareMC -----------------------------
(* An instance of Firmware for TLC.                                        *)
EXTENDS Firmware

CONSTANTS w1, w2, t1, t2, t3

TwoWorkers == {w1, w2}

ThreeThreads == {t1, t2, t3}

FirmwareParts == {"firmware", "mac", "bus", "life"}

Budget(firmware, mac, bus, ends) ==
  [firmware |-> firmware, mac |-> mac, bus |-> bus, life |-> ends]

\* Queries of one kind, of both kinds next to the plugin's end, and the states.
FirmwareBudgets ==
  {Budget(2, 0, 0, 1), Budget(0, 3, 0, 1), Budget(1, 1, 0, 1), Budget(0, 0, 3, 1)}

\* No image for the device, none named, the current one, and another one.
ServerReplies ==
  {[http |-> 404, offered |-> "none"], [http |-> 200, offered |-> "none"],
   [http |-> 200, offered |-> "current"], [http |-> 200, offered |-> "newer"]}

=============================================================================
