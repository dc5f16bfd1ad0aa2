---------------------------- MODULE MCDeviceFlow ----------------------------
(* DeviceFlow for TLC.  Three kinds of devices: one that polls as soon as it *)
(* may, one whose calls take time and whose answers get lost, and one whose  *)
(* polls overlap.                                                            *)
EXTENDS DeviceFlow

MCRegimes ==
    {d \in [serial : BOOLEAN, polite : BOOLEAN, prompt : BOOLEAN, lossy : BOOLEAN,
            strangers : BOOLEAN, skew : {0, Interval}, claims : BOOLEAN,
            slowUpdates : BOOLEAN] :
        \/ d.serial /\ d.prompt /\ ~d.lossy /\ d.strangers
        \/ d.serial /\ ~d.prompt /\ d.lossy /\ ~d.strangers /\ d.skew = 0
        \/ /\ d.serial /\ ~d.prompt /\ ~d.lossy /\ d.strangers
           /\ d.skew = 0 /\ d.polite /\ d.slowUpdates
        \/ /\ ~d.serial /\ ~d.polite /\ ~d.prompt /\ ~d.lossy /\ ~d.strangers
           /\ d.skew = 0 /\ d.claims /\ ~d.slowUpdates}
=============================================================================
