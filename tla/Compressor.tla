----------------------------- MODULE Compressor -----------------------------
(***************************************************************************)
(* What the command bus promises the compressor: the bridge never starts   *)
(* the air conditioner before it has been off for MinOff, whichever of the *)
(* bridge and the handset switched it off.  The handset may do as it       *)
(* likes.  Module CommandBus implements this.                              *)
(***************************************************************************)
EXTENDS Naturals

CONSTANT MinOff        \* the minimum off period

VARIABLES
  run,                 \* who started the run in progress, "off" between runs
  offFor               \* how long ago the last run ended, at most MinOff

vars == <<run, offFor>>

TypeOK == run \in {"off", "bridge", "handset"} /\ offFor \in 0..MinOff

Init == run = "off" /\ offFor = MinOff

Start(who) == run = "off" /\ run' = who /\ UNCHANGED offFor

BridgeStart == offFor = MinOff /\ Start("bridge")

HandsetStart == Start("handset")

Stop == run # "off" /\ run' = "off" /\ offFor' = 0

Elapse == offFor < MinOff /\ offFor' = offFor + 1 /\ UNCHANGED run

Next == BridgeStart \/ HandsetStart \/ Stop \/ Elapse

Spec == Init /\ [][Next]_vars
============================================================================
