------------------------------- MODULE Process -------------------------------
(***************************************************************************)
(* main() from the command line to the exit: from_cli (Config), and then   *)
(* the life cycle of the ports it has read (Runtime).                      *)
(***************************************************************************)
EXTENDS Config, Runtime

processVars == <<configVars, runtimeVars>>

ProcessInit == ConfigInit /\ RuntimeInit

ReadCommandLine ==
  /\ phase = "config"
  /\ FromCli
  /\ UNCHANGED runtimeVars

\* from_cli returns the configuration; what it read it from is dropped.
ConfigReady ==
  /\ stage = "done"
  /\ Configure
  /\ config'.ports = ports
  /\ arg' = <<>> /\ target' = NoTarget
  /\ UNCHANGED <<stage, pos, ports>>

ConfigRejected ==
  /\ stage \in {"badPorts", "badTarget", "badValue"}
  /\ ConfigFails
  /\ UNCHANGED configVars

LifeCycle ==
  /\ phase # "config"
  /\ RuntimeNext
  /\ UNCHANGED configVars

ProcessNext == ReadCommandLine \/ ConfigReady \/ ConfigRejected \/ LifeCycle

ProcessSpec == ProcessInit /\ [][ProcessNext]_processVars
=============================================================================
