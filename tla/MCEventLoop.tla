---------------------------- MODULE MCEventLoop ----------------------------
(***************************************************************************)
(* Small instances of the event loop.                                      *)
(***************************************************************************)
EXTENDS EventLoopProperties

SetForeground(p) == [method |-> "set_foreground_process", arg |-> p]
SetMode(m)       == [method |-> "set_cpu_mode", arg |-> m]
SetProfile(p)    == [method |-> "set_cpu_profile", arg |-> p]
Reload           == [method |-> "reload_configuration", arg |-> ""]

MCPids   == {"shell", "game"}
MCCustom == {"gaming"}
AcOnly   == {"ac"}
Laptop   == {"ac", "battery"}

Enabled  == [enable |-> TRUE, profiles |-> {"gaming", "default", "responsive"}]
Disabled == [enable |-> FALSE, profiles |-> {}]
MCConfigs == {Enabled, Disabled}
EnabledOnly == {Enabled}

CpuCalls == {SetMode("Auto"), SetMode("Default"), SetMode("Custom"),
             SetProfile("responsive"), SetProfile("gaming"), SetProfile("")}
ForegroundCalls == {SetForeground(p) : p \in MCPids}
LaptopCalls  == CpuCalls \cup {Reload}
DesktopCalls == ForegroundCalls \cup {Reload}
GameCall     == {SetForeground("game")}
=============================================================================
