------------------------------- MODULE Desktop -------------------------------
(***************************************************************************)
(* The desktop application (cnproxy-app/src-tauri/src/lib.rs) around the   *)
(* proxy: it spawns cnproxy as a sidecar, points the system proxy at it,   *)
(* installs its root certificate and kills it on the way out.  The sidecar *)
(* makes or loads its certificate authority (src/cert/ca.ts) and then is   *)
(* the process of AutoSave, whose every step is a step here.               *)
(*                                                                         *)
(* A root is one generated key pair with its certificate.  A file holds    *)
(* the part of a root, nothing, or the torn rest of a write that a kill    *)
(* cut short.  One instance runs at a time (single-instance plugin).       *)
(***************************************************************************)
EXTENDS AutoSave

CONSTANTS
    Roots,        \* the roots that can be generated
    None, Stump   \* no file, a file cut short

ASSUME RootsAssumption == None \notin Roots /\ Stump \notin Roots /\ None # Stump

VARIABLES
    app,       \* the shell: "off", "running", or "exiting" once Quit was chosen
    sidecar,   \* the child process, from CertificateAuthority.init() to its end
    flag,      \* system_proxy_on
    system,    \* the system's proxy setting, "unknown" after a failed command
    crt, key,  \* ca.crt and ca.key
    root,      \* caCert and caKey of the running authority
    trusted,   \* the root in the system's trust store
    early      \* it was put there before its key was on the disk

shellVars == <<app, flag, system>>
caVars == <<crt, key, root>>
trust == <<trusted, early>>
desktopVars == <<shellVars, sidecar, caVars, trust>>
allVars == <<vars, desktopVars>>

Files == Roots \cup {None, Stump}

NoRoot == [crt |-> None, key |-> None]

DesktopTypeOK ==
    /\ TypeOK
    /\ app \in {"off", "running", "exiting"}
    /\ sidecar \in {"none", "init", "halfway", "listening", "up"}
    /\ flag \in BOOLEAN
    /\ system \in {"off", "on", "unknown"}
    /\ crt \in Files /\ key \in Files
    /\ root \in [crt : Roots \cup {None}, key : Roots \cup {None}]
    /\ trusted \in Roots \cup {None}
    /\ early \in BOOLEAN
    /\ sidecar = "up" <=> Up

DesktopInit ==
    /\ Init
    /\ app = "off"
    /\ sidecar = "none"
    /\ flag = FALSE
    /\ system = "off"
    /\ crt = None /\ key = None
    /\ root = NoRoot
    /\ trusted = None
    /\ early = FALSE

-----------------------------------------------------------------------------
(* The certificate authority of a starting sidecar.                        *)

\* Broken: asks the memory, which is empty, instead of the disk.
CaIsLoaded == root.crt # None /\ root.key # None

CaExists == crt # None /\ key # None

\* A file that was cut short does not parse: start() rejects, and main() exits.
LoadCa ==
    /\ sidecar = "init"
    /\ CaExists
    /\ IF Stump \in {crt, key}
       THEN sidecar' = "none" /\ UNCHANGED root
       ELSE sidecar' = "listening" /\ root' = [crt |-> crt, key |-> key]
    /\ UNCHANGED <<vars, shellVars, crt, key, trust>>

\* Generated roots are all different; which one it is does not matter.
Fresh == Roots \ {crt, key, trusted}

\* Broken: what is there of an earlier attempt is kept.
GenerateMissing ==
    /\ sidecar = "init"
    /\ ~CaExists
    /\ Fresh # {}
    /\ LET r == CHOOSE r \in Fresh : TRUE IN
        /\ root' = [crt |-> r, key |-> r]
        /\ crt' = IF crt = None THEN r ELSE crt
    /\ sidecar' = "halfway"
    /\ UNCHANGED <<vars, shellVars, key, trust>>

\* generateRootCA() and the first of the two writes.
GenerateCa ==
    /\ sidecar = "init"
    /\ ~CaExists
    /\ Fresh # {}
    /\ LET r == CHOOSE r \in Fresh : TRUE IN
        /\ root' = [crt |-> r, key |-> r]
        /\ crt' = r
    /\ sidecar' = "halfway"
    /\ UNCHANGED <<vars, shellVars, key, trust>>

WriteKey ==
    /\ sidecar = "halfway"
    /\ key' = root.key
    /\ sidecar' = "listening"
    /\ UNCHANGED <<vars, shellVars, crt, root, trust>>

\* The file being written when the process is killed.
CutShort ==
    \/ UNCHANGED <<crt, key>>
    \/ sidecar = "init" /\ ~CaExists /\ crt' = Stump /\ UNCHANGED key
    \/ sidecar = "halfway" /\ key' = Stump /\ UNCHANGED crt

Gone ==
    /\ sidecar' = "none"
    /\ root' = NoRoot

\* SIGKILL: no handler of the proxy runs.
KillSidecar ==
    /\ Gone
    /\ CutShort
    /\ IF Up THEN Crash ELSE UNCHANGED vars

-----------------------------------------------------------------------------
(* The shell.                                                              *)

\* setup(): the state is fresh, and the sidecar is spawned, which may fail.
\* The setting of the system is not looked at.
Launch ==
    /\ app = "off"
    /\ app' = "running"
    /\ sidecar' \in {"none", "init"}
    /\ flag' = FALSE
    /\ UNCHANGED <<vars, system, caVars, trust>>

\* toggle_system_proxy(), to whatever port the sidecar has reported, if any:
\* some of the commands may fail, and nobody looks.
SwitchProxy ==
    /\ flag' = ~flag
    /\ system' \in {IF flag THEN "off" ELSE "on", "unknown"}

\* From the tray menu or the page.
Toggle ==
    /\ app # "off"
    /\ SwitchProxy
    /\ UNCHANGED <<vars, app, sidecar, caVars, trust>>

\* The tray's or the menu bar's Quit, which asks the event loop to exit.
Quit ==
    /\ app = "running"
    /\ app' = "exiting"
    /\ IF flag THEN SwitchProxy ELSE UNCHANGED <<flag, system>>
    /\ UNCHANGED <<vars, sidecar, caVars, trust>>

\* Broken: leaves the setting to Quit.
ExitAfterQuit ==
    /\ app # "off"
    /\ app' = "off"
    /\ KillSidecar
    /\ UNCHANGED <<flag, system, trust>>

\* RunEvent::Exit, after Quit or because the last window was closed.
ExitApp ==
    /\ app # "off"
    /\ app' = "off"
    /\ IF flag THEN SwitchProxy ELSE UNCHANGED <<flag, system>>
    /\ KillSidecar
    /\ UNCHANGED trust

\* install_ca_cert(): of what ca.crt holds, if the user lets it.
InstallCa ==
    /\ app # "off"
    /\ crt \in Roots
    /\ trusted' = crt
    /\ early' = (key # crt)
    /\ UNCHANGED <<vars, shellVars, sidecar, caVars>>

UninstallCa ==
    /\ app # "off"
    /\ trusted' = None
    /\ early' = FALSE
    /\ UNCHANGED <<vars, shellVars, sidecar, caVars>>

-----------------------------------------------------------------------------
(* The sidecar.                                                            *)

StartProxy ==
    /\ sidecar = "listening"
    /\ sidecar' = "up"
    /\ Start
    /\ UNCHANGED <<shellVars, caVars, trust>>

\* The sidecar ends by itself, in the middle of anything or (Exit) after a
\* SIGTERM at logout.  CommandEvent::Terminated is only logged.
SidecarDies ==
    /\ sidecar # "none"
    /\ KillSidecar
    /\ UNCHANGED <<shellVars, trust>>

SidecarExits ==
    /\ Exit
    /\ Gone
    /\ UNCHANGED <<shellVars, crt, key, trust>>

\* What proxy, operator and page do without the shell.  The page is the one in
\* the window, opened by the event `cnproxy-ready`, or one in a browser.
ProxyStep ==
    /\ \/ Clear \/ TimerFires \/ InspectorSaves \/ SaveNamed \/ Stop \/ Flush
       \/ PageOpens \/ PageCloses
       \/ \E k \in DOMAIN list : OperatorLoads(list[k])
       \/ \E f \in Flows : Add(f) \/ Update(f) \/ ChangeUnheard(f) \/ Remove(f)
    /\ UNCHANGED desktopVars

-----------------------------------------------------------------------------

DesktopNext ==
    \/ Launch \/ LoadCa \/ GenerateCa \/ WriteKey \/ StartProxy
    \/ Toggle \/ Quit \/ ExitApp \/ InstallCa \/ UninstallCa
    \/ SidecarDies \/ SidecarExits \/ ProxyStep

DesktopSpec == DesktopInit /\ [][DesktopNext]_allVars

\* As in AutoSave: timers fire and a stop runs to its end.
DesktopFairSpec ==
    /\ DesktopSpec
    /\ WF_allVars(TimerFires /\ UNCHANGED desktopVars)
    /\ WF_allVars(Flush /\ UNCHANGED desktopVars)
    /\ WF_allVars(SidecarExits)

-----------------------------------------------------------------------------

\* However the application ends, and whatever the user does between Quit and
\* the exit event, the system is not left pointing at a proxy that is gone,
\* unless a command failed (lib.rs, Quit and RunEvent::Exit).
ProxyClearedWithApp ==
    app = "off" => system \in {"off", "unknown"}

\* The certificate and the key a running sidecar signs with are one root, the
\* one on the disk, which is the one Install CA trusts: a kill between the two
\* writes of an earlier start has not left halves of two (ca.ts, init).
SigningRootIsOnDisk ==
    sidecar = "up" => /\ root.crt = root.key
                      /\ crt = root.crt /\ key = root.key

\* A root the system came to trust once it was complete goes on signing, over
\* kills and restarts: it is never generated anew (ca.ts: "generated once and
\* persisted to disk; users trust it").
TrustedRootSigns ==
    sidecar = "up" /\ trusted # None /\ ~early => root.crt = trusted

=============================================================================
