---------------------------- MODULE DesktopProofs ----------------------------
(***************************************************************************)
(* The process that saves the capture, and the shell that runs it.         *)
(***************************************************************************)
EXTENDS Desktop, TLAPS

-----------------------------------------------------------------------------
(***************************************************************************)
(* No announced change of the capture is forgotten, for any number of      *)
(* flows and of changes.  What matters in every step is what a write that  *)
(* completes leaves out of the file, and that no step takes the dirty flag *)
(* down without a write.                                                   *)
(***************************************************************************)

\* The property and the types it is read with are inductive together.
IInv == TypeOK /\ SavedOrScheduled

-----------------------------------------------------------------------------

\* What a cut write leaves is again a capture.
LEMMA TornIsCapture ==
    ASSUME NEW m \in Captures
    PROVE  Torn(m) \subseteq Captures
BY VersionAssumption DEF Torn, Captures

\* A list of the session files stays one when a file is saved.
LEMMA TouchedLists ==
    TypeOK => /\ Touched("auto") \in {<<"auto">>, <<"auto", "named">>}
              /\ Touched("named") \in {<<"named">>, <<"named", "auto">>}
BY DEF Touched, Other

\* A write keeps the types.
LEMMA WriteType ==
    ASSUME TypeOK, Write
    PROVE  /\ disk' \in Captures
           /\ list' \in {<<>>, <<"auto">>, <<"named">>, <<"auto", "named">>, <<"named", "auto">>}
           /\ unheard' \subseteq Flows
           /\ failed' \in BOOLEAN
<1>1. CASE /\ disk' = memory /\ list' = Touched("auto")
           /\ unheard' = {} /\ failed' = FALSE
  BY <1>1, TouchedLists DEF TypeOK
<1>2. CASE /\ disk' \in Torn(memory) /\ list' = Touched("auto")
           /\ failed' = TRUE /\ UNCHANGED unheard
  BY <1>2, TouchedLists, TornIsCapture DEF TypeOK
<1>3. CASE failed' = TRUE /\ UNCHANGED <<disk, list, unheard>>
  BY <1>3 DEF TypeOK
<1>. QED  BY <1>1, <1>2, <1>3 DEF Write

\* Once a write is over it has failed, or what it left out was not announced.
LEMMA WriteSettles ==
    ASSUME TypeOK, Write, UNCHANGED memory
    PROVE  failed' \/ Unsaved' \subseteq unheard'
BY DEF Write, Unsaved, TypeOK

\* A load puts some file's content into the memory.
LEMMA ContentIsCapture ==
    ASSUME TypeOK, NEW file
    PROVE  Content(file) \in Captures
BY DEF Content, TypeOK

-----------------------------------------------------------------------------

\* Nothing has changed yet.
LEMMA IInvInit == Init => IInv
<1> SUFFICES ASSUME Init  PROVE IInv
  OBVIOUS
<1>1. Empty \in Captures
  BY VersionAssumption DEF Empty, Captures
<1>2. TypeOK
  BY <1>1 DEF Init, TypeOK
<1>3. SavedOrScheduled
  BY DEF Init, SavedOrScheduled
<1>. QED  BY <1>2, <1>3 DEF IInv

\* Every step keeps the types.
LEMMA TypeStep == TypeOK /\ [Next]_vars => TypeOK'
<1> SUFFICES ASSUME TypeOK, [Next]_vars  PROVE TypeOK'
  OBVIOUS
<1>e. Empty \in Captures
  BY VersionAssumption DEF Empty, Captures
<1>1. CASE Start
  BY <1>1 DEF Start, TypeOK, files
<1>2. CASE Clear
  BY <1>2, <1>e DEF Clear, Trigger, TypeOK, files
<1>3. CASE TimerFires
  <2>1. CASE dirty
    BY <1>3, <2>1, WriteType DEF TimerFires, TypeOK
  <2>2. CASE ~dirty
    BY <1>3, <2>2 DEF TimerFires, TypeOK
  <2>. QED  BY <2>1, <2>2
<1>4. CASE InspectorSaves
  BY <1>4, WriteType DEF InspectorSaves, TypeOK
<1>5. CASE SaveNamed
  BY <1>5, TouchedLists, TornIsCapture DEF SaveNamed, TypeOK
<1>6. CASE PageOpens
  <2>1. CASE list # <<>>
    BY <1>6, <2>1, ContentIsCapture DEF PageOpens, Load, Trigger, TypeOK, files
  <2>2. CASE list = <<>>
    BY <1>6, <2>2 DEF PageOpens, TypeOK, files
  <2>. QED  BY <2>1, <2>2
<1>7. CASE PageCloses
  <2>1. CASE Write
    BY <1>7, <2>1, WriteType DEF PageCloses, TypeOK
  <2>2. CASE UNCHANGED <<disk, list, unheard, failed>>
    BY <1>7, <2>2 DEF PageCloses, TypeOK
  <2>. QED  BY <1>7, <2>1, <2>2 DEF PageCloses
<1>8. CASE Stop
  BY <1>8 DEF Stop, TypeOK, files
<1>9. CASE Flush
  <2>1. CASE dirty
    BY <1>9, <2>1, WriteType DEF Flush, TypeOK
  <2>2. CASE ~dirty
    BY <1>9, <2>2 DEF Flush, TypeOK
  <2>. QED  BY <2>1, <2>2
<1>10. CASE Exit
  BY <1>10 DEF Exit, TypeOK, files
<1>11. CASE Crash
  <2>1. /\ disk' \in Captures /\ named' \in Captures
        /\ list' \in {<<>>, <<"auto">>, <<"named">>, <<"auto", "named">>, <<"named", "auto">>}
    BY <1>11, TouchedLists, TornIsCapture DEF Crash, TypeOK, files
  <2>. QED  BY <1>11, <1>e, <2>1 DEF Crash, TypeOK
<1>12. ASSUME NEW k \in DOMAIN list, OperatorLoads(list[k])  PROVE TypeOK'
  BY <1>12, ContentIsCapture DEF OperatorLoads, Load, Trigger, TypeOK, files
<1>13. ASSUME NEW f \in Flows, Add(f)  PROVE TypeOK'
  <2>1. memory' \in Captures
    BY <1>13, VersionAssumption DEF Add, Captures, TypeOK
  <2>. QED  BY <1>13, <2>1 DEF Add, Trigger, TypeOK, files
<1>14. ASSUME NEW f \in Flows, Update(f)  PROVE TypeOK'
  <2>1. memory' \in Captures
    BY <1>14, VersionAssumption DEF Update, Captures, TypeOK
  <2>. QED  BY <1>14, <2>1 DEF Update, Trigger, TypeOK, files
<1>15. ASSUME NEW f \in Flows, ChangeUnheard(f)  PROVE TypeOK'
  <2>1. memory' \in Captures
    BY <1>15, VersionAssumption DEF ChangeUnheard, Captures, TypeOK
  <2>. QED  BY <1>15, <2>1 DEF ChangeUnheard, TypeOK, files
<1>16. ASSUME NEW f \in Flows, Remove(f)  PROVE TypeOK'
  <2>1. memory' \in Captures
    BY <1>16, VersionAssumption DEF Remove, Captures, TypeOK
  <2>. QED  BY <1>16, <2>1 DEF Remove, Trigger, TypeOK, files
<1>17. CASE UNCHANGED vars
  BY <1>17 DEF vars, TypeOK
<1>. QED
  BY <1>1, <1>2, <1>3, <1>4, <1>5, <1>6, <1>7, <1>8, <1>9, <1>10, <1>11, <1>12,
     <1>13, <1>14, <1>15, <1>16, <1>17 DEF Next

\* The step lemma of the property.  A change of the capture sets the flag and
\* the timer, or is remembered as unheard; the flag is cleared together with a
\* write, or when there was nothing to write; a stop cannot leave the flag up
\* before its flush has taken the timer down.
LEMMA SavedStep == IInv /\ [Next]_vars => SavedOrScheduled'
<1> SUFFICES ASSUME TypeOK, SavedOrScheduled, [Next]_vars
             PROVE  SavedOrScheduled'
  BY DEF IInv
<1>1. CASE Start
  BY <1>1 DEF Start, SavedOrScheduled, Unsaved, files
<1>2. CASE Clear
  BY <1>2 DEF Clear, Trigger, SavedOrScheduled
<1>3. CASE TimerFires
  <2>1. CASE dirty
    BY <1>3, <2>1, WriteSettles DEF TimerFires, SavedOrScheduled
  <2>2. CASE ~dirty
    BY <1>3, <2>2 DEF TimerFires, SavedOrScheduled, Unsaved
  <2>. QED  BY <2>1, <2>2
<1>4. CASE InspectorSaves
  BY <1>4, WriteSettles DEF InspectorSaves, SavedOrScheduled, Up
<1>5. CASE SaveNamed
  BY <1>5 DEF SaveNamed, SavedOrScheduled, Unsaved
<1>6. CASE PageOpens
  <2>1. CASE list # <<>>
    BY <1>6, <2>1 DEF PageOpens, Load, Trigger, SavedOrScheduled
  <2>2. CASE list = <<>>
    BY <1>6, <2>2 DEF PageOpens, SavedOrScheduled, Unsaved, files
  <2>. QED  BY <2>1, <2>2
<1>7. CASE PageCloses
  <2>1. CASE Write
    BY <1>7, <2>1, WriteSettles DEF PageCloses, SavedOrScheduled
  <2>2. CASE UNCHANGED <<disk, list, unheard, failed>>
    BY <1>7, <2>2 DEF PageCloses, SavedOrScheduled, Unsaved
  <2>. QED  BY <1>7, <2>1, <2>2 DEF PageCloses
<1>8. CASE Stop
  BY <1>8 DEF Stop, SavedOrScheduled, Unsaved, files
<1>9. CASE Flush
  <2>1. CASE dirty
    BY <1>9, <2>1, WriteSettles DEF Flush, SavedOrScheduled
  <2>2. CASE ~dirty
    BY <1>9, <2>2 DEF Flush, SavedOrScheduled, Unsaved
  <2>. QED  BY <2>1, <2>2
<1>10. CASE Exit
  BY <1>10 DEF Exit, SavedOrScheduled, Unsaved, files
<1>11. CASE Crash
  BY <1>11 DEF Crash, SavedOrScheduled
<1>12. ASSUME NEW k \in DOMAIN list, OperatorLoads(list[k])  PROVE SavedOrScheduled'
  BY <1>12 DEF OperatorLoads, Load, Trigger, SavedOrScheduled
<1>13. ASSUME NEW f \in Flows, Add(f)  PROVE SavedOrScheduled'
  BY <1>13 DEF Add, Trigger, SavedOrScheduled
<1>14. ASSUME NEW f \in Flows, Update(f)  PROVE SavedOrScheduled'
  BY <1>14 DEF Update, Trigger, SavedOrScheduled
<1>15. ASSUME NEW f \in Flows, ChangeUnheard(f)  PROVE SavedOrScheduled'
  <2>1. Up /\ UNCHANGED <<process, disk, dirty, timer, failed>>
    BY <1>15 DEF ChangeUnheard, files
  <2>2. unheard' = unheard \cup {f}
    BY <1>15 DEF ChangeUnheard
  <2>3. Unsaved' \subseteq Unsaved \cup {f}
    <3> SUFFICES ASSUME NEW g \in Flows, g # f  PROVE memory'[g] = memory[g]
      BY <2>1 DEF Unsaved
    <3>. QED  BY <1>15 DEF ChangeUnheard, TypeOK, Captures
  <2>. QED  BY <2>1, <2>2, <2>3 DEF SavedOrScheduled, Up
<1>16. ASSUME NEW f \in Flows, Remove(f)  PROVE SavedOrScheduled'
  BY <1>16 DEF Remove, Trigger, SavedOrScheduled
<1>17. CASE UNCHANGED vars
  BY <1>17 DEF vars, SavedOrScheduled, Unsaved
<1>. QED
  BY <1>1, <1>2, <1>3, <1>4, <1>5, <1>6, <1>7, <1>8, <1>9, <1>10, <1>11, <1>12,
     <1>13, <1>14, <1>15, <1>16, <1>17 DEF Next

\* Only the flush takes a stop from waiting for the hooks to draining.
LEMMA FlushStep ==
    IInv /\ [Next]_vars =>
        (process = "stopping" /\ process' = "draining" /\ ~failed' =>
            \A f \in Flows \ unheard : disk'[f] = memory[f])
<1> SUFFICES ASSUME IInv, [Next]_vars,
                    process = "stopping", process' = "draining", ~failed',
                    NEW f \in Flows \ unheard
             PROVE  disk'[f] = memory[f]
  OBVIOUS
<1>1. Flush
  BY DEF Next, vars, Start, Clear, TimerFires, InspectorSaves, SaveNamed, PageOpens,
         Load, PageCloses, Stop, Exit, Crash, OperatorLoads, Add, Update,
         ChangeUnheard, Remove
<1>2. CASE dirty
  <2>1. disk' = memory
    BY <1>1, <1>2 DEF Flush, Write
  <2>. QED  BY <2>1
<1>3. CASE ~dirty
  <2>1. disk' = disk /\ failed' = failed
    BY <1>1, <1>3 DEF Flush
  <2>2. f \notin Unsaved
    BY <2>1, <1>3 DEF IInv, SavedOrScheduled
  <2>. QED  BY <2>1, <2>2 DEF Unsaved
<1>. QED  BY <1>2, <1>3

-----------------------------------------------------------------------------

\* The inductive invariant holds in every reachable state.
THEOREM SaveInvariant == Spec => []IInv
<1>1. Init => IInv
  BY IInvInit
<1>2. IInv /\ [Next]_vars => IInv'
  BY TypeStep, SavedStep DEF IInv
<1>. QED  BY <1>1, <1>2, PTL DEF Spec

\* Flags, files and captures keep their types (core/proxy.ts, triggerAutoSave).
THEOREM SaveTypes == Spec => []TypeOK
<1>1. IInv => TypeOK
  BY DEF IInv
<1>. QED  BY <1>1, SaveInvariant, PTL

\* No announced change is forgotten: what is not on the disk is dirty with a
\* timer, was never announced, or failed to be written (core/proxy.ts:229-247).
THEOREM NothingForgotten == Spec => []SavedOrScheduled
<1>1. IInv => SavedOrScheduled
  BY DEF IInv
<1>. QED  BY <1>1, SaveInvariant, PTL

\* A stop that the disk lets write leaves out only what was never announced
\* (core/proxy.ts, stop).
THEOREM StopSaves == Spec => CleanStopSaves
<1>1. IInv /\ [Next]_vars =>
        [process = "stopping" /\ process' = "draining" /\ ~failed' =>
            \A f \in Flows \ unheard : disk'[f] = memory[f]]_vars
  BY FlushStep
<1>. QED  BY <1>1, SaveInvariant, PTL DEF Spec, CleanStopSaves

-----------------------------------------------------------------------------
(***************************************************************************)
(* The sidecar of the desktop application is the process of AutoSave, so   *)
(* what is proved there holds here.  The certificate authority's files go  *)
(* through states none of the properties name: what keeps two halves of    *)
(* different roots apart is that a key is only ever written next to its    *)
(* certificate, which CaInv adds.                                          *)
(***************************************************************************)

\* What the files and the authority's memory may hold between two writes.
CaInv ==
    /\ key # None => crt \in Roots
    /\ key \in Roots => key = crt
    /\ sidecar \in {"none", "init"} => root = NoRoot
    /\ sidecar = "halfway" => /\ crt \in Roots /\ key = None
                              /\ root = [crt |-> crt, key |-> crt]
    /\ sidecar \in {"listening", "up"} => /\ crt \in Roots /\ key = crt
                                          /\ root = [crt |-> crt, key |-> crt]
    /\ trusted # None /\ ~early => trusted = crt /\ key = crt

\* The setting is on only where the flag says so and the shell can clear it,
\* and a shell that has ended has taken its sidecar along.
ShellInv ==
    /\ system = "on" => flag /\ app # "off"
    /\ app = "off" => sidecar = "none"

DesktopInv == DesktopTypeOK /\ CaInv /\ ShellInv

-----------------------------------------------------------------------------

\* However a sidecar ends, the proxy crashes or was not up yet.
LEMMA KilledProcess == KillSidecar => Crash \/ UNCHANGED vars
BY DEF KillSidecar

\* Every step of the application is one of the proxy, or leaves it alone.
LEMMA DesktopStepIsStep == [DesktopNext]_allVars => [Next]_vars
<1> SUFFICES ASSUME [DesktopNext]_allVars  PROVE Next \/ UNCHANGED vars
  OBVIOUS
<1>1. CASE Launch \/ LoadCa \/ GenerateCa \/ WriteKey \/ Toggle \/ Quit
           \/ InstallCa \/ UninstallCa
  BY <1>1 DEF Launch, LoadCa, GenerateCa, WriteKey, Toggle, Quit, InstallCa, UninstallCa
<1>2. CASE StartProxy
  BY <1>2 DEF StartProxy, Next
<1>3. CASE ExitApp \/ SidecarDies
  BY <1>3, KilledProcess DEF ExitApp, SidecarDies, Next
<1>4. CASE SidecarExits
  BY <1>4 DEF SidecarExits, Next
<1>5. CASE ProxyStep
  BY <1>5 DEF ProxyStep, Next
<1>6. CASE UNCHANGED allVars
  BY <1>6 DEF allVars
<1>. QED  BY <1>1, <1>2, <1>3, <1>4, <1>5, <1>6 DEF DesktopNext

\* The process is up exactly while the sidecar is.
LEMMA ProxyStepStaysUp ==
    ASSUME TypeOK, ProxyStep
    PROVE  Up' <=> Up
<1>1. (Up /\ Up') \/ process' = process
  BY DEF ProxyStep, TypeOK, Clear, TimerFires, InspectorSaves, SaveNamed, Stop, Flush,
         PageOpens, Load, PageCloses, OperatorLoads, Add, Update, ChangeUnheard, Remove, Up
<1>. QED  BY <1>1 DEF Up

-----------------------------------------------------------------------------

\* No root is on the disk, and no proxy is set.
LEMMA DesktopInvInit == DesktopInit => DesktopInv
<1> SUFFICES ASSUME DesktopInit  PROVE DesktopInv
  OBVIOUS
<1>1. TypeOK
  BY IInvInit DEF DesktopInit, IInv
<1>2. DesktopTypeOK
  BY <1>1 DEF DesktopInit, DesktopTypeOK, Init, Up, NoRoot, Files
<1>3. CaInv /\ ShellInv
  BY RootsAssumption DEF DesktopInit, CaInv, ShellInv
<1>. QED  BY <1>2, <1>3 DEF DesktopInv

\* What a kill leaves of the sidecar and of the two files.
LEMMA KillKeeps ==
    ASSUME DesktopTypeOK, CaInv, KillSidecar, UNCHANGED trust
    PROVE  /\ sidecar' = "none" /\ root' = NoRoot /\ ~Up'
           /\ crt' \in Files /\ key' \in Files
           /\ CaInv'
<1>1. sidecar' = "none" /\ root' = NoRoot
  BY DEF KillSidecar, Gone
<1>2. ~Up'
  <2>1. CASE Up
    BY <2>1 DEF KillSidecar, Crash, Up
  <2>2. CASE ~Up
    BY <2>2 DEF KillSidecar, Up, vars
  <2>. QED  BY <2>1, <2>2
<1>3. CutShort
  BY DEF KillSidecar
<1>4. CASE UNCHANGED <<crt, key>>
  BY <1>1, <1>2, <1>4 DEF CaInv, DesktopTypeOK, trust
<1>5. CASE sidecar = "init" /\ ~CaExists /\ crt' = Stump /\ UNCHANGED key
  <2>1. key = None
    BY <1>5, RootsAssumption DEF CaExists, CaInv
  <2>2. ~(trusted # None /\ ~early)
    BY <1>5, <2>1, RootsAssumption DEF CaInv, CaExists, DesktopTypeOK
  <2>. QED  BY <1>1, <1>2, <1>5, <2>1, <2>2, RootsAssumption DEF CaInv, Files, trust
<1>6. CASE sidecar = "halfway" /\ key' = Stump /\ UNCHANGED crt
  BY <1>1, <1>2, <1>6, RootsAssumption DEF CaInv, DesktopTypeOK, Files, trust
<1>. QED  BY <1>3, <1>4, <1>5, <1>6 DEF CutShort

\* Files, memory and trust stay in step, whatever happens.
LEMMA CaStep == DesktopInv /\ [DesktopNext]_allVars => CaInv'
<1> SUFFICES ASSUME DesktopTypeOK, CaInv, ShellInv, [DesktopNext]_allVars  PROVE CaInv'
  BY DEF DesktopInv
<1>1. CASE Launch
  BY <1>1 DEF Launch, ShellInv, CaInv, caVars, trust
<1>2. CASE LoadCa
  BY <1>2, RootsAssumption DEF LoadCa, CaExists, CaInv, DesktopTypeOK, Files, trust
<1>3. CASE GenerateCa
  <2>1. key = None
    BY <1>3, RootsAssumption DEF GenerateCa, CaExists, CaInv
  <2>2. PICK r \in Roots : crt' = r /\ root' = [crt |-> r, key |-> r]
    BY <1>3 DEF GenerateCa, Fresh
  <2>3. trusted # None => early
    BY <2>1, RootsAssumption DEF CaInv, DesktopTypeOK
  <2>. QED  BY <1>3, <2>1, <2>2, <2>3, RootsAssumption DEF GenerateCa, CaInv, trust
<1>4. CASE WriteKey
  BY <1>4, RootsAssumption DEF WriteKey, CaInv, trust, DesktopTypeOK
<1>5. CASE StartProxy
  BY <1>5 DEF StartProxy, CaInv, caVars, trust
<1>6. CASE Toggle \/ Quit
  BY <1>6 DEF Toggle, Quit, CaInv, caVars, trust
<1>7. CASE ExitApp \/ SidecarDies
  BY <1>7, KillKeeps DEF ExitApp, SidecarDies
<1>8. CASE InstallCa
  BY <1>8 DEF InstallCa, CaInv, caVars
<1>9. CASE UninstallCa
  BY <1>9 DEF UninstallCa, CaInv, caVars
<1>10. CASE SidecarExits
  BY <1>10 DEF SidecarExits, Gone, CaInv, trust
<1>11. CASE ProxyStep \/ UNCHANGED allVars
  BY <1>11 DEF ProxyStep, allVars, desktopVars, CaInv, caVars, trust
<1>. QED
  BY <1>1, <1>2, <1>3, <1>4, <1>5, <1>6, <1>7, <1>8, <1>9, <1>10, <1>11 DEF DesktopNext

\* The flag and the setting go together, up to failed commands.
LEMMA ShellStep == DesktopTypeOK /\ ShellInv /\ [DesktopNext]_allVars => ShellInv'
<1> SUFFICES ASSUME DesktopTypeOK, ShellInv, [DesktopNext]_allVars  PROVE ShellInv'
  OBVIOUS
<1>1. CASE Launch
  BY <1>1 DEF Launch, ShellInv
<1>2. CASE Toggle
  BY <1>2 DEF Toggle, SwitchProxy, ShellInv
<1>3. CASE Quit
  <2>1. CASE flag
    BY <1>3, <2>1 DEF Quit, SwitchProxy, ShellInv
  <2>2. CASE ~flag
    BY <1>3, <2>2 DEF Quit, ShellInv
  <2>. QED  BY <2>1, <2>2
<1>4. CASE ExitApp
  <2>1. sidecar' = "none"
    BY <1>4 DEF ExitApp, KillSidecar, Gone
  <2>2. CASE flag
    BY <1>4, <2>1, <2>2 DEF ExitApp, SwitchProxy, ShellInv
  <2>3. CASE ~flag
    BY <1>4, <2>1, <2>3 DEF ExitApp, ShellInv
  <2>. QED  BY <2>2, <2>3
<1>5. CASE LoadCa \/ GenerateCa \/ WriteKey \/ StartProxy \/ InstallCa \/ UninstallCa
           \/ SidecarDies \/ SidecarExits
  <2>1. UNCHANGED shellVars
    BY <1>5 DEF LoadCa, GenerateCa, WriteKey, StartProxy, InstallCa, UninstallCa,
                SidecarDies, SidecarExits
  <2>2. sidecar # "none" \/ sidecar' = sidecar \/ sidecar' = "none"
    BY <1>5 DEF LoadCa, GenerateCa, WriteKey, StartProxy, InstallCa, UninstallCa,
                SidecarDies, SidecarExits, Gone
  <2>. QED  BY <2>1, <2>2 DEF shellVars, ShellInv
<1>6. CASE ProxyStep \/ UNCHANGED allVars
  BY <1>6 DEF ProxyStep, allVars, desktopVars, shellVars, ShellInv
<1>. QED  BY <1>1, <1>2, <1>3, <1>4, <1>5, <1>6 DEF DesktopNext

\* Every step keeps the types; the process is up exactly when its sidecar is.
LEMMA DesktopTypeStep == DesktopInv /\ [DesktopNext]_allVars => DesktopTypeOK'
<1> SUFFICES ASSUME DesktopTypeOK, CaInv, ShellInv, [DesktopNext]_allVars
             PROVE  DesktopTypeOK'
  BY DEF DesktopInv
<1>t. TypeOK'
  BY TypeStep, DesktopStepIsStep DEF DesktopTypeOK
<1>1. CASE Launch \/ Toggle \/ Quit \/ InstallCa \/ UninstallCa
  <2>1. UNCHANGED vars /\ UNCHANGED caVars
    BY <1>1 DEF Launch, Toggle, Quit, InstallCa, UninstallCa
  <2>2. CASE Launch
    <3>1. sidecar # "up"
      BY <2>2 DEF Launch, ShellInv
    <3>. QED  BY <1>t, <2>1, <2>2, <3>1 DEF Launch, DesktopTypeOK, Up, vars, caVars, trust
  <2>3. CASE Toggle
    BY <1>t, <2>1, <2>3 DEF Toggle, SwitchProxy, DesktopTypeOK, Up, vars, caVars, trust
  <2>4. CASE Quit
    BY <1>t, <2>1, <2>4 DEF Quit, SwitchProxy, DesktopTypeOK, Up, vars, caVars, trust
  <2>5. CASE InstallCa
    BY <1>t, <2>1, <2>5 DEF InstallCa, DesktopTypeOK, Up, vars, caVars, shellVars
  <2>6. CASE UninstallCa
    BY <1>t, <2>1, <2>6 DEF UninstallCa, DesktopTypeOK, Up, vars, caVars, shellVars
  <2>. QED  BY <1>1, <2>2, <2>3, <2>4, <2>5, <2>6
<1>2. CASE LoadCa
  BY <1>t, <1>2 DEF LoadCa, CaExists, DesktopTypeOK, Files, Up, vars, shellVars, trust
<1>3. CASE GenerateCa
  <2>1. PICK r \in Roots : crt' = r /\ root' = [crt |-> r, key |-> r]
    BY <1>3 DEF GenerateCa, Fresh
  <2>2. /\ sidecar = "init" /\ sidecar' = "halfway"
        /\ UNCHANGED <<vars, shellVars, key, trust>>
    BY <1>3 DEF GenerateCa
  <2>3. Up' = Up
    BY <2>2 DEF Up, vars
  <2>. QED  BY <1>t, <2>1, <2>2, <2>3 DEF DesktopTypeOK, Files, shellVars, trust
<1>4. CASE WriteKey
  BY <1>t, <1>4 DEF WriteKey, DesktopTypeOK, Files, Up, vars, shellVars, trust
<1>5. CASE StartProxy
  BY <1>t, <1>5 DEF StartProxy, Start, DesktopTypeOK, Up, shellVars, caVars, trust
<1>6. CASE ExitApp
  <2>1. KillSidecar /\ UNCHANGED trust /\ app' = "off"
    BY <1>6 DEF ExitApp
  <2>2. /\ sidecar' = "none" /\ root' = NoRoot /\ ~Up'
        /\ crt' \in Files /\ key' \in Files
    BY <2>1, KillKeeps, Zenon
  <2>3. flag' \in BOOLEAN /\ system' \in {"off", "on", "unknown"}
    BY <1>6 DEF ExitApp, SwitchProxy, DesktopTypeOK
  <2>. QED  BY <1>t, <2>1, <2>2, <2>3 DEF DesktopTypeOK, NoRoot, trust
<1>7. CASE SidecarDies
  BY <1>t, <1>7, KillKeeps DEF SidecarDies, DesktopTypeOK, NoRoot, shellVars, trust
<1>8. CASE SidecarExits
  <2>1. sidecar' = "none" /\ root' = NoRoot /\ ~Up'
    BY <1>8 DEF SidecarExits, Exit, Gone, Up
  <2>2. UNCHANGED <<app, flag, system, crt, key, trusted, early>>
    BY <1>8 DEF SidecarExits, shellVars, trust
  <2>3. root' \in [crt : Roots \cup {None}, key : Roots \cup {None}]
    BY <2>1 DEF NoRoot
  <2>. QED  BY <1>t, <2>1, <2>2, <2>3 DEF DesktopTypeOK, Files
<1>9. CASE ProxyStep
  BY <1>t, <1>9, ProxyStepStaysUp
     DEF ProxyStep, DesktopTypeOK, desktopVars, shellVars, caVars, trust
<1>10. CASE UNCHANGED allVars
  BY <1>t, <1>10 DEF allVars, desktopVars, shellVars, caVars, trust, vars, DesktopTypeOK, Up
<1>. QED
  BY <1>1, <1>2, <1>3, <1>4, <1>5, <1>6, <1>7, <1>8, <1>9, <1>10 DEF DesktopNext

-----------------------------------------------------------------------------

\* The inductive invariant holds in every reachable state.
THEOREM DesktopInvariant == DesktopSpec => []DesktopInv
<1>1. DesktopInit => DesktopInv
  BY DesktopInvInit
<1>2. DesktopInv /\ [DesktopNext]_allVars => DesktopInv'
  BY CaStep, ShellStep, DesktopTypeStep DEF DesktopInv
<1>. QED  BY <1>1, <1>2, PTL DEF DesktopSpec

\* The sidecar under the shell is the process of AutoSave: kills, launches and
\* certificate files around it show it nothing but crashes and starts.
THEOREM SidecarImplementsProcess == DesktopSpec => Spec
<1>1. DesktopInit => Init
  BY DEF DesktopInit
<1>2. [DesktopNext]_allVars => [Next]_vars
  BY DesktopStepIsStep
<1>. QED  BY <1>1, <1>2, PTL DEF DesktopSpec, Spec

\* No announced change is forgotten under the shell either, which ends the
\* sidecar by killing it (lib.rs, RunEvent::Exit).
THEOREM NothingForgottenUnderShell == DesktopSpec => []SavedOrScheduled
BY SidecarImplementsProcess, NothingForgotten, PTL

\* Types of the shell, the files and the process together.
THEOREM DesktopTypes == DesktopSpec => []DesktopTypeOK
<1>1. DesktopInv => DesktopTypeOK
  BY DEF DesktopInv
<1>. QED  BY <1>1, DesktopInvariant, PTL

\* The system is not left pointing at a proxy that is gone (lib.rs, Quit and
\* RunEvent::Exit).
THEOREM SystemProxyCleared == DesktopSpec => []ProxyClearedWithApp
<1>1. DesktopInv => ProxyClearedWithApp
  BY DEF DesktopInv, DesktopTypeOK, ShellInv, ProxyClearedWithApp
<1>. QED  BY <1>1, DesktopInvariant, PTL

\* A running sidecar signs with one root, the one on the disk (ca.ts, init).
THEOREM OneRootSigns == DesktopSpec => []SigningRootIsOnDisk
<1>1. DesktopInv => SigningRootIsOnDisk
  BY DEF DesktopInv, CaInv, SigningRootIsOnDisk
<1>. QED  BY <1>1, DesktopInvariant, PTL

\* A root trusted once it was complete is never replaced (ca.ts, init).
THEOREM TrustIsKept == DesktopSpec => []TrustedRootSigns
<1>1. DesktopInv => TrustedRootSigns
  BY DEF DesktopInv, CaInv, TrustedRootSigns
<1>. QED  BY <1>1, DesktopInvariant, PTL

=============================================================================
