------------------------------- MODULE AutoSave -------------------------------
(***************************************************************************)
(* The automatic session file auto.cnp (src/core/proxy.ts, session.ts).    *)
(*                                                                         *)
(* Store events set a dirty flag and start a two-second timer; the timer   *)
(* writes the whole capture.  stop() writes what is still dirty; a start   *)
(* loads the file back.  The inspector page writes the same file by itself *)
(* through the REST API.  A write replaces the file in place, so one that  *)
(* fails or dies half-way leaves some of its lines; a load skips the line  *)
(* that is cut.                                                            *)
(*                                                                         *)
(* Besides it there is one session file the operator names, and the page,  *)
(* whenever it opens, replaces the capture by the last file of the list.   *)
(*                                                                         *)
(* A flow is abstracted to a version, 0 when it is not in the capture; an  *)
(* unknown part of the lines of a write (a prefix) to any subset of them.  *)
(***************************************************************************)
EXTENDS Naturals, Sequences

CONSTANTS
    Flows,
    MaxVersion   \* bound on the changes a flow sees

ASSUME VersionAssumption == MaxVersion \in Nat \ {0}

VARIABLES
    process,   \* the life of the proxy process
    memory,    \* the capture
    disk,      \* auto.cnp
    named,     \* the session file the operator saves by name
    list,      \* the session files there are, as listSessions() sorts them
    page,      \* the inspector page
    dirty,     \* autoSaveDirty
    timer,     \* autoSaveTimer is set
    unheard,   \* flows changed since the last write without an event for it
    failed     \* the last write to the file was not completed

files == <<disk, named, list>>

vars == <<process, memory, disk, named, list, page, dirty, timer, unheard, failed>>

Captures == [Flows -> 0 .. MaxVersion]
Empty == [f \in Flows |-> 0]

TypeOK ==
    /\ process \in {"down", "running", "stopping", "draining", "exited"}
    /\ memory \in Captures
    /\ disk \in Captures
    /\ named \in Captures
    /\ page \in {"closed", "open"}
    /\ list \in {<<>>, <<"auto">>, <<"named">>, <<"auto", "named">>, <<"named", "auto">>}
    /\ dirty \in BOOLEAN
    /\ timer \in BOOLEAN
    /\ unheard \subseteq Flows
    /\ failed \in BOOLEAN

Init ==
    /\ process = "down"
    /\ memory = Empty
    /\ disk = Empty
    /\ named = Empty
    /\ list = <<>>
    /\ page = "closed"
    /\ dirty = FALSE
    /\ timer = FALSE
    /\ unheard = {}
    /\ failed = FALSE

Up == process \in {"running", "stopping", "draining"}

\* Some of the lines of a write.
Torn(m) == {[f \in Flows |-> IF f \in S THEN m[f] ELSE 0] : S \in SUBSET Flows}

Other(file) == IF file = "auto" THEN "named" ELSE "auto"

\* listSessions() sorts by modification time, newest first.
Touched(file) ==
    IF \E k \in DOMAIN list : list[k] = Other(file)
    THEN <<file, Other(file)>> ELSE <<file>>

\* Broken: an error leaves the file half-written and counts as a success.
WriteUnchecked ==
    /\ disk' \in Torn(memory)
    /\ list' = Touched("auto")
    /\ unheard' = {}
    /\ failed' = FALSE

\* saveSession: all of the capture, or an error before or after truncation.
Write ==
    \/ /\ disk' = memory
       /\ list' = Touched("auto")
       /\ unheard' = {}
       /\ failed' = FALSE
    \/ /\ disk' \in Torn(memory)
       /\ list' = Touched("auto")
       /\ failed' = TRUE
       /\ UNCHANGED unheard
    \/ /\ failed' = TRUE
       /\ UNCHANGED <<disk, list, unheard>>

Content(file) == IF file = "auto" THEN disk ELSE named

\* triggerAutoSave(): the flag is set, and the timer unless it runs already.
Trigger ==
    /\ dirty' = TRUE
    /\ timer' = TRUE

-----------------------------------------------------------------------------

\* Load the file, then start listening.  Loading is not a change to save.
Start ==
    /\ process \in {"down", "exited"}
    /\ process' = "running"
    /\ memory' = disk
    /\ dirty' = FALSE /\ timer' = FALSE
    /\ unheard' = {}
    /\ failed' = FALSE
    /\ UNCHANGED <<files, page>>

\* "add": a new flow, perhaps at the price of an old one.
Add(f) ==
    /\ Up
    /\ memory[f] = 0
    /\ \E out \in SUBSET (Flows \ {f}) :
        memory' = [g \in Flows |-> IF g = f THEN 1
                                   ELSE IF g \in out THEN 0 ELSE memory[g]]
    /\ Trigger
    /\ UNCHANGED <<process, files, page, unheard, failed>>

\* "update": any change of a flow that handlers or the operator announce.
Update(f) ==
    /\ Up
    /\ memory[f] \in 1 .. MaxVersion - 1
    /\ memory' = [memory EXCEPT ![f] = @ + 1]
    /\ Trigger
    /\ UNCHANGED <<process, files, page, unheard, failed>>

\* What the auto-saver has no listener for: the "intercept" event of a flow
\* the rules have just marked, and a lower maxFlows, which evicts silently.
ChangeUnheard(f) ==
    /\ Up
    /\ memory[f] # 0
    /\ memory' \in {[memory EXCEPT ![f] = v] : v \in {0, memory[f] + 1} \cap 0 .. MaxVersion}
    /\ unheard' = unheard \cup {f}
    /\ UNCHANGED <<process, files, page, dirty, timer, failed>>

Remove(f) ==
    /\ Up
    /\ memory[f] # 0
    /\ memory' = [memory EXCEPT ![f] = 0]
    /\ Trigger
    /\ UNCHANGED <<process, files, page, unheard, failed>>

\* Broken: the capture is dropped where it should be emptied.
ClearToNothing ==
    /\ Up
    /\ memory' = [f \in {} |-> 0]
    /\ Trigger
    /\ UNCHANGED <<process, files, page, unheard, failed>>

Clear ==
    /\ Up
    /\ memory' = Empty
    /\ Trigger
    /\ UNCHANGED <<process, files, page, unheard, failed>>

\* loadSession() of a session file: "clear", then "add"s.
Load(file) ==
    /\ memory' = Content(file)
    /\ Trigger
    /\ UNCHANGED <<process, files, unheard, failed>>

OperatorLoads(file) == Up /\ Load(file) /\ UNCHANGED page

\* autoLoadSession(): the page asks for the list and loads its last file.
PageOpens ==
    /\ Up
    /\ page = "closed"
    /\ page' = "open"
    /\ IF list # <<>>
       THEN Load(list[Len(list)])
       ELSE UNCHANGED <<process, memory, files, dirty, timer, unheard, failed>>

\* "beforeunload": a last save by beacon, which may not arrive.
PageCloses ==
    /\ page = "open"
    /\ page' = "closed"
    /\ IF Up THEN Write \/ UNCHANGED <<disk, list, unheard, failed>>
             ELSE UNCHANGED <<disk, list, unheard, failed>>
    /\ UNCHANGED <<process, memory, named, dirty, timer>>

\* POST /api/sessions/save with a name of the operator's.
SaveNamed ==
    /\ Up
    /\ named' \in Torn(memory)
    /\ list' = Touched("named")
    /\ UNCHANGED <<process, memory, disk, page, dirty, timer, unheard, failed>>

\* Broken: the flag is cleared before it is read.
TimerFiresTooClean ==
    /\ process \in {"running", "stopping"}
    /\ timer
    /\ timer' = FALSE
    /\ dirty' = FALSE
    /\ UNCHANGED <<process, memory, files, page, unheard, failed>>

\* A timer armed after the flush would be two seconds late for the exit.
TimerFires ==
    /\ process \in {"running", "stopping"}
    /\ timer
    /\ timer' = FALSE
    /\ dirty' = FALSE
    /\ IF dirty THEN Write ELSE UNCHANGED <<disk, list, unheard, failed>>
    /\ UNCHANGED <<process, memory, named, page>>

\* The page saves under the name "auto" and knows nothing of the flag.  A call
\* that was under way when the inspector closed may still do so.
InspectorSaves ==
    /\ Up
    /\ Write
    /\ UNCHANGED <<process, memory, named, page, dirty, timer>>

\* SIGINT or SIGTERM: stop() waits for the addons' done hooks first.
Stop ==
    /\ process = "running"
    /\ process' = "stopping"
    /\ UNCHANGED <<memory, files, page, dirty, timer, unheard, failed>>

\* Broken: the timer is cancelled and nothing is written for it.
FlushNothing ==
    /\ process = "stopping"
    /\ process' = "draining"
    /\ timer' = FALSE
    /\ dirty' = FALSE
    /\ UNCHANGED <<memory, files, page, unheard, failed>>

\* Cancel the timer and write what is dirty.  The listeners stay, and the
\* servers take up to 300 ms to close.
Flush ==
    /\ process = "stopping"
    /\ process' = "draining"
    /\ timer' = FALSE
    /\ dirty' = FALSE
    /\ IF dirty THEN Write ELSE UNCHANGED <<disk, list, unheard, failed>>
    /\ UNCHANGED <<memory, named, page>>

Exit ==
    /\ process = "draining"
    /\ process' = "exited"
    /\ UNCHANGED <<memory, files, page, dirty, timer, unheard, failed>>

\* The process is killed, between writes or in the middle of one.
Crash ==
    /\ Up
    /\ process' = "down"
    /\ \/ disk' \in Torn(memory) /\ list' = Touched("auto") /\ UNCHANGED named
       \/ named' \in Torn(memory) /\ list' = Touched("named") /\ UNCHANGED disk
       \/ UNCHANGED files
    /\ memory' = Empty
    /\ dirty' = FALSE /\ timer' = FALSE
    /\ unheard' = {}
    /\ failed' = FALSE
    /\ UNCHANGED page

-----------------------------------------------------------------------------

Next ==
    \/ Start \/ Clear \/ TimerFires \/ InspectorSaves \/ SaveNamed
    \/ PageOpens \/ PageCloses
    \/ Stop \/ Flush \/ Exit \/ Crash
    \/ \E k \in DOMAIN list : OperatorLoads(list[k])
    \/ \E f \in Flows : Add(f) \/ Update(f) \/ ChangeUnheard(f) \/ Remove(f)

Spec == Init /\ [][Next]_vars

\* Timers fire and a stop runs to its end; the user need do nothing.
Fairness == WF_vars(TimerFires) /\ WF_vars(Flush) /\ WF_vars(Exit)

FairSpec == Spec /\ Fairness

-----------------------------------------------------------------------------

\* The flows whose saved version is not the captured one.
Unsaved == {f \in Flows : disk[f] # memory[f]}

\* No announced change is forgotten: while the process is up, and after a
\* clean exit, what is not on the disk is dirty, was never announced, or its
\* write failed; and until the final flush dirty means a timer is running, so
\* clearing the flag before the write loses no later change.
SavedOrScheduled ==
    process # "down" =>
        /\ failed \/ dirty \/ Unsaved \subseteq unheard
        /\ dirty /\ process \in {"running", "stopping"} => timer

\* A stop that found the disk willing leaves out only what was announced after
\* its flush (and then dirty is set again), whatever changed while the done
\* hooks ran.
CleanStopSaves ==
    [][process = "stopping" /\ process' = "draining" /\ ~failed' =>
         \A f \in Flows \ unheard : disk'[f] = memory[f]]_vars

\* An announced version reaches the disk, or is overtaken by a newer one, a
\* failed write or the end of the process, however often the capture changes.
VersionReachesDisk ==
    \A f \in Flows, v \in 1 .. MaxVersion :
        (process = "running" /\ dirty /\ memory[f] = v) ~>
            (disk[f] = v \/ memory[f] # v \/ failed \/ process \in {"down", "exited"})

-----------------------------------------------------------------------------
(* What the code does not keep.                                            *)

\* What the page loads when it opens is the session saved last (web/ui/app.js:
\* "reload the last session so traffic survives restarts").
LastSessionReloaded ==
    [][page = "closed" /\ page' = "open" /\ list # <<>> =>
         memory' = Content(Head(list))]_vars

=============================================================================
