----------------------------- MODULE ReaderCaches ----------------------------
(***************************************************************************)
(* Two caches between the switch and those who read what it did.           *)
(*                                                                         *)
(* The watchdog keeps the parsed configuration, with the time stamp and    *)
(* the size of the file it came from (parse_uci), and loads its settings   *)
(* through it before every tick.  The status command that the LuCI page    *)
(* polls keeps the report of the last full pass in a file, marked with gen *)
(* and applied_mode of the state file; several polls may run side by side. *)
(*                                                                         *)
(* Contents are versions: a write of the file, or a change of the exits,   *)
(* makes the next one.                                                     *)
(***************************************************************************)
EXTENDS NetmodeTypes

CONSTANTS
    Modes,         \* the policies asked for
    Poll,          \* processes that run the status command
    MaxSwitches,   \* bound: switches
    MaxChanges     \* bound: changes of the exits, and of the file, besides

ASSUME CacheAssumption ==
    /\ Modes \subseteq Mode
    /\ MaxSwitches \in Nat /\ MaxChanges \in Nat

VARIABLES
    \* the configuration file
    config,    \* its version
    stamp,     \* its mtime and length, as the reader can tell them apart
    \* the watchdog
    kept,      \* the parsed document and its stamp, or NoDoc
    loading,   \* the document is parsed and not yet stamped
    parsed,    \* its version
    loaded,    \* the version of the settings in use
    \* the switch and the state file
    work,      \* where the worker is
    wanted,    \* the mode it switches to
    gen,
    applied,   \* applied_mode: the mode the last successful switch went to
    exits,     \* version of the live exits
    \* the status command
    cache,     \* the snapshot file, or NoSnapshot
    polling,   \* polls running the backend
    report,    \* report[q]: the version of the exits it has collected
    served,    \* served[q]: the version its last answer showed
    \* bounds and history
    switches, changes,
    asked,     \* the version of the file when the load began
    confused,  \* a write of another process fell between the parse and the
               \* stamp, or kept the stamp
    requested, \* the exits as the last request found them
    settled,   \* the exits as the last successful switch left them
    reapplied  \* it went to the mode applied already

configVars == <<config, stamp, kept, loading, parsed, loaded, asked, confused>>
pastVars   == <<requested, settled, reapplied>>
workVars   == <<work, wanted, gen, applied, exits, switches, pastVars>>
statusVars == <<cache, polling, report, served>>
vars == <<configVars, workVars, statusVars, changes>>

NoDoc      == [version |-> 0, stamp |-> 0, valid |-> FALSE]
NoMark     == <<0, "none">>
NoReport   == [exits |-> 0, mark |-> NoMark]
NoSnapshot == [exits |-> 0, mark |-> NoMark, old |-> TRUE, torn |-> FALSE]

Busy == work # "idle"

\* Mutant of Mark: the snapshot is marked with the generation alone.
MarkGenOnly == <<gen, "none">>

\* state_mark: the mode is a name, so a switch to the mode that is applied
\* already ends with the mark it began with.
Mark == <<gen, applied>>

-----------------------------------------------------------------------------
(***************************************************************************)
(* The configuration                                                       *)
(***************************************************************************)

\* Another process writes the file.  A write soon after the last one, of the
\* same length, may leave the stamp as it was.
OtherWrites ==
    /\ config' = config + 1
    /\ stamp' \in {stamp, stamp + 1}
    /\ confused' = (confused \/ loading \/ stamp' = stamp)
    /\ UNCHANGED <<kept, loading, parsed, loaded, asked>>

\* The cached document is served while the stamp is that of the file.
LoadKept ==
    /\ ~loading
    /\ kept.valid /\ kept.stamp = stamp
    /\ loaded' = kept.version
    /\ asked' = config
    /\ UNCHANGED <<config, stamp, kept, loading, parsed, confused, workVars,
                   statusVars, changes>>

\* Otherwise the file is parsed first ...
LoadParse ==
    /\ ~loading
    /\ ~(kept.valid /\ kept.stamp = stamp)
    /\ loading' = TRUE
    /\ parsed' = config
    /\ asked' = config
    /\ UNCHANGED <<config, stamp, kept, loaded, confused, workVars, statusVars,
                   changes>>

\* Mutant of LoadStamp: the document is stamped again by a later load.
LoadStampAgain ==
    /\ loading
    /\ loading' = FALSE
    /\ kept' = [version |-> parsed, stamp |-> stamp, valid |-> TRUE]
    /\ loaded' = parsed
    /\ UNCHANGED <<config, stamp, parsed, asked, confused, workVars, statusVars,
                   changes>>

\* ... and stamped then.
LoadStamp ==
    /\ loading
    /\ loading' = FALSE
    /\ kept' = [version |-> parsed, stamp |-> stamp, valid |-> TRUE]
    /\ loaded' = parsed
    /\ parsed' = 0
    /\ UNCHANGED <<config, stamp, asked, confused, workVars, statusVars, changes>>

\* Mutant of OwnWrite: the cache is kept.
OwnWriteKeeps ==
    /\ ~loading
    /\ changes < MaxChanges
    /\ changes' = changes + 1
    /\ config' = config + 1
    /\ stamp' \in {stamp, stamp + 1}
    /\ UNCHANGED <<kept, loading, parsed, loaded, asked, confused, workVars,
                   statusVars>>

\* The watchdog's own write (uci_set_commit) drops the cache.
OwnWrite ==
    /\ ~loading
    /\ changes < MaxChanges
    /\ changes' = changes + 1
    /\ config' = config + 1
    /\ stamp' \in {stamp, stamp + 1}
    /\ kept' = NoDoc
    /\ UNCHANGED <<loading, parsed, loaded, asked, confused, workVars, statusVars>>

Load == LoadKept \/ LoadParse \/ LoadStamp

-----------------------------------------------------------------------------
(***************************************************************************)
(* The switch, as the readers see it                                       *)
(***************************************************************************)

Request ==
    /\ work = "idle"
    /\ switches < MaxSwitches
    /\ switches' = switches + 1
    /\ gen' = gen + 1
    /\ wanted' \in Modes
    /\ requested' = exits
    /\ work' = "asked"
    /\ UNCHANGED <<configVars, applied, exits, settled, reapplied, statusVars,
                   changes>>

WritePlan ==
    /\ work = "asked"
    /\ OtherWrites
    /\ work' = "written"
    /\ UNCHANGED <<wanted, gen, applied, exits, switches, pastVars, statusVars,
                   changes>>

MoveExits ==
    /\ work = "written"
    /\ exits' = exits + 1
    /\ work' = "moved"
    /\ UNCHANGED <<configVars, wanted, gen, applied, switches, pastVars,
                   statusVars, changes>>

\* The switch has succeeded, or the exit asked for was in use already.
Finish ==
    /\ work \in {"asked", "moved"}
    /\ applied' = wanted
    /\ work' = "idle"
    /\ settled' = exits
    /\ reapplied' = (wanted = applied)
    /\ UNCHANGED <<configVars, wanted, gen, exits, switches, requested, statusVars,
                   changes>>

\* It failed or was killed: the pid it left is no process any more.
End ==
    /\ work # "idle"
    /\ work' = "idle"
    /\ UNCHANGED <<configVars, wanted, gen, applied, exits, switches, pastVars,
                   statusVars, changes>>

Worker == WritePlan \/ MoveExits \/ Finish

\* The exits change by themselves, and a user edits the configuration.
Outside ==
    /\ changes < MaxChanges
    /\ changes' = changes + 1
    /\ \/ exits' = exits + 1 /\ UNCHANGED configVars
       \/ OtherWrites /\ UNCHANGED exits
    /\ UNCHANGED <<work, wanted, gen, applied, switches, pastVars, statusVars>>

-----------------------------------------------------------------------------
(***************************************************************************)
(* The status command                                                      *)
(***************************************************************************)

\* Mutant of Servable: the age of the snapshot does not matter.
ServableAnyAge == cache.mark = Mark

\* A marked snapshot is served at any age while a worker runs, and otherwise
\* until status_cache seconds are over.
Servable == cache.mark = Mark /\ (Busy \/ ~cache.old)

Serve(q) ==
    /\ q \notin polling
    /\ Servable
    /\ served' = [served EXCEPT ![q] = cache.exits]
    /\ UNCHANGED <<configVars, workVars, cache, polling, report, changes>>

\* cold_path: the backend collects a report ...
Collect(q) ==
    /\ q \notin polling
    /\ ~Servable
    /\ polling' = polling \cup {q}
    /\ report' = [report EXCEPT ![q] = [exits |-> exits, mark |-> Mark]]
    /\ UNCHANGED <<configVars, workVars, cache, served, changes>>

\* ... and the mark is read when it has answered.
Store(q) ==
    /\ q \in polling
    /\ polling' = polling \ {q}
    /\ cache' = [exits |-> report[q].exits, mark |-> Mark, old |-> FALSE,
                 torn |-> report[q].mark # Mark]
    /\ served' = [served EXCEPT ![q] = report[q].exits]
    /\ report' = [report EXCEPT ![q] = NoReport]
    /\ UNCHANGED <<configVars, workVars, changes>>

\* status_cache seconds are over.
Ages ==
    /\ ~cache.old
    /\ cache' = [cache EXCEPT !.old = TRUE]
    /\ UNCHANGED <<configVars, workVars, polling, report, served, changes>>

Polls(q) == Serve(q) \/ Collect(q) \/ Store(q)

Init ==
    /\ config = 1 /\ stamp = 1 /\ kept = NoDoc /\ loading = FALSE
    /\ parsed = 0 /\ loaded = 1 /\ asked = 1 /\ confused = FALSE
    /\ work = "idle" /\ gen = 1 /\ applied \in Modes /\ wanted = applied
    /\ exits = 1 /\ requested = 1 /\ settled = 1 /\ reapplied = FALSE
    /\ cache = NoSnapshot /\ polling = {}
    /\ report = [q \in Poll |-> NoReport]
    /\ served = [q \in Poll |-> 1]
    /\ switches = 0 /\ changes = 0

Next ==
    \/ Load \/ OwnWrite
    \/ Request \/ Worker \/ End \/ Outside
    \/ \E q \in Poll : Polls(q)
    \/ Ages

Spec == Init /\ [][Next]_vars

\* The page keeps polling, time passes, and a worker comes to its end.
FairSpec ==
    /\ Spec
    /\ \A q \in Poll : WF_vars(Polls(q))
    /\ WF_vars(Ages) /\ WF_vars(Worker)

-----------------------------------------------------------------------------
(***************************************************************************)
(* Properties                                                              *)
(***************************************************************************)

\* Every variable stays within its type.
Version   == Nat
StateMark == Nat \X (Modes \cup {"none"})
TypeOK ==
    /\ {config, stamp, parsed, loaded, asked} \subseteq Version
    /\ kept \in [version : Version, stamp : Version, valid : BOOLEAN]
    /\ loading \in BOOLEAN /\ confused \in BOOLEAN
    /\ work \in {"idle", "asked", "written", "moved"}
    /\ {gen, exits, requested, settled, switches, changes} \subseteq Nat
    /\ {wanted, applied} \subseteq Modes /\ reapplied \in BOOLEAN
    /\ cache \in [exits : Nat, mark : StateMark, old : BOOLEAN, torn : BOOLEAN]
    /\ polling \subseteq Poll
    /\ report \in [Poll -> [exits : Nat, mark : StateMark]]
    /\ served \in [Poll -> Nat]
    /\ loading <=> parsed # 0
    /\ \A q \in Poll : q \in polling <=> report[q].exits # 0

\* A load returns settings at least as new as the file was when it began, unless
\* a write of another process fell between an earlier parse and its stamp, or
\* could not be told by the stamp; the watchdog's own writes, which may leave
\* the stamp as it was too, are always seen.
ConfigCurrent == ~loading /\ ~confused => loaded >= asked

\* The mark does its work: a snapshot that may be served was collected after the
\* last request, and after the last successful switch too if that changed the
\* applied mode, unless the mark changed while its report was being collected.
\* When the switch went to the mode applied already, to undo a fail-over, a
\* snapshot from the midst of it may be served until it has aged.
SnapshotAfterSwitch ==
    Servable /\ ~cache.torn =>
        /\ cache.exits >= requested
        /\ reapplied \/ cache.exits >= settled

\* The page catches up: once nothing changes any more, every poll shows the
\* exits as they are, also after a slow poll has put an older report in place.
StatusFollows == <>[](\A q \in Poll : served[q] = exits)
=============================================================================
