-------------------------- MODULE ReaderCachesProofs --------------------------
(***************************************************************************)
(* Proofs about the two caches, for any number of polls, switches and      *)
(* changes.                                                                *)
(*                                                                         *)
(* The configuration: as long as nothing was confused, a document under    *)
(* the file's own stamp is the file (ConfigInv).  The status: a request    *)
(* makes a mark nothing bears yet, and a switch that changes the applied   *)
(* mode ends with another such mark, so whatever bears the present mark was*)
(* collected after them (StatusInv).                                       *)
(***************************************************************************)
EXTENDS ReaderCaches, TLAPS

ConfigInv ==
    /\ config > 0
    /\ kept.valid => kept.stamp <= stamp
    /\ ~confused =>
        /\ loading => parsed = config /\ asked = config
        /\ kept.valid /\ kept.stamp = stamp => kept.version = config
        /\ ~loading => loaded >= asked

\* A mark the switch under way may still end with bears nothing.
NotAhead(m) ==
    /\ m[1] <= gen
    /\ Busy /\ wanted # applied => m # <<gen, wanted>>

\* Exits collected after the last request, and after the last success if that
\* changed the applied mode.
Fresh(e) == e >= requested /\ (reapplied \/ e >= settled)

StatusInv ==
    /\ gen > 0 /\ exits > 0
    /\ settled <= exits /\ requested <= exits
    /\ Busy => settled <= requested
    /\ NotAhead(cache.mark)
    /\ cache.mark = Mark /\ ~cache.torn => Fresh(cache.exits)
    /\ \A q \in polling :
        /\ NotAhead(report[q].mark)
        /\ report[q].mark = Mark => Fresh(report[q].exits)

LEMMA KeptFields ==
    ASSUME TypeOK
    PROVE  /\ kept.version \in Nat /\ kept.stamp \in Nat /\ kept.valid \in BOOLEAN
           /\ config \in Nat /\ stamp \in Nat /\ parsed \in Nat /\ loaded \in Nat
           /\ asked \in Nat
  BY DEF TypeOK, Version

LEMMA StatusFields ==
    ASSUME TypeOK
    PROVE  /\ gen \in Nat /\ exits \in Nat /\ settled \in Nat /\ requested \in Nat
           /\ applied \in Modes /\ wanted \in Modes /\ reapplied \in BOOLEAN
           /\ Mark \in StateMark
           /\ cache.exits \in Nat /\ cache.mark \in StateMark
           /\ cache.old \in BOOLEAN /\ cache.torn \in BOOLEAN
           /\ \A q \in Poll : report[q].exits \in Nat /\ report[q].mark \in StateMark
  BY DEF TypeOK, StateMark, Mark

-----------------------------------------------------------------------------
(***************************************************************************)
(* Types                                                                   *)
(***************************************************************************)

LEMMA TypeStep ==
    ASSUME TypeOK, ConfigInv, StatusInv, [Next]_vars
    PROVE  TypeOK'
  <1>0. /\ {config, stamp, parsed, loaded, asked} \subseteq Nat
        /\ kept \in [version : Nat, stamp : Nat, valid : BOOLEAN]
        /\ loading \in BOOLEAN /\ confused \in BOOLEAN
        /\ config > 0 /\ exits > 0
        /\ {gen, exits, requested, settled, switches, changes} \subseteq Nat
        /\ loading <=> parsed # 0
        /\ Mark \in StateMark /\ NoReport \in [exits : Nat, mark : StateMark]
        /\ NoReport.exits = 0
    BY StatusFields DEF TypeOK, Version, ConfigInv, StatusInv, NoReport, NoMark, StateMark
  <1> DEFINE ConfigType ==
          /\ {config, stamp, parsed, loaded, asked} \subseteq Nat
          /\ kept \in [version : Nat, stamp : Nat, valid : BOOLEAN]
          /\ loading \in BOOLEAN /\ confused \in BOOLEAN
          /\ loading <=> parsed # 0
      WorkType ==
          /\ work \in {"idle", "asked", "written", "moved"}
          /\ {gen, exits, requested, settled, switches, changes} \subseteq Nat
          /\ {wanted, applied} \subseteq Modes /\ reapplied \in BOOLEAN
      StatusType ==
          /\ cache \in [exits : Nat, mark : StateMark, old : BOOLEAN, torn : BOOLEAN]
          /\ polling \subseteq Poll
          /\ report \in [Poll -> [exits : Nat, mark : StateMark]]
          /\ served \in [Poll -> Nat]
          /\ \A q \in Poll : q \in polling <=> report[q].exits # 0
  <1>1. ConfigType /\ WorkType /\ StatusType
    BY DEF TypeOK, Version
  <1>2. Load \/ OtherWrites \/ OwnWrite \/ UNCHANGED configVars => ConfigType'
    <2>1. CASE LoadKept
      BY <1>0, <2>1 DEF LoadKept
    <2>2. CASE LoadParse
      BY <1>0, <2>2 DEF LoadParse
    <2>3. CASE LoadStamp
      <3>1. [version |-> parsed, stamp |-> stamp, valid |-> TRUE]
            \in [version : Nat, stamp : Nat, valid : BOOLEAN]
        BY <1>0
      <3>2. kept' \in [version : Nat, stamp : Nat, valid : BOOLEAN]
        BY <2>3, <3>1 DEF LoadStamp
      <3>3. /\ {config', stamp', parsed', loaded', asked'} \subseteq Nat
            /\ loading' = FALSE /\ parsed' = 0 /\ confused' = confused
        BY <1>0, <2>3 DEF LoadStamp
      <3>4. QED
        BY <1>0, <3>2, <3>3
    <2>4. CASE OtherWrites
      BY <1>0, <2>4 DEF OtherWrites
    <2>5. CASE OwnWrite
      BY <1>0, <2>5 DEF OwnWrite, NoDoc
    <2>6. CASE UNCHANGED configVars
      BY <1>1, <2>6 DEF configVars
    <2>7. QED
      BY <2>1, <2>2, <2>3, <2>4, <2>5, <2>6 DEF Load
  <1>3. ASSUME NEW q \in Poll, Polls(q)
        PROVE  StatusType'
    <2>1. CASE Serve(q)
      BY <1>1, <2>1, StatusFields DEF Serve
    <2>2. CASE Collect(q)
      BY <1>0, <1>1, <2>2 DEF Collect
    <2>3. CASE Store(q)
      BY <1>0, <1>1, <2>3, StatusFields DEF Store
    <2>4. QED
      BY <1>3, <2>1, <2>2, <2>3 DEF Polls
  <1>4. CASE UNCHANGED vars
    BY <1>4 DEF vars, configVars, workVars, pastVars, statusVars, TypeOK
  <1>5. CASE Load \/ OwnWrite
    <2>1. UNCHANGED <<workVars, statusVars>> /\ changes' \in Nat
      BY <1>0, <1>5 DEF Load, LoadKept, LoadParse, LoadStamp, OwnWrite
    <2>2. QED
      BY <1>1, <1>2, <1>5, <2>1 DEF TypeOK, Version, workVars, pastVars, statusVars
  <1>6. CASE Request \/ Worker \/ End \/ Outside
    <2>1. WorkType'
      <3>1. CASE Request
        BY <1>1, <3>1 DEF Request
      <3>2. CASE Finish
        <4>1. reapplied' \in BOOLEAN
          BY <3>2 DEF Finish
        <4>2. QED
          BY <1>1, <3>2, <4>1 DEF Finish
      <3>3. CASE WritePlan \/ MoveExits \/ End \/ Outside
        <4>1. reapplied' = reapplied
          BY <3>3 DEF WritePlan, MoveExits, End, Outside, pastVars
        <4>2. QED
          BY <1>1, <3>3, <4>1 DEF WritePlan, MoveExits, End, Outside, pastVars
      <3>4. QED
        BY <1>6, <3>1, <3>2, <3>3 DEF Worker
    <2>2. UNCHANGED statusVars /\ (OtherWrites \/ UNCHANGED configVars)
      BY <1>6 DEF Request, Worker, WritePlan, MoveExits, Finish, End, Outside
    <2>3. QED
      BY <1>1, <1>2, <2>1, <2>2 DEF TypeOK, Version, statusVars
  <1>7. CASE \E q \in Poll : Polls(q)
    <2>1. UNCHANGED <<configVars, workVars, changes>>
      BY <1>7 DEF Polls, Serve, Collect, Store
    <2>2. QED
      BY <1>1, <1>2, <1>3, <1>7, <2>1 DEF TypeOK, Version, workVars, pastVars
  <1>8. CASE Ages
    <2>1. UNCHANGED <<configVars, workVars, polling, report, served, changes>>
      BY <1>8 DEF Ages
    <2>2. cache' \in [exits : Nat, mark : StateMark, old : BOOLEAN, torn : BOOLEAN]
      BY <1>1, <1>8 DEF Ages
    <2>3. QED
      BY <1>1, <1>2, <2>1, <2>2 DEF TypeOK, Version, workVars, pastVars
  <1>9. QED
    BY <1>4, <1>5, <1>6, <1>7, <1>8 DEF Next

-----------------------------------------------------------------------------
(***************************************************************************)
(* The configuration                                                       *)
(***************************************************************************)

LEMMA ConfigStep ==
    ASSUME TypeOK, ConfigInv, [Next]_vars
    PROVE  ConfigInv'
  <1>0. /\ kept.version \in Nat /\ kept.stamp \in Nat /\ kept.valid \in BOOLEAN
        /\ {config, stamp, parsed, loaded, asked} \subseteq Nat
        /\ loading \in BOOLEAN /\ confused \in BOOLEAN
    BY KeptFields DEF TypeOK
  <1>1. CASE UNCHANGED configVars
    BY <1>1 DEF configVars, ConfigInv
  <1>2. CASE LoadKept
    BY <1>0, <1>2 DEF LoadKept, ConfigInv
  <1>3. CASE LoadParse
    BY <1>0, <1>3 DEF LoadParse, ConfigInv
  <1>4. CASE LoadStamp
    BY <1>0, <1>4 DEF LoadStamp, ConfigInv
  <1>5. CASE OtherWrites
    BY <1>0, <1>5 DEF OtherWrites, ConfigInv
  <1>6. CASE OwnWrite
    BY <1>0, <1>6 DEF OwnWrite, NoDoc, ConfigInv
  <1>7. \/ UNCHANGED configVars \/ LoadKept \/ LoadParse \/ LoadStamp \/ OtherWrites
        \/ OwnWrite
    BY DEF Next, vars, Load, Request, Worker, WritePlan, MoveExits, Finish, End, Outside,
           Polls, Serve, Collect, Store, Ages
  <1>8. QED
    BY <1>1, <1>2, <1>3, <1>4, <1>5, <1>6, <1>7

-----------------------------------------------------------------------------
(***************************************************************************)
(* The status                                                              *)
(***************************************************************************)

LEMMA StatusStep ==
    ASSUME TypeOK, StatusInv, [Next]_vars
    PROVE  StatusInv'
  <1>0. /\ gen \in Nat /\ exits \in Nat /\ settled \in Nat /\ requested \in Nat
        /\ cache.exits \in Nat /\ cache.mark \in StateMark
        /\ polling \subseteq Poll
        /\ report \in [Poll -> [exits : Nat, mark : StateMark]]
        /\ \A q \in Poll : report[q].exits \in Nat /\ report[q].mark \in StateMark
    BY StatusFields DEF TypeOK
  <1>1. CASE UNCHANGED <<workVars, statusVars>>
    BY <1>1 DEF workVars, pastVars, statusVars, StatusInv, NotAhead, Fresh, Mark, Busy
  <1>2. CASE Request
    <2>1. /\ gen' = gen + 1 /\ requested' = exits
          /\ UNCHANGED <<exits, settled, statusVars>>
      BY <1>2 DEF Request
    <2>2. ASSUME NEW m \in StateMark, m[1] <= gen
          PROVE  m # Mark' /\ NotAhead(m)'
      BY <1>0, <2>1, <2>2 DEF Mark, NotAhead, StateMark
    <2>3. /\ NotAhead(cache.mark)' /\ (cache.mark # Mark)'
          /\ \A q \in polling : NotAhead(report[q].mark)' /\ (report[q].mark # Mark)'
      BY <1>0, <2>1, <2>2 DEF StatusInv, NotAhead, statusVars
    <2>4. QED
      BY <1>0, <2>1, <2>3 DEF StatusInv, statusVars
  <1>3. CASE Finish
    <2>1. /\ Busy /\ ~Busy' /\ applied' = wanted /\ settled' = exits
          /\ reapplied' = (wanted = applied)
          /\ UNCHANGED <<wanted, gen, exits, requested, statusVars>>
      BY <1>3 DEF Finish, Busy
    <2>2. ASSUME NEW m \in StateMark, NEW e \in Nat, NotAhead(m), m = Mark => Fresh(e)
          PROVE  NotAhead(m)' /\ ((m = Mark)' => Fresh(e)')
      <3>1. CASE wanted = applied
        BY <2>1, <2>2, <3>1 DEF NotAhead, Fresh, Mark
      <3>2. CASE wanted # applied
        BY <2>1, <2>2, <3>2 DEF NotAhead, Mark
      <3>3. QED
        BY <3>1, <3>2
    <2>3. /\ NotAhead(cache.mark)' /\ ((cache.mark = Mark /\ ~cache.torn => Fresh(cache.exits))')
      <3>1. CASE cache.torn
        <4>1. NotAhead(cache.mark)'
          BY <2>1 DEF StatusInv, NotAhead, statusVars
        <4>2. QED
          BY <2>1, <3>1, <4>1 DEF statusVars
      <3>2. CASE ~cache.torn
        <4>1. NotAhead(cache.mark) /\ (cache.mark = Mark => Fresh(cache.exits))
          BY <3>2 DEF StatusInv
        <4>2. QED
          BY <1>0, <2>1, <2>2, <4>1 DEF statusVars, Fresh, Mark, NotAhead
      <3>3. QED
        BY <3>1, <3>2
    <2>4. \A q \in polling : /\ NotAhead(report[q].mark)'
                             /\ (report[q].mark = Mark => Fresh(report[q].exits))'
      BY <1>0, <2>1, <2>2 DEF StatusInv, statusVars, NotAhead, Fresh, Mark
    <2>5. QED
      BY <1>0, <2>1, <2>3, <2>4 DEF StatusInv, statusVars
  <1>4. CASE WritePlan \/ End \/ MoveExits \/ Outside
    <2>1. /\ UNCHANGED <<wanted, gen, applied, pastVars, statusVars>>
          /\ exits' \in {exits, exits + 1}
          /\ Busy' => Busy
      BY <1>4 DEF WritePlan, End, MoveExits, Outside, Busy
    <2>2. QED
      BY <1>0, <2>1 DEF StatusInv, statusVars, pastVars, NotAhead, Fresh, Mark
  <1>5. CASE Ages
    <2>1. /\ UNCHANGED <<workVars, polling, report>>
          /\ cache'.exits = cache.exits /\ cache'.mark = cache.mark
          /\ cache'.torn = cache.torn
      BY <1>5 DEF Ages, TypeOK
    <2>2. QED
      BY <2>1 DEF workVars, pastVars, StatusInv, NotAhead, Fresh, Mark, Busy
  <1>6. ASSUME NEW q \in Poll, Serve(q)
        PROVE  StatusInv'
    BY <1>6 DEF Serve, workVars, pastVars, StatusInv, NotAhead, Fresh, Mark, Busy
  <1>7. ASSUME NEW q \in Poll, Collect(q)
        PROVE  StatusInv'
    <2>1. /\ UNCHANGED <<workVars, cache>> /\ polling' = polling \cup {q}
          /\ report'[q].exits = exits /\ report'[q].mark = Mark
          /\ \A r \in Poll \ {q} : report'[r] = report[r]
      BY <1>0, <1>7 DEF Collect
    <2>2. NotAhead(Mark) /\ Fresh(exits)
      BY <1>0 DEF StatusInv, NotAhead, Fresh, Mark
    <2>3. QED
      BY <1>0, <2>1, <2>2
         DEF workVars, pastVars, StatusInv, NotAhead, Fresh, Mark, Busy
  <1>8. ASSUME NEW q \in Poll, Store(q)
        PROVE  StatusInv'
    <2>1. /\ UNCHANGED workVars /\ polling' = polling \ {q} /\ q \in polling
          /\ cache'.exits = report[q].exits /\ cache'.mark = Mark
          /\ cache'.torn = (report[q].mark # Mark)
          /\ \A r \in Poll \ {q} : report'[r] = report[r]
      BY <1>0, <1>8 DEF Store
    <2>2. NotAhead(Mark)
      BY <1>0 DEF StatusInv, NotAhead, Mark
    <2>3. cache'.torn \/ Fresh(cache'.exits)
      BY <2>1 DEF StatusInv
    <2>4. \A r \in polling' : r \in polling /\ report'[r] = report[r]
      BY <1>0, <2>1
    <2>5. QED
      BY <1>0, <2>1, <2>2, <2>3, <2>4
         DEF workVars, pastVars, StatusInv, NotAhead, Fresh, Mark, Busy
  <1>9. \/ UNCHANGED <<workVars, statusVars>> \/ Request \/ Finish \/ WritePlan \/ End
        \/ MoveExits \/ Outside \/ Ages \/ \E q \in Poll : Serve(q) \/ Collect(q) \/ Store(q)
    BY DEF Next, vars, Load, LoadKept, LoadParse, LoadStamp, OwnWrite, Worker, Polls
  <1>10. QED
    BY <1>1, <1>2, <1>3, <1>4, <1>5, <1>6, <1>7, <1>8, <1>9

-----------------------------------------------------------------------------
(***************************************************************************)
(* The theorems                                                            *)
(***************************************************************************)

CacheInv == TypeOK /\ ConfigInv /\ StatusInv

LEMMA CacheInvariant == Spec => []CacheInv
  <1>1. Init => CacheInv
    <2>1. Init => TypeOK
      <3>1. /\ NoDoc \in [version : Nat, stamp : Nat, valid : BOOLEAN]
            /\ NoSnapshot \in [exits : Nat, mark : StateMark, old : BOOLEAN,
                               torn : BOOLEAN]
            /\ NoReport \in [exits : Nat, mark : StateMark] /\ NoReport.exits = 0
        BY DEF NoDoc, NoSnapshot, NoReport, NoMark, StateMark
      <3>2. ASSUME Init
            PROVE  /\ report \in [Poll -> [exits : Nat, mark : StateMark]]
                   /\ served \in [Poll -> Nat]
                   /\ \A q \in Poll : q \in polling <=> report[q].exits # 0
        BY <3>1, <3>2 DEF Init
      <3>3. ASSUME Init
            PROVE  cache \in [exits : Nat, mark : StateMark, old : BOOLEAN, torn : BOOLEAN]
        BY <3>1, <3>3 DEF Init
      <3>4. ASSUME Init
            PROVE  kept \in [version : Nat, stamp : Nat, valid : BOOLEAN]
        BY <3>1, <3>4 DEF Init
      <3>5. ASSUME Init
            PROVE  /\ {config, stamp, parsed, loaded, asked} \subseteq Nat
                   /\ work \in {"idle", "asked", "written", "moved"}
                   /\ {gen, exits, requested, settled, switches, changes} \subseteq Nat
                   /\ {wanted, applied} \subseteq Modes
                   /\ polling \subseteq Poll
        BY <3>5 DEF Init
      <3>6. ASSUME Init
            PROVE  /\ loading \in BOOLEAN /\ confused \in BOOLEAN /\ reapplied \in BOOLEAN
                   /\ loading <=> parsed # 0
        <4>1. loading = FALSE /\ confused = FALSE /\ parsed = 0 /\ reapplied = FALSE
          BY <3>6 DEF Init
        <4>2. QED
          BY <4>1
      <3>7. QED
        BY <3>2, <3>3, <3>4, <3>5, <3>6 DEF TypeOK, Version
    <2>2. Init => ConfigInv
      BY DEF Init, ConfigInv, NoDoc
    <2>3. Init => StatusInv
      BY DEF Init, StatusInv, NoSnapshot, NoMark, NotAhead, Mark, Busy
    <2>4. QED
      BY <2>1, <2>2, <2>3 DEF CacheInv
  <1>2. CacheInv /\ [Next]_vars => CacheInv'
    BY TypeStep, ConfigStep, StatusStep DEF CacheInv
  <1>3. QED
    BY <1>1, <1>2, PTL DEF Spec

\* Every variable stays within its type; a report is kept exactly while its poll
\* runs.
THEOREM CacheTypeSafe == Spec => []TypeOK
  <1>1. CacheInv => TypeOK
    BY DEF CacheInv
  <1>2. QED
    BY <1>1, CacheInvariant, PTL

\* For any number of polls and changes: a load returns settings at least as new
\* as the file was when it began, unless a write of another process fell between
\* a parse and its stamp or kept the stamp.
THEOREM ConfigCurrentSafe == Spec => []ConfigCurrent
  <1>1. CacheInv => ConfigCurrent
    BY DEF CacheInv, ConfigInv, ConfigCurrent
  <1>2. QED
    BY <1>1, CacheInvariant, PTL

\* For any number of polls and switches: no snapshot that may be served shows the
\* exits from before the last request, nor, unless the switch went to the mode
\* applied already, those from before its success, unless it was torn.
THEOREM SnapshotSafe == Spec => []SnapshotAfterSwitch
  <1>1. CacheInv => SnapshotAfterSwitch
    BY DEF CacheInv, StatusInv, Fresh, SnapshotAfterSwitch, Servable
  <1>2. QED
    BY <1>1, CacheInvariant, PTL
=============================================================================
