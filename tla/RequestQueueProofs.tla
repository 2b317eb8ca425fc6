------------------------- MODULE RequestQueueProofs -------------------------
(***************************************************************************)
(* Proofs about the request protocol, for any number of requests.          *)
(*                                                                         *)
(* Who holds the writer lock follows from where a process is (Holders), a  *)
(* worker's locals from where it is (Control).  What the state file says   *)
(* is trusted only as long as no mishap was recorded: then every write has *)
(* kept what it did not name (RenameClean), so the file names a holder     *)
(* (Published) and its generation never falls (Generations).               *)
(*                                                                         *)
(* The last part is about who answers for the newest request: the file     *)
(* names it (Asked), a process at its generation runs for it (Current),    *)
(* and some process is responsible until it is served (Answered).          *)
(***************************************************************************)
EXTENDS RequestQueue, TLAPS

Early   == {"ask", "set_read", "set_write", "check"}
Waiting == {"lock", "defer", "busy_read", "busy_write"}
Working == {"take", "begin_read", "begin_write", "gate", "switching",
            "applied_read", "applied_write", "finish_read", "finish_write",
            "pending", "newer"}
Ending  == {"reconcile", "align_read", "align_write", "aligned_read",
            "aligned_write"}

\* A process holds the lock exactly in these places.
Holders == \A p \in Proc : lock = p <=> pc[p] \in Working \cup Ending

\* The locals of a process, by where it is.
Control ==
    /\ pc[Watch] \in {"ask"} \cup Ending
    /\ \A p \in Proc :
        /\ pc[p] \in {"set_read", "set_write", "check"} => ask[p] \in Asks
        /\ pc[p] \in Waiting \cup Working => task[p] \in Mode
        /\ p \in Request /\ pc[p] \in Early => rounds[p] = 0
        /\ p \in Request /\ pc[p] \in Early \cup Waiting => loops[p] = 0
        /\ pc[p] = "lock" => rounds[p] < LockRounds
        /\ pc[p] = "take" => loops[p] < LoopLimit

-----------------------------------------------------------------------------
(***************************************************************************)
(* The state file                                                          *)
(***************************************************************************)

Merged(b, pairs) == [k \in Keys |-> IF k \in DOMAIN pairs THEN pairs[k] ELSE b[k]]

LEMMA MergedType ==
    ASSUME NEW b \in File, NEW g \in Nat, NEW m \in Mode, NEW q \in Proc
    PROVE  /\ Merged(b, [gen |-> g]) \in File
           /\ Merged(b, [gen |-> g, requested |-> m]) \in File
           /\ Merged(b, [gen |-> g, state |-> "ended", pid |-> "none"]) \in File
           /\ Merged(b, [state |-> "running", pid |-> q]) \in File
           /\ Merged(b, [state |-> "ended", pid |-> "none"]) \in File
           /\ Merged(b, [applied |-> m]) \in File
  BY DEF Merged, File, Keys

LEMMA FileFields ==
    ASSUME NEW b \in File
    PROVE  /\ b.gen \in Nat /\ b.state \in {"running", "ended"}
           /\ b.requested \in Mode \cup {"none"} /\ b.applied \in Mode \cup {"none"}
           /\ b.pid \in Proc \cup {"none"}
  BY DEF File

LEMMA EmptyType == EmptyFile \in File
  BY DEF EmptyFile, File

\* A write keeps the types when its merge does.
LEMMA RenameType ==
    ASSUME TypeOK, NEW p \in Proc, NEW pairs, NEW also \in SUBSET Mishap,
           Rename(p, pairs, also), Merged(buf[p], pairs) \in File
    PROVE  file' \in File /\ buf' \in [Proc -> File] /\ mishap' \subseteq Mishap
  <1>1. file' \in File
    BY DEF Rename, Merged
  <1>2. buf' \in [Proc -> File]
    BY EmptyType DEF Rename, TypeOK
  <1>3. mishap' \subseteq Mishap
    BY DEF Rename, TypeOK, Mishap
  <1>4. QED
    BY <1>1, <1>2, <1>3

\* A write that records no mishap changes the keys it names and no others.
LEMMA RenameClean ==
    ASSUME NEW p \in Proc, NEW pairs, NEW also, Rename(p, pairs, also),
           mishap' = {}
    PROVE  /\ mishap = {} /\ also = {}
           /\ file' = Merged(file, pairs)
  <1>1. mishap = {} /\ also = {} /\ Overwrites(p, pairs) = {}
    BY DEF Rename
  <1>2. \A k \in Keys \ DOMAIN pairs : file[k] = buf[p][k]
    BY <1>1 DEF Overwrites
  <1>3. QED
    BY <1>1, <1>2 DEF Rename, Merged

\* The process is gone, and its locals with it.
LEMMA QuitType ==
    ASSUME TypeOK, NEW p \in Proc, Quit(p)
    PROVE  /\ pc' \in [Proc -> PC] /\ gen' \in [Proc -> Nat]
           /\ task' \in [Proc -> Mode \cup {"align", "none"}]
           /\ cfg' \in [Proc -> Mode]
           /\ out' \in [Proc -> {"none", "ok", "failed", "superseded"}]
           /\ pending' \in [Proc -> Mode \cup {"none"}]
           /\ rounds' \in [Proc -> 0..LockRounds]
           /\ loops' \in [Proc -> 0..LoopLimit]
  BY QueueAssumption DEF TypeOK, Quit, GoTo, PC

LEMMA QuitControl ==
    ASSUME TypeOK, Control, NEW p \in Proc, p # Watch, Quit(p), UNCHANGED ask
    PROVE  Control'
  BY DEF TypeOK, Control, Quit, GoTo, Early, Waiting, Working, Ending

LEMMA LeftType == LeftToAlign \subseteq Mishap
  BY DEF LeftToAlign, Mishap

-----------------------------------------------------------------------------
(***************************************************************************)
(* Types and locals                                                        *)
(***************************************************************************)

\* A process that writes the state file and goes on.
LEMMA WriteStep ==
    ASSUME TypeOK, Control, NEW p \in Proc,
           \/ SetWrite(p) \/ LockBusy(p) \/ Begin(p) \/ Applied(p) \/ Finish(p)
           \/ AlignBegin(p) \/ AlignEnd(p)
    PROVE  TypeOK' /\ Control'
  <1>0. /\ buf[p] \in File /\ gen[p] \in Nat /\ file \in File
        /\ mishap \subseteq Mishap
    BY DEF TypeOK
  <1>1. CASE SetWrite(p)
    <2>0. p # Watch /\ ask[p] \in Asks
      BY <1>1 DEF SetWrite, Control, Ending
    <2>1. file' \in File /\ buf' \in [Proc -> File] /\ mishap' \subseteq Mishap
      <3> DEFINE also == IF gen[p] <= file.gen THEN {"gen_reused"} ELSE {}
      <3>1. also \in SUBSET Mishap
        BY DEF Mishap
      <3>2. CASE ask[p] = "align"
        <4>1. Rename(p, [gen |-> gen[p]], also)
          BY <1>1, <3>2 DEF SetWrite
        <4>2. Merged(buf[p], [gen |-> gen[p]]) \in File
          BY <1>0, QueueAssumption, MergedType, InitMode \in Mode
        <4>3. QED
          BY <3>1, <4>1, <4>2, RenameType
      <3>3. CASE ask[p] # "align"
        <4>1. Rename(p, [gen |-> gen[p], requested |-> ask[p]], also)
          BY <1>1, <3>3 DEF SetWrite
        <4>2. ask[p] \in Mode
          BY <2>0, <3>3, QueueAssumption
        <4>3. Merged(buf[p], [gen |-> gen[p], requested |-> ask[p]]) \in File
          BY <1>0, <4>2, MergedType
        <4>4. QED
          BY <3>1, <4>1, <4>3, RenameType
      <3>4. QED
        BY <3>2, <3>3
    <2>2. latest' \in Proc /\ failed' \subseteq Mode
      BY <1>1 DEF SetWrite, TypeOK
    <2>3. pc' = [pc EXCEPT ![p] = "check"]
      BY <1>1 DEF SetWrite, GoTo
    <2>4. UNCHANGED <<lock, mode, ask, locals, aligns, before, newest>>
      BY <1>1 DEF SetWrite
    <2>5. TypeOK'
      BY <2>1, <2>2, <2>3, <2>4 DEF TypeOK, locals, PC
    <2>6. Control'
      BY <2>0, <2>3, <2>4, <1>1
         DEF SetWrite, TypeOK, Control, locals, Early, Waiting, Working, Ending
    <2>7. QED
      BY <2>5, <2>6
  <1>2. CASE LockBusy(p)
    <2>0. p # Watch /\ task[p] \in Mode
      BY <1>2 DEF LockBusy, Control, Ending, Waiting
    <2>1. file' \in File /\ buf' \in [Proc -> File] /\ mishap' \subseteq Mishap
      <3> DEFINE also == IF gen[p] < file.gen THEN {"gen_reused"} ELSE {}
      <3> DEFINE pairs == [gen |-> gen[p], state |-> "ended", pid |-> "none"]
      <3>1. also \in SUBSET Mishap
        BY DEF Mishap
      <3>2. Rename(p, pairs, also)
        BY <1>2 DEF LockBusy
      <3>3. Merged(buf[p], pairs) \in File
        BY <1>0, <2>0, MergedType
      <3> HIDE DEF also, pairs
      <3>4. QED
        BY <3>1, <3>2, <3>3, RenameType
    <2>2. failed' \subseteq Mode
      BY <1>2, <2>0 DEF LockBusy, TypeOK
    <2>3. Quit(p) /\ UNCHANGED <<lock, mode, ask, aligns, latest, before, newest>>
      BY <1>2 DEF LockBusy
    <2>4. TypeOK'
      BY <2>1, <2>2, <2>3, QuitType DEF TypeOK
    <2>5. QED
      BY <2>0, <2>3, <2>4, QuitControl
  <1>3. CASE Begin(p) \/ Applied(p) \/ Finish(p)
    <2>0. p # Watch /\ task[p] \in Mode
      BY <1>3 DEF Begin, Applied, Finish, Control, Ending, Working
    <2>1. file' \in File /\ buf' \in [Proc -> File] /\ mishap' \subseteq Mishap
      <3>1. {} \in SUBSET Mishap
        OBVIOUS
      <3>2. /\ Merged(buf[p], [state |-> "running", pid |-> p]) \in File
            /\ Merged(buf[p], [state |-> "ended", pid |-> "none"]) \in File
            /\ Merged(buf[p], [applied |-> task[p]]) \in File
        BY <1>0, <2>0, MergedType
      <3>3. QED
        BY <1>3, <3>1, <3>2, RenameType DEF Begin, Applied, Finish
    <2>2. UNCHANGED <<lock, mode, ask, locals, aligns, history>>
      BY <1>3 DEF Begin, Applied, Finish
    <2>3. PICK q \in {"applied_read", "gate", "finish_read", "pending"} :
              pc' = [pc EXCEPT ![p] = q]
      BY <1>3 DEF Begin, Applied, Finish, GoTo
    <2>4. TypeOK'
      BY <2>1, <2>2, <2>3 DEF TypeOK, locals, history, PC
    <2>5. Control'
      BY <2>0, <2>2, <2>3
         DEF TypeOK, Control, locals, Early, Waiting, Working, Ending
    <2>6. QED
      BY <2>4, <2>5
  <1>4. CASE AlignBegin(p) \/ AlignEnd(p)
    <2>1. file' \in File /\ buf' \in [Proc -> File] /\ mishap' \subseteq Mishap
      <3>1. {} \in SUBSET Mishap
        OBVIOUS
      <3>2. /\ Merged(buf[p], [state |-> "running", pid |-> p]) \in File
            /\ Merged(buf[p], [state |-> "ended", pid |-> "none"]) \in File
        BY <1>0, QueueAssumption, MergedType
      <3>3. QED
        BY <1>4, <3>1, <3>2, RenameType DEF AlignBegin, AlignEnd
    <2>2. UNCHANGED <<mode, ask, locals, aligns, history>>
      BY <1>4 DEF AlignBegin, AlignEnd
    <2>3. lock' \in {lock, "none"}
      BY <1>4 DEF AlignBegin, AlignEnd
    <2>4. PICK q \in {"aligned_read", "ask", "exit"} :
              pc' = [pc EXCEPT ![p] = q] /\ (q = "ask" <=> q # "aligned_read" /\ p = Watch)
      BY <1>4 DEF AlignBegin, AlignEnd, Leave, GoTo
    <2>5. TypeOK'
      BY <2>1, <2>2, <2>3, <2>4 DEF TypeOK, locals, history, PC
    <2>6. Control'
      BY <2>2, <2>4, QueueAssumption
         DEF TypeOK, Control, locals, Early, Waiting, Working, Ending
    <2>7. QED
      BY <2>5, <2>6
  <1>5. QED
    BY <1>1, <1>2, <1>3, <1>4

\* The locals of a process that moves are as they should be at its new place;
\* the others have not moved.
LEMMA ControlMoves ==
    ASSUME TypeOK, Control, NEW p \in Proc, NEW q, GoTo(p, q),
           p = Watch => q \in {"ask"} \cup Ending,
           \A r \in Proc \ {p} : /\ ask'[r] = ask[r] /\ task'[r] = task[r]
                                /\ rounds'[r] = rounds[r] /\ loops'[r] = loops[r],
           q \in {"set_read", "set_write", "check"} => ask'[p] \in Asks,
           q \in Waiting \cup Working => task'[p] \in Mode,
           p \in Request /\ q \in Early => rounds'[p] = 0,
           p \in Request /\ q \in Early \cup Waiting => loops'[p] = 0,
           q = "lock" => rounds'[p] < LockRounds,
           q = "take" => loops'[p] < LoopLimit
    PROVE  Control'
  <1>1. pc'[p] = q /\ \A r \in Proc \ {p} : pc'[r] = pc[r]
    BY DEF TypeOK, GoTo
  <1>2. pc'[Watch] \in {"ask"} \cup Ending
    BY <1>1 DEF Control, Proc
  <1>3. ASSUME NEW r \in Proc \ {p}
        PROVE  /\ pc'[r] \in {"set_read", "set_write", "check"} => ask'[r] \in Asks
               /\ pc'[r] \in Waiting \cup Working => task'[r] \in Mode
               /\ r \in Request /\ pc'[r] \in Early => rounds'[r] = 0
               /\ r \in Request /\ pc'[r] \in Early \cup Waiting => loops'[r] = 0
               /\ pc'[r] = "lock" => rounds'[r] < LockRounds
               /\ pc'[r] = "take" => loops'[r] < LoopLimit
    BY <1>1 DEF Control
  <1>4. QED
    BY <1>1, <1>2, <1>3 DEF Control

\* Any other step of a process: the file is left as it is.
LEMMA LocalStep ==
    ASSUME TypeOK, Control, NEW p \in Proc,
           \/ ReadStep(p) \/ Ask(p) \/ Check(p) \/ Lock(p) \/ Defer(p)
           \/ Take(p) \/ Gate(p) \/ Outcome(p) \/ Pending(p) \/ NextRequest(p)
           \/ Reconcile(p) \/ Exit(p) \/ AlignLock(p)
    PROVE  TypeOK' /\ Control'
  <1> USE QueueAssumption
  <1>1. CASE ReadStep(p)
    <2>1. /\ buf' = [buf EXCEPT ![p] = file]
          /\ UNCHANGED <<file, lock, mode, ask, locals, aligns, history, mishap>>
      BY <1>1 DEF ReadStep, Read
    <2>2. PICK q \in {"set_write", "busy_write", "begin_write", "applied_write",
                      "finish_write", "align_write", "aligned_write"} :
              /\ pc' = [pc EXCEPT ![p] = q]
              /\ q = "set_write" => pc[p] = "set_read"
              /\ q = "busy_write" => pc[p] = "busy_read"
              /\ q = "begin_write" => pc[p] = "begin_read"
              /\ q = "applied_write" => pc[p] = "applied_read"
              /\ q = "finish_write" => pc[p] = "finish_read"
              /\ q = "align_write" => pc[p] = "align_read"
              /\ q = "aligned_write" => pc[p] = "aligned_read"
      BY <1>1 DEF ReadStep, Read, GoTo
    <2>3. TypeOK'
      BY <2>1, <2>2 DEF TypeOK, locals, history, PC
    <2>4. Control'
      BY <2>1, <2>2 DEF TypeOK, Control, locals, Early, Waiting, Working, Ending
    <2>5. QED
      BY <2>3, <2>4
  <1>2. CASE Ask(p)
    <2>1. TypeOK'
      BY <1>2, FileFields DEF Ask, TypeOK, GoTo, history, PC
    <2>2. Control'
      BY <1>2 DEF Ask, TypeOK, Control, GoTo, Early, Waiting, Working, Ending
    <2>3. QED
      BY <2>1, <2>2
  <1>3. CASE Check(p)
    <2>0. p # Watch /\ ask[p] \in Asks
      BY <1>3 DEF Check, Control, Ending
    <2>1. CASE InProgress /\ Quit(p) /\ mishap' = mishap \cup LeftToAlign
      <3>1. TypeOK'
        BY <1>3, <2>1, QuitType, LeftType DEF Check, TypeOK, history
      <3>2. QED
        BY <1>3, <2>0, <2>1, <3>1, QuitControl DEF Check
    <2>2. CASE ~InProgress
      <3>1. TypeOK'
        BY <1>3, <2>0, <2>2 DEF Check, TypeOK, GoTo, history, PC
      <3> DEFINE q == IF ask[p] = "align" THEN "align_lock" ELSE "lock"
      <3>2. /\ GoTo(p, q) /\ UNCHANGED <<ask, rounds, loops>>
            /\ task' = [task EXCEPT ![p] = ask[p]] /\ pc[p] = "check"
        BY <1>3, <2>2 DEF Check
      <3>3. p \in Request /\ rounds[p] = 0 /\ loops[p] = 0
        BY <2>0, <3>2 DEF Control, Early, Proc
      <3>4. q = "lock" => task'[p] \in Mode
        BY <2>0, <3>2 DEF TypeOK
      <3>5. \A r \in Proc \ {p} : task'[r] = task[r]
        BY <3>2 DEF TypeOK
      <3>6. q \in {"align_lock", "lock"}
        OBVIOUS
      <3> HIDE DEF q
      <3>7. Control'
        BY <2>0, <3>2, <3>3, <3>4, <3>5, <3>6, ControlMoves
           DEF Early, Waiting, Working, Ending
      <3>8. QED
        BY <3>1, <3>7
    <2>3. QED
      BY <1>3, <2>1, <2>2 DEF Check
  <1>4. CASE Lock(p)
    <2>0. rounds[p] \in 0 .. LockRounds - 1 /\ p # Watch
      BY <1>4 DEF Lock, Control, TypeOK, Ending
    <2>1. TypeOK'
      BY <1>4, <2>0 DEF Lock, TypeOK, GoTo, history, PC
    <2>2. pc[p] = "lock" /\ UNCHANGED <<ask, task, loops>>
      BY <1>4 DEF Lock
    <2>3. loops[p] = 0 /\ task[p] \in Mode
      BY <2>0, <2>2 DEF Control, Waiting, Proc
    <2>4. PICK q \in {"take", "defer"} :
              GoTo(p, q) /\ rounds' \in {rounds, [rounds EXCEPT ![p] = @ + 1]}
      BY <1>4 DEF Lock
    <2>5. \A r \in Proc \ {p} : rounds'[r] = rounds[r]
      BY <2>4 DEF TypeOK
    <2>6. Control'
      BY <2>0, <2>2, <2>3, <2>4, <2>5, ControlMoves DEF Early, Waiting, Working, Ending
    <2>7. QED
      BY <2>1, <2>6
  <1>5. CASE Defer(p)
    <2>0. p # Watch
      BY <1>5 DEF Defer, Control, Ending
    <2>1. CASE InProgress /\ Quit(p) /\ mishap' = mishap \cup LeftToAlign
      <3>1. TypeOK'
        BY <1>5, <2>1, QuitType, LeftType DEF Defer, TypeOK, history
      <3>2. QED
        BY <1>5, <2>0, <2>1, <3>1, QuitControl DEF Defer
    <2>2. CASE ~InProgress
      <3>1. TypeOK'
        BY <1>5, <2>2 DEF Defer, TypeOK, GoTo, locals, history, PC
      <3> DEFINE q == IF rounds[p] < LockRounds THEN "lock" ELSE "busy_read"
      <3>2. GoTo(p, q) /\ UNCHANGED <<ask, task, rounds, loops>> /\ pc[p] = "defer"
        BY <1>5, <2>2 DEF Defer, locals
      <3>3. loops[p] = 0 /\ task[p] \in Mode
        BY <2>0, <3>2 DEF Control, Waiting, Proc
      <3>4. q \in {"lock", "busy_read"} /\ (q = "lock" => rounds[p] < LockRounds)
        OBVIOUS
      <3> HIDE DEF q
      <3>5. Control'
        BY <2>0, <3>2, <3>3, <3>4, ControlMoves DEF Early, Waiting, Working, Ending
      <3>6. QED
        BY <3>1, <3>5
    <2>3. QED
      BY <1>5, <2>1, <2>2 DEF Defer
  <1>6. CASE Take(p)
    <2>0. loops[p] \in 0 .. LoopLimit - 1 /\ task[p] \in Mode /\ p # Watch
      BY <1>6 DEF Take, Control, TypeOK, Working, Ending
    <2>1. TypeOK'
      <3>1. /\ pc' \in [Proc -> PC] /\ loops' \in [Proc -> 0..LoopLimit]
            /\ out' \in [Proc -> {"none", "ok", "failed", "superseded"}]
        BY <1>6, <2>0 DEF Take, TypeOK, GoTo, PC
      <3>2. mishap' \subseteq Mishap
        BY <1>6 DEF Take, TypeOK, Mishap
      <3>3. QED
        BY <1>6, <3>1, <3>2 DEF Take, TypeOK, history
    <2>2. Control'
      BY <1>6, <2>0 DEF Take, TypeOK, Control, GoTo, Early, Waiting, Working, Ending
    <2>3. QED
      BY <2>1, <2>2
  <1>7. CASE Gate(p) \/ Outcome(p)
    <2>0. task[p] \in Mode /\ p # Watch /\ cfg[p] \in Mode /\ gen[p] \in Nat
      BY <1>7 DEF Gate, Outcome, Control, TypeOK, Working, Ending
    <2>1. PICK q \in {"switching", "finish_read", "applied_read"} : GoTo(p, q)
      BY <1>7 DEF Gate, Outcome
    <2>2. UNCHANGED <<file, lock, ask, buf, gen, task, cfg, pending, rounds, loops,
                      aligns, latest>>
      BY <1>7 DEF Gate, Outcome
    <2>3. /\ pc' \in [Proc -> PC]
          /\ out' \in [Proc -> {"none", "ok", "failed", "superseded"}]
      <3>1. out' = out \/ \E o \in {"ok", "failed", "superseded"} :
                               out' = [out EXCEPT ![p] = o]
        BY <1>7 DEF Gate, Outcome
      <3>2. QED
        BY <2>1, <3>1 DEF TypeOK, GoTo, PC
    <2>4. mode' \in Mode /\ failed' \subseteq Mode /\ before' \in Mode /\ newest' \in Nat
      <3>1. CASE Gate(p)
        BY <2>0, <3>1 DEF Gate, TypeOK
      <3>2. CASE Outcome(p)
        BY <2>0, <3>2 DEF Outcome, TypeOK
      <3>3. QED
        BY <1>7, <3>1, <3>2
    <2>5. mishap' \subseteq Mishap
      BY <1>7 DEF Gate, Outcome, TypeOK, Mishap
    <2>6. TypeOK'
      BY <2>2, <2>3, <2>4, <2>5 DEF TypeOK
    <2>7. Control'
      BY <2>0, <2>1, <2>2, ControlMoves DEF Early, Waiting, Working, Ending
    <2>8. QED
      BY <2>6, <2>7
  <1>8. CASE Pending(p)
    <2>1. TypeOK'
      BY <1>8, FileFields DEF Pending, TypeOK, GoTo, history, PC
    <2>2. Control'
      BY <1>8 DEF Pending, TypeOK, Control, GoTo, Early, Waiting, Working, Ending
    <2>3. QED
      BY <2>1, <2>2
  <1>9. CASE NextRequest(p)
    <2>0. task[p] \in Mode /\ p # Watch /\ task'[p] \in Mode
      BY <1>9 DEF NextRequest, Newer, Adopt, Control, TypeOK, Working, Ending
    <2>1. UNCHANGED <<file, lock, mode, ask, buf, cfg, out, pending, rounds, loops,
                      aligns, history>>
      BY <1>9 DEF NextRequest
    <2>2. PICK q \in {"take", "reconcile"} :
              GoTo(p, q) /\ (q = "take" => loops[p] < LoopLimit)
      BY <1>9 DEF NextRequest
    <2>3. /\ gen' \in [Proc -> Nat]
          /\ task' \in [Proc -> Mode \cup {"align", "none"}]
          /\ \A r \in Proc \ {p} : task'[r] = task[r]
      <3>1. CASE Newer(p) /\ Adopt(p)
        BY <3>1, FileFields DEF Newer, Adopt, TypeOK
      <3>2. CASE UNCHANGED <<task, gen>>
        BY <3>2 DEF TypeOK
      <3>3. QED
        BY <1>9, <3>1, <3>2 DEF NextRequest
    <2>4. mishap' \subseteq Mishap
      BY <1>9 DEF NextRequest, TypeOK, Mishap
    <2>5. pc' \in [Proc -> PC]
      BY <2>2 DEF TypeOK, GoTo, PC
    <2>6. TypeOK'
      BY <2>1, <2>3, <2>4, <2>5 DEF TypeOK, history
    <2>7. Control'
      BY <2>0, <2>1, <2>2, <2>3, ControlMoves DEF Early, Waiting, Working, Ending
    <2>8. QED
      BY <2>6, <2>7
  <1>10. CASE Reconcile(p)
    <2>1. TypeOK'
      BY <1>10 DEF Reconcile, Leave, TypeOK, GoTo, locals, history, PC
    <2>2. PICK q \in {"ask", "exit", "align_read"} :
              GoTo(p, q) /\ (q = "ask" => p = Watch) /\ (q = "exit" => p # Watch)
      BY <1>10 DEF Reconcile, Leave
    <2>3. UNCHANGED <<ask, task, rounds, loops>>
      BY <1>10 DEF Reconcile, locals
    <2>4. Control'
      BY <2>2, <2>3, QueueAssumption, ControlMoves DEF Early, Waiting, Working, Ending
    <2>5. QED
      BY <2>1, <2>4
  <1>11. CASE Exit(p)
    <2>1. p # Watch
      BY <1>11 DEF Exit, Control, Ending
    <2>2. TypeOK'
      BY <1>11, QuitType DEF Exit, TypeOK, history
    <2>3. QED
      BY <1>11, <2>1, <2>2, QuitControl DEF Exit
  <1>12. CASE AlignLock(p)
    <2>0. p # Watch
      BY <1>12 DEF AlignLock, Control, Ending
    <2>1. CASE Quit(p) /\ UNCHANGED lock
      <3>1. TypeOK'
        BY <1>12, <2>1, QuitType DEF AlignLock, TypeOK, history
      <3>2. QED
        BY <1>12, <2>0, <2>1, <3>1, QuitControl DEF AlignLock
    <2>2. CASE lock' = p /\ GoTo(p, "reconcile") /\ UNCHANGED locals
      <3>1. TypeOK'
        BY <1>12, <2>2 DEF AlignLock, TypeOK, GoTo, locals, history, PC
      <3>2. Control'
        BY <1>12, <2>0, <2>2
           DEF AlignLock, TypeOK, Control, GoTo, locals, Early, Waiting, Working, Ending
      <3>3. QED
        BY <3>1, <3>2
    <2>3. QED
      BY <1>12, <2>1, <2>2 DEF AlignLock
  <1>13. QED
    BY <1>1, <1>2, <1>3, <1>4, <1>5, <1>6, <1>7, <1>8, <1>9, <1>10, <1>11, <1>12

LEMMA TypeStep ==
    ASSUME TypeOK, Control, [Next]_vars
    PROVE  TypeOK' /\ Control'
  <1>1. CASE UNCHANGED vars
    BY <1>1 DEF vars, locals, history, TypeOK, Control
  <1>2. CASE WatchTick
    <2>1. TypeOK'
      BY <1>2 DEF WatchTick, TypeOK, GoTo, Proc, locals, history, PC
    <2>2. Control'
      BY <1>2
         DEF WatchTick, TypeOK, Control, GoTo, Proc, locals, Early, Waiting, Working, Ending
    <2>3. QED
      BY <2>1, <2>2
  <1>3. ASSUME NEW p \in Proc, Step(p)
        PROVE  TypeOK' /\ Control'
    BY <1>3, WriteStep, LocalStep DEF Step
  <1>4. QED
    BY <1>1, <1>2, <1>3 DEF Next

LEMMA InitTyped == Init => TypeOK /\ Control
  BY QueueAssumption, EmptyType
     DEF Init, TypeOK, Control, Proc, PC, Early, Waiting, Working, Ending

\* For any number of requests and any bounds, every variable stays within its
\* type: no worker exceeds its rounds for the lock or its runs of a switch.
THEOREM QueueTypeSafe == Spec => []TypeOK
  <1>1. Init => TypeOK /\ Control
    BY InitTyped
  <1>2. TypeOK /\ Control /\ [Next]_vars => (TypeOK /\ Control)'
    BY TypeStep
  <1>3. QED
    BY <1>1, <1>2, PTL DEF Spec

-----------------------------------------------------------------------------
(***************************************************************************)
(* Who holds the lock                                                      *)
(***************************************************************************)

\* A step of one process leaves the others where they are.
LEMMA OthersStay ==
    ASSUME TypeOK, NEW p \in Proc, Step(p)
    PROVE  /\ \E q \in PC : GoTo(p, q)
           /\ \A r \in Proc \ {p} : pc'[r] = pc[r] /\ gen'[r] = gen[r] /\ ask'[r] = ask[r]
  <1>1. \E q \in PC : GoTo(p, q)
    BY DEF Step, ReadStep, Read, Ask, SetWrite, Check, Lock, Defer, LockBusy, Take, Begin,
           Gate, Outcome, Applied, Finish, Pending, NextRequest, Reconcile, Exit,
           AlignLock, AlignBegin, AlignEnd, Quit, Leave, GoTo, PC
  <1>2. \/ gen' = gen \/ \E g : gen' = [gen EXCEPT ![p] = g]
    BY DEF Step, ReadStep, Read, Ask, SetWrite, Check, Lock, Defer, LockBusy, Take, Begin,
           Gate, Outcome, Applied, Finish, Pending, NextRequest, Reconcile, Exit,
           AlignLock, AlignBegin, AlignEnd, Quit, Adopt, locals
  <1>3. \/ ask' = ask \/ \E a : ask' = [ask EXCEPT ![p] = a]
    BY DEF Step, ReadStep, Read, Ask, SetWrite, Check, Lock, Defer, LockBusy, Take, Begin,
           Gate, Outcome, Applied, Finish, Pending, NextRequest, Reconcile, Exit,
           AlignLock, AlignBegin, AlignEnd
  <1>4. QED
    BY <1>1, <1>2, <1>3 DEF TypeOK, GoTo

LEMMA HoldersMove ==
    ASSUME TypeOK, Holders, NEW p \in Proc, NEW q, GoTo(p, q),
           \/ lock' = lock /\ (q \in Working \cup Ending <=> pc[p] \in Working \cup Ending)
           \/ lock = "none" /\ lock' = p /\ q \in Working \cup Ending
           \/ /\ pc[p] \in Working \cup Ending /\ lock' = "none"
              /\ q \notin Working \cup Ending
    PROVE  Holders'
  <1>1. pc'[p] = q /\ \A r \in Proc \ {p} : pc'[r] = pc[r]
    BY DEF TypeOK, GoTo
  <1>2. "none" \notin Proc
    BY QueueAssumption DEF Proc
  <1> HIDE DEF Working, Ending
  <1>3. QED
    BY <1>1, <1>2 DEF Holders

\* Every step keeps the places of the lock's holder.
LEMMA HoldersStep ==
    ASSUME TypeOK, Control, Holders, [Next]_vars
    PROVE  Holders'
  <1>1. CASE UNCHANGED vars
    BY <1>1 DEF vars, Holders
  <1>2. CASE WatchTick
    <2>1. Watch \in Proc /\ GoTo(Watch, "reconcile") /\ lock = "none" /\ lock' = Watch
      BY <1>2 DEF WatchTick, Proc
    <2>2. QED
      BY <2>1, HoldersMove DEF Ending
  <1>3. ASSUME NEW p \in Proc, Step(p)
        PROVE  Holders'
    <2>1. CASE ReadStep(p)
      <3>1. lock' = lock
        BY <2>1 DEF ReadStep, Read
      <3>2. PICK q : GoTo(p, q) /\ (q \in Working \cup Ending <=> pc[p] \in Working \cup Ending)
        BY <2>1 DEF ReadStep, Read, Working, Ending
      <3>3. QED
        BY <3>1, <3>2, HoldersMove
    <2>2. CASE \/ Ask(p) \/ SetWrite(p) \/ Check(p) \/ Defer(p) \/ LockBusy(p) \/ Exit(p)
      <3>1. lock' = lock /\ pc[p] \notin Working \cup Ending
        BY <2>2 DEF Ask, SetWrite, Check, Defer, LockBusy, Exit, Working, Ending
      <3>2. PICK q : GoTo(p, q) /\ q \notin Working \cup Ending
        BY <2>2 DEF Ask, SetWrite, Check, Defer, LockBusy, Exit, Quit, Working, Ending
      <3>3. QED
        BY <3>1, <3>2, HoldersMove
    <2>3. CASE \/ Take(p) \/ Begin(p) \/ Gate(p) \/ Outcome(p) \/ Applied(p) \/ Finish(p)
               \/ Pending(p) \/ NextRequest(p) \/ AlignBegin(p)
      <3>1. lock' = lock /\ pc[p] \in Working \cup Ending
        BY <2>3 DEF Take, Begin, Gate, Outcome, Applied, Finish, Pending, NextRequest,
                    AlignBegin, Working, Ending
      <3>2. PICK q : GoTo(p, q) /\ q \in Working \cup Ending
        BY <2>3 DEF Take, Begin, Gate, Outcome, Applied, Finish, Pending, NextRequest,
                    AlignBegin, Working, Ending
      <3>3. QED
        BY <3>1, <3>2, HoldersMove
    <2>4. CASE Lock(p) \/ AlignLock(p)
      <3>1. pc[p] \notin Working \cup Ending
        BY <2>4 DEF Lock, AlignLock, Working, Ending
      <3>2. PICK q : /\ GoTo(p, q)
                     /\ \/ lock = "none" /\ lock' = p /\ q \in Working \cup Ending
                        \/ lock' = lock /\ q \notin Working \cup Ending
        BY <2>4 DEF Lock, AlignLock, Quit, Working, Ending
      <3>3. QED
        BY <3>1, <3>2, HoldersMove
    <2>5. CASE Reconcile(p) \/ AlignEnd(p)
      <3>1. pc[p] \in Working \cup Ending
        BY <2>5 DEF Reconcile, AlignEnd, Ending
      <3>2. PICK q : /\ GoTo(p, q)
                     /\ \/ lock' = "none" /\ q \notin Working \cup Ending
                        \/ lock' = lock /\ q \in Working \cup Ending
        BY <2>5 DEF Reconcile, AlignEnd, Leave, Working, Ending
      <3>3. QED
        BY <3>1, <3>2, HoldersMove
    <2>6. QED
      BY <1>3, <2>1, <2>2, <2>3, <2>4, <2>5 DEF Step
  <1>4. QED
    BY <1>1, <1>2, <1>3 DEF Next

-----------------------------------------------------------------------------
(***************************************************************************)
(* What the state file says, while nothing went wrong                      *)
(***************************************************************************)

Running == {"gate", "switching", "applied_read", "applied_write", "finish_read",
            "finish_write", "aligned_read", "aligned_write"}

\* The task the file shows is one that its process is in the middle of.
Published ==
    mishap = {} /\ file.state = "running"
    => file.pid \in Proc /\ pc[file.pid] \in Running

\* No generation in use is above the file's.
Generations ==
    mishap = {} =>
    /\ newest <= file.gen
    /\ \A p \in Proc :
        /\ pc[p] \in Waiting \cup Working => gen[p] <= file.gen /\ file.requested \in Mode
        /\ pc[p] = "check" => /\ gen[p] <= file.gen
                              /\ ask[p] # "align" => file.requested \in Mode

\* A clean write of the file, by each of its writers.
LEMMA Writes ==
    ASSUME TypeOK, NEW p \in Proc, mishap' = {}
    PROVE  /\ mishap = {}  \/ ~Step(p)
           /\ SetWrite(p) =>
                /\ gen[p] > file.gen /\ file'.gen = gen[p]
                /\ file'.requested = IF ask[p] = "align" THEN file.requested ELSE ask[p]
                /\ file'.state = file.state /\ file'.pid = file.pid
           /\ LockBusy(p) =>
                /\ gen[p] >= file.gen /\ file'.gen = gen[p]
                /\ file'.requested = file.requested /\ file'.state = "ended"
           /\ Begin(p) \/ AlignBegin(p) =>
                /\ file'.gen = file.gen /\ file'.requested = file.requested
                /\ file'.state = "running" /\ file'.pid = p
           /\ Applied(p) =>
                /\ file'.gen = file.gen /\ file'.requested = file.requested
                /\ file'.state = file.state /\ file'.pid = file.pid
           /\ Finish(p) \/ AlignEnd(p) =>
                /\ file'.gen = file.gen /\ file'.requested = file.requested
                /\ file'.state = "ended"
  <1>0. gen[p] \in Nat /\ file.gen \in Nat
    BY FileFields DEF TypeOK
  <1>1. mishap = {} \/ ~Step(p)
    BY DEF Step, ReadStep, Read, Ask, SetWrite, Check, Lock, Defer, LockBusy, Take, Begin,
           Gate, Outcome, Applied, Finish, Pending, NextRequest, Reconcile, Exit,
           AlignLock, AlignBegin, AlignEnd, Rename
  <1>2. ASSUME SetWrite(p)
        PROVE  /\ gen[p] > file.gen /\ file'.gen = gen[p]
               /\ file'.requested = IF ask[p] = "align" THEN file.requested ELSE ask[p]
               /\ file'.state = file.state /\ file'.pid = file.pid
    <2> DEFINE reused == IF gen[p] <= file.gen THEN {"gen_reused"} ELSE {}
    <2>1. CASE ask[p] = "align"
      <3>1. Rename(p, [gen |-> gen[p]], reused)
        BY <1>2, <2>1 DEF SetWrite
      <3>2. reused = {} /\ file' = Merged(file, [gen |-> gen[p]])
        BY <3>1, RenameClean
      <3>3. QED
        BY <1>0, <2>1, <3>2 DEF Merged, Keys
    <2>2. CASE ask[p] # "align"
      <3>1. Rename(p, [gen |-> gen[p], requested |-> ask[p]], reused)
        BY <1>2, <2>2 DEF SetWrite
      <3>2. reused = {} /\ file' = Merged(file, [gen |-> gen[p], requested |-> ask[p]])
        BY <3>1, RenameClean
      <3>3. QED
        BY <1>0, <2>2, <3>2 DEF Merged, Keys
    <2>3. QED
      BY <2>1, <2>2
  <1>3. ASSUME LockBusy(p)
        PROVE  /\ gen[p] >= file.gen /\ file'.gen = gen[p]
               /\ file'.requested = file.requested /\ file'.state = "ended"
    <2> DEFINE reused == IF gen[p] < file.gen THEN {"gen_reused"} ELSE {}
    <2> DEFINE pairs == [gen |-> gen[p], state |-> "ended", pid |-> "none"]
    <2>1. Rename(p, pairs, reused)
      BY <1>3 DEF LockBusy
    <2>2. reused = {} /\ file' = Merged(file, pairs)
      BY <2>1, RenameClean
    <2>3. QED
      BY <1>0, <2>2 DEF Merged, Keys
  <1>4. ASSUME Begin(p) \/ AlignBegin(p)
        PROVE  /\ file'.gen = file.gen /\ file'.requested = file.requested
               /\ file'.state = "running" /\ file'.pid = p
    <2>1. Rename(p, [state |-> "running", pid |-> p], {})
      BY <1>4 DEF Begin, AlignBegin
    <2>2. file' = Merged(file, [state |-> "running", pid |-> p])
      BY <2>1, RenameClean
    <2>3. QED
      BY <2>2 DEF Merged, Keys
  <1>5. ASSUME Applied(p)
        PROVE  /\ file'.gen = file.gen /\ file'.requested = file.requested
               /\ file'.state = file.state /\ file'.pid = file.pid
    <2>1. Rename(p, [applied |-> task[p]], {})
      BY <1>5 DEF Applied
    <2>2. file' = Merged(file, [applied |-> task[p]])
      BY <2>1, RenameClean
    <2>3. QED
      BY <2>2 DEF Merged, Keys
  <1>6. ASSUME Finish(p) \/ AlignEnd(p)
        PROVE  /\ file'.gen = file.gen /\ file'.requested = file.requested
               /\ file'.state = "ended"
    <2>1. Rename(p, [state |-> "ended", pid |-> "none"], {})
      BY <1>6 DEF Finish, AlignEnd
    <2>2. file' = Merged(file, [state |-> "ended", pid |-> "none"])
      BY <2>1, RenameClean
    <2>3. QED
      BY <2>2 DEF Merged, Keys
  <1>7. QED
    BY <1>1, <1>2, <1>3, <1>4, <1>5, <1>6

\* Every other step leaves the file alone.
LEMMA FileKept ==
    ASSUME NEW p \in Proc, Step(p)
    PROVE  \/ SetWrite(p) \/ LockBusy(p) \/ Begin(p) \/ AlignBegin(p) \/ Applied(p)
           \/ Finish(p) \/ AlignEnd(p) \/ file' = file
  BY DEF Step, ReadStep, Read, Ask, Check, Lock, Defer, Take, Gate, Outcome, Pending,
         NextRequest, Reconcile, Exit, AlignLock

LEMMA PublishedStep ==
    ASSUME TypeOK, Control, Published, [Next]_vars
    PROVE  Published'
  <1>1. CASE UNCHANGED vars
    BY <1>1 DEF vars, Published
  <1>2. CASE WatchTick
    <2>1. /\ Watch \in Proc /\ GoTo(Watch, "reconcile") /\ pc[Watch] = "ask"
          /\ file' = file /\ mishap' = mishap
      BY <1>2 DEF WatchTick, Proc
    <2>2. QED
      BY <2>1 DEF Published, GoTo, TypeOK, Running
  <1>3. ASSUME NEW p \in Proc, Step(p), mishap' = {}, file'.state = "running"
        PROVE  file'.pid \in Proc /\ pc'[file'.pid] \in Running
    <2>1. mishap = {}
      BY <1>3, Writes
    <2>2. \A r \in Proc \ {p} : pc'[r] = pc[r]
      BY <1>3, OthersStay
    <2>3. ~LockBusy(p) /\ ~Finish(p) /\ ~AlignEnd(p)
      BY <1>3, Writes
    <2>4. CASE Begin(p) \/ AlignBegin(p)
      <3>1. file'.pid = p
        BY <1>3, <2>4, Writes
      <3>2. pc'[p] \in Running
        BY <2>4 DEF Begin, AlignBegin, GoTo, TypeOK, Running
      <3>3. QED
        BY <3>1, <3>2
    <2>5. CASE ~(Begin(p) \/ AlignBegin(p))
      <3>1. file'.state = file.state /\ file'.pid = file.pid
        BY <1>3, <2>3, <2>5, FileKept, Writes
      <3>2. file.pid \in Proc /\ pc[file.pid] \in Running
        BY <1>3, <2>1, <3>1 DEF Published
      <3>3. pc[p] \in Running => pc'[p] \in Running
        <4>1. ASSUME pc[p] \in Running
              PROVE  \/ Read(p, "applied_read", "applied_write")
                     \/ Read(p, "finish_read", "finish_write")
                     \/ Read(p, "aligned_read", "aligned_write")
                     \/ Gate(p) \/ Outcome(p) \/ Applied(p)
          BY <1>3, <2>3, <2>5, <4>1
             DEF Step, ReadStep, Read, Ask, SetWrite, Check, Lock, Defer, Take, Pending,
                 NextRequest, Reconcile, Exit, AlignLock, Running
        <4>2. QED
          BY <4>1 DEF Read, Gate, Outcome, Applied, GoTo, TypeOK, Running
      <3>4. QED
        BY <2>2, <3>1, <3>2, <3>3
    <2>6. QED
      BY <2>4, <2>5
  <1>4. QED
    BY <1>1, <1>2, <1>3 DEF Next, Published

LEMMA GenerationsStep ==
    ASSUME TypeOK, Control, Generations, [Next]_vars
    PROVE  Generations'
  <1>1. CASE UNCHANGED vars
    BY <1>1 DEF vars, locals, history, Generations
  <1>2. CASE WatchTick
    <2>1. /\ Watch \in Proc /\ GoTo(Watch, "reconcile")
          /\ UNCHANGED <<file, gen, ask, newest, mishap>>
      BY <1>2 DEF WatchTick, Proc, locals, history
    <2>2. QED
      BY <2>1 DEF Generations, GoTo, TypeOK, Waiting, Working
  <1>3. ASSUME NEW p \in Proc, Step(p), mishap' = {}
        PROVE  /\ newest' <= file'.gen
               /\ \A r \in Proc :
                   /\ pc'[r] \in Waiting \cup Working
                      => gen'[r] <= file'.gen /\ file'.requested \in Mode
                   /\ pc'[r] = "check" => /\ gen'[r] <= file'.gen
                                          /\ ask'[r] # "align" => file'.requested \in Mode
    <2>0. /\ mishap = {}
          /\ gen \in [Proc -> Nat] /\ newest \in Nat /\ file.gen \in Nat
          /\ file.requested \in Mode \cup {"none"}
      BY <1>3, Writes, FileFields DEF TypeOK
    <2>1. \A r \in Proc \ {p} : pc'[r] = pc[r] /\ gen'[r] = gen[r] /\ ask'[r] = ask[r]
      BY <1>3, OthersStay
    <2>2. /\ newest <= file.gen
          /\ \A r \in Proc :
              /\ pc[r] \in Waiting \cup Working
                 => gen[r] <= file.gen /\ file.requested \in Mode
              /\ pc[r] = "check" => /\ gen[r] <= file.gen
                                    /\ ask[r] # "align" => file.requested \in Mode
      BY <2>0 DEF Generations
    <2>3. SetWrite(p) => ask[p] \in Asks
      BY DEF SetWrite, Control
    <2>4. /\ file'.gen \in Nat /\ file'.gen >= file.gen
          /\ file.requested \in Mode => file'.requested \in Mode
      <3>1. CASE SetWrite(p)
        BY <1>3, <2>0, <2>3, <3>1, Writes, QueueAssumption
      <3>2. CASE ~SetWrite(p)
        BY <1>3, <2>0, <3>2, Writes, FileKept
      <3>3. QED
        BY <3>1, <3>2
    <2>5. newest' <= file'.gen
      <3>1. CASE newest' = newest
        BY <2>0, <2>2, <2>4, <3>1
      <3>2. CASE newest' # newest
        <4>1. Gate(p) /\ newest' = gen[p]
          BY <1>3, <3>2
             DEF Step, ReadStep, Read, Ask, SetWrite, Check, Lock, Defer, LockBusy, Take,
                 Begin, Gate, Outcome, Applied, Finish, Pending, NextRequest, Reconcile,
                 Exit, AlignLock, AlignBegin, AlignEnd, history
        <4>2. gen[p] <= file.gen
          BY <2>2, <4>1 DEF Gate, Working
        <4>3. QED
          BY <2>0, <2>4, <4>1, <4>2
      <3>3. QED
        BY <3>1, <3>2
    <2>6. ASSUME NEW r \in Proc \ {p}
          PROVE  /\ pc'[r] \in Waiting \cup Working
                    => gen'[r] <= file'.gen /\ file'.requested \in Mode
                 /\ pc'[r] = "check" => /\ gen'[r] <= file'.gen
                                        /\ ask'[r] # "align" => file'.requested \in Mode
      BY <2>0, <2>1, <2>2, <2>4
    <2>7. /\ pc'[p] \in Waiting \cup Working
             => gen'[p] <= file'.gen /\ file'.requested \in Mode
          /\ pc'[p] = "check" => /\ gen'[p] <= file'.gen
                                 /\ ask'[p] # "align" => file'.requested \in Mode
      <3>1. CASE SetWrite(p)
        <4>1. pc'[p] = "check" /\ gen' = gen /\ ask' = ask
          BY <3>1 DEF SetWrite, GoTo, TypeOK, locals
        <4>2. file'.gen = gen[p] /\ (ask[p] # "align" => file'.requested \in Mode)
          BY <1>3, <2>3, <3>1, Writes, QueueAssumption
        <4>3. QED
          BY <2>0, <4>1, <4>2 DEF Waiting, Working
      <3>2. CASE Check(p)
        <4>1. CASE pc'[p] = "done"
          BY <4>1 DEF Waiting, Working
        <4>2. CASE pc'[p] # "done"
          <5>1. GoTo(p, IF ask[p] = "align" THEN "align_lock" ELSE "lock") /\ gen' = gen
            BY <3>2, <4>2 DEF Check, Quit, GoTo, TypeOK
          <5>2. pc'[p] = IF ask[p] = "align" THEN "align_lock" ELSE "lock"
            BY <5>1 DEF GoTo, TypeOK
          <5>3. pc[p] = "check"
            BY <3>2 DEF Check
          <5>4. QED
            BY <2>0, <2>2, <2>4, <5>1, <5>2, <5>3 DEF Waiting, Working
        <4>3. QED
          BY <4>1, <4>2
      <3>3. CASE NextRequest(p)
        <4>1. pc[p] = "newer"
          BY <3>3 DEF NextRequest
        <4>2. gen[p] <= file.gen /\ file.requested \in Mode
          BY <2>2, <4>1 DEF Working
        <4>3. gen'[p] \in {gen[p], file.gen}
          BY <3>3 DEF NextRequest, Adopt, TypeOK
        <4>4. pc'[p] # "check"
          BY <3>3 DEF NextRequest, GoTo, TypeOK
        <4>5. QED
          BY <2>0, <2>4, <4>2, <4>3, <4>4
      <3>4. CASE \/ Ask(p) \/ LockBusy(p) \/ Exit(p) \/ Reconcile(p) \/ AlignLock(p)
                 \/ AlignBegin(p) \/ AlignEnd(p)
        <4>1. pc'[p] \notin Waiting \cup Working \cup {"check"}
          BY <3>4 DEF Ask, LockBusy, Exit, Reconcile, AlignLock, AlignBegin, AlignEnd, Quit,
                      Leave, GoTo, TypeOK, Waiting, Working
        <4>2. QED
          BY <4>1
      <3>5. CASE \/ ReadStep(p) \/ Lock(p) \/ Defer(p) \/ Take(p) \/ Begin(p) \/ Gate(p)
                 \/ Outcome(p) \/ Applied(p) \/ Finish(p) \/ Pending(p)
        <4>1. CASE pc'[p] = "done"
          BY <4>1 DEF Waiting, Working
        <4>2. CASE pc'[p] # "done"
          <5>1. gen' = gen
            BY <3>5, <4>2 DEF ReadStep, Read, Lock, Defer, Take, Begin, Gate, Outcome,
                    Applied, Finish, Pending, Quit, GoTo, TypeOK, locals
          <5>2. /\ pc'[p] # "check"
                /\ pc'[p] \in Waiting \cup Working => pc[p] \in Waiting \cup Working
            BY <3>5, <4>2 DEF ReadStep, Read, Lock, Defer, Take, Begin, Gate, Outcome,
                    Applied, Finish, Pending, Quit, GoTo, TypeOK, Waiting, Working
          <5>3. QED
            BY <2>0, <2>2, <2>4, <5>1, <5>2
        <4>3. QED
          BY <4>1, <4>2
      <3>6. QED
        BY <1>3, <3>1, <3>2, <3>3, <3>4, <3>5 DEF Step
    <2>8. QED
      BY <2>5, <2>6, <2>7
  <1>4. QED
    BY <1>1, <1>2, <1>3 DEF Next, Generations

-----------------------------------------------------------------------------
(***************************************************************************)
(* The theorems                                                            *)
(***************************************************************************)

QueueInv == TypeOK /\ Control /\ Holders /\ Published /\ Generations

LEMMA QueueInvariant == Spec => []QueueInv
  <1>1. Init => QueueInv
    <2>1. Init => TypeOK /\ Control
      BY InitTyped
    <2>2. Init => Holders
      BY QueueAssumption DEF Init, Holders, Proc, Working, Ending
    <2>3. Init => Published
      BY DEF Init, Published, EmptyFile
    <2>4. Init => Generations
      BY DEF Init, Generations, EmptyFile, Waiting, Working
    <2>5. QED
      BY <2>1, <2>2, <2>3, <2>4 DEF QueueInv
  <1>2. QueueInv /\ [Next]_vars => QueueInv'
    BY TypeStep, HoldersStep, PublishedStep, GenerationsStep DEF QueueInv
  <1>3. QED
    BY <1>1, <1>2, PTL DEF Spec

\* For any number of requests: as long as no write was lost and no request was
\* left to an alignment, a task the state file shows in progress is run by the
\* process that holds the writer lock.
THEOREM BusyMeansWriterSafe == Spec => []BusyMeansWriter
  <1>1. QueueInv => BusyMeansWriter
    BY DEF QueueInv, Published, Holders, BusyMeansWriter, InProgress, Running, Working, Ending
  <1>2. QED
    BY <1>1, QueueInvariant, PTL

\* For any number of requests: an overtaken worker never writes the plan of an
\* older request over a newer one's, unless one of the mishaps has happened.
THEOREM NewestSafe == Spec => NewestStays
  <1> DEFINE Step1 == \A p \in Proc : pc[p] = "gate" /\ pc'[p] = "switching"
                                     => gen[p] >= newest \/ mishap # {}
  <1>1. QueueInv /\ [Next]_vars => [Step1]_vars
    <2> SUFFICES ASSUME QueueInv, [Next]_vars, NEW p \in Proc,
                        pc[p] = "gate", pc'[p] = "switching", mishap = {}
                 PROVE  gen[p] >= newest
      OBVIOUS
    <2>0. /\ TypeOK /\ Generations
          /\ pc \in [Proc -> PC] /\ gen[p] \in Nat /\ newest \in Nat /\ file.gen \in Nat
      BY FileFields DEF QueueInv, TypeOK
    <2>1. PICK r \in Proc : Step(r)
      <3>1. ~UNCHANGED vars
        BY DEF vars
      <3>2. ~WatchTick
        BY <2>0 DEF WatchTick, GoTo
      <3>3. QED
        BY <3>1, <3>2 DEF Next
    <2>2. r = p
      BY <2>0, <2>1, OthersStay
    <2>3. Gate(p) /\ ~Superseded(p)
      BY <2>0, <2>1, <2>2
         DEF Step, ReadStep, Read, Ask, SetWrite, Check, Lock, Defer, LockBusy, Take,
             Begin, Gate, Outcome, Applied, Finish, Pending, NextRequest, Reconcile,
             Exit, AlignLock, AlignBegin, AlignEnd, GoTo
    <2>4. newest <= file.gen /\ file.requested \in Mode
      BY <2>0 DEF Generations, Working
    <2>5. QED
      BY <2>0, <2>3, <2>4 DEF Superseded
  <1>2. QED
    BY <1>1, QueueInvariant, PTL DEF Spec, NewestStays

-----------------------------------------------------------------------------
(***************************************************************************)
(* Who answers for the newest request                                      *)
(***************************************************************************)

Acting     == {"switching", "applied_read", "applied_write"}
Concluding == {"applied_read", "applied_write", "finish_read", "finish_write",
               "pending", "newer"}

\* The file names the newest request, whose process is past its write.
Asked ==
    latest \in Request =>
    /\ pc[latest] \notin {"ask", "set_read", "set_write"}
    /\ ask[latest] \in Mode
    /\ mishap = {} => file.requested = ask[latest]

\* A process at the newest generation runs for the newest request.
Current ==
    mishap = {} =>
    \A p \in Proc :
        /\ pc[p] \in Waiting \cup Working /\ gen[p] = file.gen => task[p] = file.requested
        /\ pc[p] = "check" /\ gen[p] = file.gen /\ ask[p] # "align"
           => ask[p] = file.requested

\* A switch at the newest generation that comes to its end was carried out, or
\* its failure is recorded.
InForce ==
    mishap = {} =>
    \A p \in Proc :
        /\ pc[p] \in {"begin_read", "begin_write"} /\ out[p] = "ok" => mode = task[p]
        /\ pc[p] \in Acting => mode = task[p]
        /\ pc[p] \in Concluding /\ gen[p] = file.gen
           => mode = task[p] \/ task[p] \in failed

\* applied_mode is the policy in force, but while a switch changes it.
AppliedInForce ==
    mishap = {} =>
    /\ \A p \in Proc : pc[p] = "switching" => file.applied \in {"none", before}
    /\ (\A p \in Proc : pc[p] \notin Acting) => file.applied \in {"none", mode}

\* Process p will run the newest request, or look for it.
Responsible(p) ==
    \/ pc[p] \in Waiting \cup {"take", "begin_read", "begin_write", "gate", "switching"}
    \/ /\ pc[p] \in {"applied_read", "applied_write", "finish_read", "finish_write",
                     "pending"}
       /\ gen[p] < file.gen
    \/ pc[p] = "newer" /\ gen[p] < file.gen /\ pending[p] = file.requested

Answered ==
    mishap = {} => Served \/ pc[latest] = "check" \/ \E p \in Proc : Responsible(p)

LEMMA HolderAlone ==
    ASSUME Holders, NEW p \in Proc, NEW r \in Proc,
           pc[p] \in Working \cup Ending, pc[r] \in Working \cup Ending
    PROVE  p = r
  BY DEF Holders

\* A step of one process leaves the others' locals alone.
LEMMA OthersLocals ==
    ASSUME TypeOK, NEW p \in Proc, Step(p)
    PROVE  \A r \in Proc \ {p} :
               task'[r] = task[r] /\ out'[r] = out[r] /\ pending'[r] = pending[r]
  <1>1. task' = task \/ \E t : task' = [task EXCEPT ![p] = t]
    BY DEF Step, ReadStep, Read, Ask, SetWrite, Check, Lock, Defer, LockBusy, Take, Begin,
           Gate, Outcome, Applied, Finish, Pending, NextRequest, Reconcile, Exit,
           AlignLock, AlignBegin, AlignEnd, Quit, Adopt, locals
  <1>2. out' = out \/ \E t : out' = [out EXCEPT ![p] = t]
    BY DEF Step, ReadStep, Read, Ask, SetWrite, Check, Lock, Defer, LockBusy, Take, Begin,
           Gate, Outcome, Applied, Finish, Pending, NextRequest, Reconcile, Exit,
           AlignLock, AlignBegin, AlignEnd, Quit, locals
  <1>3. pending' = pending \/ \E t : pending' = [pending EXCEPT ![p] = t]
    BY DEF Step, ReadStep, Read, Ask, SetWrite, Check, Lock, Defer, LockBusy, Take, Begin,
           Gate, Outcome, Applied, Finish, Pending, NextRequest, Reconcile, Exit,
           AlignLock, AlignBegin, AlignEnd, Quit, locals
  <1>4. QED
    BY <1>1, <1>2, <1>3 DEF TypeOK

\* What a step changes of the policy and of the history.
LEMMA PolicyChanges ==
    ASSUME NEW p \in Proc, Step(p)
    PROVE  /\ mode' = mode \/ Gate(p) \/ Outcome(p)
           /\ before' = before \/ Gate(p) \/ Outcome(p)
           /\ failed \subseteq failed' \/ SetWrite(p)
           /\ latest' = latest \/ SetWrite(p)
           /\ SetWrite(p) =>
                 \/ ask[p] = "align" /\ latest' = latest /\ failed' = failed
                 \/ ask[p] # "align" /\ latest' = p /\ failed' = {}
  BY DEF Step, ReadStep, Read, Ask, SetWrite, Check, Lock, Defer, LockBusy, Take, Begin,
         Gate, Outcome, Applied, Finish, Pending, NextRequest, Reconcile, Exit,
         AlignLock, AlignBegin, AlignEnd, history

\* What a clean step changes of the file.
LEMMA FileChanges ==
    ASSUME TypeOK, Control, Generations, NEW p \in Proc, Step(p), mishap' = {}
    PROVE  /\ mishap = {} /\ gen[p] \in Nat /\ file.gen \in Nat
           /\ SetWrite(p) =>
                /\ file'.gen = gen[p] /\ gen[p] > file.gen
                /\ file'.requested = IF ask[p] = "align" THEN file.requested ELSE ask[p]
           /\ ~SetWrite(p) => file'.gen = file.gen /\ file'.requested = file.requested
           /\ ~Applied(p) => file'.applied = file.applied
           /\ Applied(p) => file'.applied = task[p]
  <1>0. gen[p] \in Nat /\ file.gen \in Nat
    BY FileFields DEF TypeOK
  <1>1. mishap = {}
    BY Writes
  <1>2. LockBusy(p) => gen[p] <= file.gen
    BY <1>1 DEF LockBusy, Generations, Waiting
  <1>3. ~SetWrite(p) => file'.gen = file.gen /\ file'.requested = file.requested
    BY <1>0, <1>2, FileKept, Writes
  <1>4. Applied(p) => file'.applied = task[p]
    <2>1. SUFFICES ASSUME Applied(p) PROVE file'.applied = task[p]
      OBVIOUS
    <2>2. file' = Merged(file, [applied |-> task[p]])
      BY <2>1, RenameClean DEF Applied
    <2>3. QED
      BY <2>2 DEF Merged, Keys
  <1>5. ~Applied(p) => file'.applied = file.applied
    <2>1. CASE SetWrite(p)
      <3>1. CASE ask[p] = "align"
        <4>1. PICK also : Rename(p, [gen |-> gen[p]], also)
          BY <2>1, <3>1 DEF SetWrite
        <4>2. file' = Merged(file, [gen |-> gen[p]])
          BY <4>1, RenameClean
        <4>3. QED
          BY <4>2 DEF Merged, Keys
      <3>2. CASE ask[p] # "align"
        <4>1. PICK also : Rename(p, [gen |-> gen[p], requested |-> ask[p]], also)
          BY <2>1, <3>2 DEF SetWrite
        <4>2. file' = Merged(file, [gen |-> gen[p], requested |-> ask[p]])
          BY <4>1, RenameClean
        <4>3. QED
          BY <4>2 DEF Merged, Keys
      <3>3. QED
        BY <3>1, <3>2
    <2>2. CASE LockBusy(p)
      <3>1. PICK also : Rename(p, [gen |-> gen[p], state |-> "ended", pid |-> "none"], also)
        BY <2>2 DEF LockBusy
      <3>2. file' = Merged(file, [gen |-> gen[p], state |-> "ended", pid |-> "none"])
        BY <3>1, RenameClean
      <3>3. QED
        BY <3>2 DEF Merged, Keys
    <2>3. CASE Begin(p) \/ AlignBegin(p)
      <3>1. file' = Merged(file, [state |-> "running", pid |-> p])
        BY <2>3, RenameClean DEF Begin, AlignBegin
      <3>2. QED
        BY <3>1 DEF Merged, Keys
    <2>4. CASE Finish(p) \/ AlignEnd(p)
      <3>1. file' = Merged(file, [state |-> "ended", pid |-> "none"])
        BY <2>4, RenameClean DEF Finish, AlignEnd
      <3>2. QED
        BY <3>1 DEF Merged, Keys
    <2>5. QED
      BY <2>1, <2>2, <2>3, <2>4, FileKept
  <1>6. QED
    BY <1>0, <1>1, <1>3, <1>4, <1>5, Writes

\* The watchdog's tick is no step of a request.
LEMMA TickKeeps ==
    ASSUME TypeOK, WatchTick
    PROVE  /\ Watch \in Proc /\ pc[Watch] = "ask" /\ pc'[Watch] = "reconcile"
           /\ \A r \in Proc \ {Watch} : pc'[r] = pc[r]
           /\ UNCHANGED <<file, mode, ask, gen, task, out, pending, latest, failed, before,
                          mishap>>
  BY DEF TypeOK, WatchTick, GoTo, Proc, locals, history

LEMMA AskedStep ==
    ASSUME QueueInv, Asked, [Next]_vars
    PROVE  Asked'
  <1>0. TypeOK /\ Control /\ Generations
    BY DEF QueueInv
  <1>1. CASE UNCHANGED vars
    BY <1>1 DEF vars, history, Asked
  <1>2. CASE WatchTick
    BY <1>0, <1>2, TickKeeps, QueueAssumption DEF Asked, Proc
  <1>3. ASSUME NEW p \in Proc, Step(p)
        PROVE  Asked'
    <2>0. p \in Request => p # Watch
      BY QueueAssumption
    <2>1. CASE SetWrite(p) /\ ask[p] # "align"
      <3>1. latest' = p /\ pc'[p] = "check" /\ ask' = ask
        BY <1>0, <2>1 DEF SetWrite, GoTo, TypeOK
      <3>2. ask[p] \in Mode
        BY <1>0, <2>1, QueueAssumption DEF SetWrite, Control
      <3>3. mishap' = {} => file'.requested = ask[p]
        BY <1>0, <1>3, <2>1, FileChanges
      <3>4. QED
        BY <3>1, <3>2, <3>3 DEF Asked
    <2>2. CASE ~(SetWrite(p) /\ ask[p] # "align")
      <3>1. latest' = latest
        BY <1>3, <2>2, PolicyChanges
      <3>2. mishap' = {} => mishap = {} /\ file'.requested = file.requested
        BY <1>0, <1>3, <2>2, FileChanges
      <3>3. SUFFICES ASSUME latest \in Request
                     PROVE  /\ pc'[latest] \notin {"ask", "set_read", "set_write"}
                            /\ ask'[latest] = ask[latest]
        BY <3>1, <3>2 DEF Asked
      <3>4. CASE latest # p
        <4>1. latest \in Proc
          BY <3>3 DEF Proc
        <4>2. QED
          BY <1>0, <1>3, <3>3, <3>4, <4>1, OthersStay DEF Asked
      <3>5. CASE latest = p
        <4>1. pc[p] \notin {"ask", "set_read", "set_write"} /\ p # Watch
          BY <2>0, <3>3, <3>5 DEF Asked
        <4>2. ask' = ask
          BY <1>3, <4>1
             DEF Step, ReadStep, Read, Ask, SetWrite, Check, Lock, Defer, LockBusy, Take,
                 Begin, Gate, Outcome, Applied, Finish, Pending, NextRequest, Reconcile,
                 Exit, AlignLock, AlignBegin, AlignEnd
        <4>3. \E q \in PC \ {"ask", "set_read", "set_write"} : GoTo(p, q)
          BY <1>3, <4>1
             DEF Step, ReadStep, Read, Ask, SetWrite, Check, Lock, Defer, LockBusy, Take,
                 Begin, Gate, Outcome, Applied, Finish, Pending, NextRequest, Reconcile,
                 Exit, AlignLock, AlignBegin, AlignEnd, Quit, Leave, GoTo, PC
        <4>4. QED
          BY <1>0, <3>5, <4>2, <4>3 DEF GoTo, TypeOK
      <3>6. QED
        BY <3>4, <3>5
    <2>3. QED
      BY <2>1, <2>2
  <1>4. QED
    BY <1>1, <1>2, <1>3 DEF Next

LEMMA CurrentStep ==
    ASSUME QueueInv, Current, [Next]_vars
    PROVE  Current'
  <1>0. TypeOK /\ Control /\ Generations
    BY DEF QueueInv
  <1>1. CASE UNCHANGED vars
    BY <1>1 DEF vars, locals, Current
  <1>2. CASE WatchTick
    BY <1>0, <1>2, TickKeeps DEF Current, Waiting, Working
  <1>3. ASSUME NEW p \in Proc, Step(p), mishap' = {}, NEW r \in Proc
        PROVE  /\ pc'[r] \in Waiting \cup Working /\ gen'[r] = file'.gen
                  => task'[r] = file'.requested
               /\ pc'[r] = "check" /\ gen'[r] = file'.gen /\ ask'[r] # "align"
                  => ask'[r] = file'.requested
    <2>0. /\ mishap = {} /\ gen[p] \in Nat /\ gen[r] \in Nat /\ file.gen \in Nat
          /\ SetWrite(p) =>
               /\ file'.gen = gen[p] /\ gen[p] > file.gen
               /\ file'.requested = IF ask[p] = "align" THEN file.requested ELSE ask[p]
          /\ ~SetWrite(p) => file'.gen = file.gen /\ file'.requested = file.requested
      BY <1>0, <1>3, FileChanges DEF TypeOK
    <2>1. /\ pc[r] \in Waiting \cup Working => gen[r] <= file.gen
          /\ pc[r] = "check" => gen[r] <= file.gen
          /\ pc[r] \in Waiting \cup Working /\ gen[r] = file.gen => task[r] = file.requested
          /\ pc[r] = "check" /\ gen[r] = file.gen /\ ask[r] # "align"
             => ask[r] = file.requested
      BY <1>0, <2>0 DEF Generations, Current
    <2>2. CASE r # p
      <3>1. /\ pc'[r] = pc[r] /\ gen'[r] = gen[r] /\ ask'[r] = ask[r]
            /\ task'[r] = task[r]
        BY <1>0, <1>3, <2>2, OthersStay, OthersLocals
      <3>2. QED
        BY <2>0, <2>1, <3>1
    <2>3. CASE r = p
      <3>1. CASE SetWrite(p)
        <4>1. pc'[p] = "check" /\ ask' = ask
          BY <1>0, <3>1 DEF SetWrite, GoTo, TypeOK
        <4>2. QED
          BY <2>0, <2>3, <3>1, <4>1 DEF Waiting, Working
      <3>2. CASE Check(p)
        <4>1. CASE pc'[p] = "done"
          BY <2>3, <4>1 DEF Waiting, Working
        <4>2. CASE pc'[p] # "done"
          <5>1. /\ GoTo(p, IF ask[p] = "align" THEN "align_lock" ELSE "lock")
                /\ gen' = gen /\ task' = [task EXCEPT ![p] = ask[p]]
            BY <1>0, <3>2, <4>2 DEF Check, Quit, GoTo, TypeOK
          <5>2. /\ pc'[p] = IF ask[p] = "align" THEN "align_lock" ELSE "lock"
                /\ task'[p] = ask[p] /\ pc[p] = "check" /\ ~SetWrite(p)
            BY <1>0, <3>2, <5>1 DEF Check, SetWrite, GoTo, TypeOK
          <5>3. QED
            BY <2>0, <2>1, <2>3, <5>1, <5>2 DEF Waiting, Working
        <4>3. QED
          BY <4>1, <4>2
      <3>3. CASE NextRequest(p)
        <4>0. pc[p] = "newer" /\ ~SetWrite(p)
          BY <3>3 DEF NextRequest, SetWrite
        <4>1. CASE Newer(p)
          <5>1. Adopt(p) /\ pending[p] = file.requested
            BY <1>3, <3>3, <4>1 DEF NextRequest
          <5>2. task'[p] = file.requested
            BY <1>0, <5>1 DEF Adopt, TypeOK
          <5>3. pc'[p] # "check"
            BY <1>0, <3>3 DEF NextRequest, GoTo, TypeOK
          <5>4. QED
            BY <2>0, <2>3, <4>0, <5>2, <5>3
        <4>2. CASE ~Newer(p)
          <5>1. pc'[p] = "reconcile"
            BY <1>0, <3>3, <4>2 DEF NextRequest, GoTo, TypeOK
          <5>2. QED
            BY <2>3, <5>1 DEF Waiting, Working
        <4>3. QED
          BY <4>1, <4>2
      <3>4. CASE \/ Ask(p) \/ LockBusy(p) \/ Exit(p) \/ Reconcile(p) \/ AlignLock(p)
                 \/ AlignBegin(p) \/ AlignEnd(p)
        <4>1. pc'[p] \notin Waiting \cup Working \cup {"check"}
          BY <1>0, <3>4
             DEF Ask, LockBusy, Exit, Reconcile, AlignLock, AlignBegin, AlignEnd, Quit,
                 Leave, GoTo, TypeOK, Waiting, Working
        <4>2. QED
          BY <2>3, <4>1
      <3>5. CASE \/ ReadStep(p) \/ Lock(p) \/ Defer(p) \/ Take(p) \/ Begin(p) \/ Gate(p)
                 \/ Outcome(p) \/ Applied(p) \/ Finish(p) \/ Pending(p)
        <4>1. CASE pc'[p] = "done"
          BY <2>3, <4>1 DEF Waiting, Working
        <4>2. CASE pc'[p] # "done"
          <5>1. gen' = gen /\ task' = task
            BY <1>0, <3>5, <4>2
               DEF ReadStep, Read, Lock, Defer, Take, Begin, Gate, Outcome, Applied,
                   Finish, Pending, Quit, GoTo, TypeOK, locals
          <5>2. /\ pc'[p] # "check"
                /\ pc'[p] \in Waiting \cup Working => pc[p] \in Waiting \cup Working
            BY <1>0, <3>5, <4>2
               DEF ReadStep, Read, Lock, Defer, Take, Begin, Gate, Outcome, Applied,
                   Finish, Pending, Quit, GoTo, TypeOK, Waiting, Working
          <5>3. pc[p] = "set_write" => pc'[p] \notin Waiting \cup Working
            BY <5>2 DEF Waiting, Working
          <5>4. QED
            BY <2>0, <2>1, <2>3, <5>1, <5>2, <5>3 DEF SetWrite
        <4>3. QED
          BY <4>1, <4>2
      <3>6. QED
        BY <1>3, <3>1, <3>2, <3>3, <3>4, <3>5 DEF Step
    <2>4. QED
      BY <2>2, <2>3
  <1>4. QED
    BY <1>1, <1>2, <1>3 DEF Next, Current

\* The policy and the configuration's mode stay as they are while a process
\* that holds the lock stays where it is.
LEMMA InForceStep ==
    ASSUME QueueInv, InForce, [Next]_vars
    PROVE  InForce'
  <1>0. TypeOK /\ Control /\ Generations /\ Holders
    BY DEF QueueInv
  <1>1. CASE UNCHANGED vars
    BY <1>1 DEF vars, locals, history, InForce
  <1>2. CASE WatchTick
    BY <1>0, <1>2, TickKeeps DEF InForce, Acting, Concluding
  <1>3. ASSUME NEW p \in Proc, Step(p), mishap' = {}, NEW r \in Proc
        PROVE  /\ pc'[r] \in {"begin_read", "begin_write"} /\ out'[r] = "ok"
                  => mode' = task'[r]
               /\ pc'[r] \in Acting => mode' = task'[r]
               /\ pc'[r] \in Concluding /\ gen'[r] = file'.gen
                  => mode' = task'[r] \/ task'[r] \in failed'
    <2>0. /\ mishap = {} /\ gen[p] \in Nat /\ gen[r] \in Nat /\ file.gen \in Nat
          /\ SetWrite(p) => file'.gen = gen[p] /\ gen[p] > file.gen
          /\ ~SetWrite(p) => file'.gen = file.gen
          /\ failed \subseteq failed' \/ SetWrite(p)
          /\ mode' = mode \/ Gate(p) \/ Outcome(p)
      BY <1>0, <1>3, FileChanges, PolicyChanges DEF TypeOK
    <2>1. /\ pc[r] \in Waiting \cup Working => gen[r] <= file.gen
          /\ pc[r] \in {"begin_read", "begin_write"} /\ out[r] = "ok" => mode = task[r]
          /\ pc[r] \in Acting => mode = task[r]
          /\ pc[r] \in Concluding /\ gen[r] = file.gen => mode = task[r] \/ task[r] \in failed
      BY <1>0, <2>0 DEF Generations, InForce
    <2>2. CASE r # p
      <3>1. /\ pc'[r] = pc[r] /\ gen'[r] = gen[r] /\ task'[r] = task[r] /\ out'[r] = out[r]
        BY <1>0, <1>3, <2>2, OthersStay, OthersLocals
      <3>2. CASE Gate(p) \/ Outcome(p)
        <4>1. pc[p] \in Working
          BY <3>2 DEF Gate, Outcome, Working
        <4>2. pc[r] \notin Working
          BY <1>0, <2>2, <4>1, HolderAlone
        <4>3. QED
          BY <3>1, <4>2 DEF Working, Acting, Concluding
      <3>3. CASE ~(Gate(p) \/ Outcome(p))
        <4>1. pc[r] \in Concluding => pc[r] \in Working
          BY DEF Concluding, Working
        <4>2. SetWrite(p) /\ pc[r] \in Concluding => gen[r] # file'.gen
          BY <2>0, <2>1, <4>1
        <4>3. QED
          BY <2>0, <2>1, <3>1, <3>3, <4>2
      <3>4. QED
        BY <3>2, <3>3
    <2>3. CASE r = p
      <3>1. CASE Take(p)
        <4>1. /\ pc'[p] = "begin_read" /\ task' = task /\ mode' = mode
              /\ \/ mishap' = mishap \cup (IF mode # task[p] THEN {"stale_config"} ELSE {})
                 \/ out'[p] = "none"
          BY <1>0, <3>1 DEF Take, GoTo, TypeOK
        <4>2. mode = task[p] \/ out'[p] = "none"
          BY <1>3, <4>1
        <4>3. QED
          BY <2>3, <4>1, <4>2 DEF Acting, Concluding
      <3>2. CASE ReadStep(p)
        <4>1. /\ UNCHANGED <<file, mode, gen, task, out, failed>>
          BY <3>2 DEF ReadStep, Read, locals, history
        <4>2. /\ pc'[p] \in {"begin_read", "begin_write"} => pc[p] = "begin_read"
              /\ pc'[p] \in Acting => pc[p] = "applied_read"
              /\ pc'[p] \in Concluding => pc[p] \in {"applied_read", "finish_read"}
          BY <1>0, <3>2 DEF ReadStep, Read, GoTo, TypeOK, Acting, Concluding
        <4>3. QED
          BY <2>1, <2>3, <4>1, <4>2 DEF Acting, Concluding
      <3>3. CASE Begin(p)
        <4>1. /\ UNCHANGED <<mode, gen, task, out, failed>> /\ pc[p] = "begin_write"
              /\ pc'[p] = IF out[p] = "ok" THEN "applied_read" ELSE "gate"
          BY <1>0, <3>3 DEF Begin, GoTo, TypeOK, locals, history
        <4>2. QED
          BY <2>1, <2>3, <4>1 DEF Acting, Concluding
      <3>4. CASE Gate(p)
        <4>1. /\ pc[p] = "gate" /\ UNCHANGED <<file, gen, task>>
              /\ \/ pc'[p] = "switching" /\ mode' = task[p]
                 \/ pc'[p] = "finish_read" /\ file.gen > gen[p]
                 \/ pc'[p] = "finish_read" /\ task[p] \in failed'
          BY <1>0, <3>4 DEF Gate, Superseded, GoTo, TypeOK
        <4>2. QED
          BY <2>0, <2>3, <4>1 DEF Acting, Concluding
      <3>5. CASE Outcome(p)
        <4>1. /\ pc[p] = "switching" /\ UNCHANGED <<file, gen, task>>
              /\ \/ pc'[p] = "applied_read" /\ mode' = mode
                 \/ pc'[p] = "finish_read" /\ task[p] \in failed'
          BY <1>0, <3>5 DEF Outcome, GoTo, TypeOK
        <4>2. QED
          BY <2>1, <2>3, <4>1 DEF Acting, Concluding
      <3>6. CASE Applied(p) \/ Finish(p) \/ Pending(p)
        <4>1. /\ UNCHANGED <<mode, gen, task, failed>> /\ ~SetWrite(p)
              /\ pc[p] \in Concluding /\ pc'[p] \in Concluding \ Acting
          BY <1>0, <3>6
             DEF Applied, Finish, Pending, SetWrite, GoTo, TypeOK, locals, history, Acting,
                 Concluding
        <4>2. QED
          BY <2>0, <2>1, <2>3, <4>1 DEF Acting, Concluding
      <3>7. CASE \/ Ask(p) \/ SetWrite(p) \/ Check(p) \/ Lock(p) \/ Defer(p) \/ LockBusy(p)
                 \/ NextRequest(p) \/ Reconcile(p) \/ Exit(p) \/ AlignLock(p)
                 \/ AlignBegin(p) \/ AlignEnd(p)
        <4>1. pc'[p] \notin {"begin_read", "begin_write"} \cup Acting \cup Concluding
          BY <1>0, <3>7
             DEF Ask, SetWrite, Check, Lock, Defer, LockBusy, NextRequest, Reconcile, Exit,
                 AlignLock, AlignBegin, AlignEnd, Quit, Leave, GoTo, TypeOK, Acting,
                 Concluding
        <4>2. QED
          BY <2>3, <4>1
      <3>8. QED
        BY <1>3, <3>1, <3>2, <3>3, <3>4, <3>5, <3>6, <3>7 DEF Step
    <2>4. QED
      BY <2>2, <2>3
  <1>4. QED
    BY <1>1, <1>2, <1>3 DEF Next, InForce

LEMMA AppliedStep ==
    ASSUME QueueInv, InForce, AppliedInForce, [Next]_vars
    PROVE  AppliedInForce'
  <1>0. TypeOK /\ Control /\ Generations /\ Holders
    BY DEF QueueInv
  <1>1. CASE UNCHANGED vars
    BY <1>1 DEF vars, history, AppliedInForce
  <1>2. CASE WatchTick
    <2>1. \A r \in Proc : pc'[r] \in Acting <=> pc[r] \in Acting
      BY <1>0, <1>2, TickKeeps DEF Acting
    <2>2. \A r \in Proc : pc'[r] = "switching" => pc[r] = "switching"
      BY <1>0, <1>2, TickKeeps
    <2>3. UNCHANGED <<file, mode, before, mishap>>
      BY <1>0, <1>2, TickKeeps
    <2>4. QED
      BY <2>1, <2>2, <2>3 DEF AppliedInForce
  <1>3. ASSUME NEW p \in Proc, Step(p), mishap' = {}
        PROVE  /\ \A r \in Proc : pc'[r] = "switching" => file'.applied \in {"none", before'}
               /\ (\A r \in Proc : pc'[r] \notin Acting) => file'.applied \in {"none", mode'}
    <2>0. /\ mishap = {}
          /\ mode' = mode \/ Gate(p) \/ Outcome(p)
          /\ before' = before \/ Gate(p) \/ Outcome(p)
          /\ ~Applied(p) => file'.applied = file.applied
          /\ Applied(p) => file'.applied = task[p]
          /\ \A r \in Proc \ {p} : pc'[r] = pc[r]
      BY <1>0, <1>3, FileChanges, PolicyChanges, OthersStay
    <2>1. /\ \A r \in Proc : pc[r] = "switching" => file.applied \in {"none", before}
          /\ (\A r \in Proc : pc[r] \notin Acting) => file.applied \in {"none", mode}
          /\ pc[p] \in Acting => mode = task[p]
      BY <2>0 DEF AppliedInForce, InForce
    <2>2. ASSUME NEW r \in Proc, pc'[r] = "switching"
          PROVE  file'.applied \in {"none", before'}
      <3>1. CASE r = p
        <4>1. Gate(p) /\ before' = mode
          BY <1>0, <1>3, <2>2, <3>1
             DEF Step, ReadStep, Read, Ask, SetWrite, Check, Lock, Defer, LockBusy, Take,
                 Begin, Gate, Outcome, Applied, Finish, Pending, NextRequest, Reconcile,
                 Exit, AlignLock, AlignBegin, AlignEnd, Quit, Leave, GoTo, TypeOK
        <4>2. pc[p] = "gate"
          BY <4>1 DEF Gate
        <4>3. \A q \in Proc : pc[q] \notin Acting
          <5>1. pc[p] \in Working /\ pc[p] \notin Acting
            BY <4>2 DEF Working, Acting
          <5>2. \A q \in Proc : pc[q] \in Acting => pc[q] \in Working
            BY DEF Working, Acting
          <5>3. QED
            BY <1>0, <5>1, <5>2, HolderAlone
        <4>4. ~Applied(p)
          BY <4>2 DEF Applied
        <4>5. QED
          BY <2>0, <2>1, <4>1, <4>3, <4>4
      <3>2. CASE r # p
        <4>1. pc[r] = "switching"
          BY <2>0, <2>2, <3>2
        <4>2. pc[p] \notin Working
          BY <1>0, <3>2, <4>1, HolderAlone DEF Working
        <4>3. ~Gate(p) /\ ~Outcome(p) /\ ~Applied(p)
          BY <4>2 DEF Gate, Outcome, Applied, Working
        <4>4. QED
          BY <2>0, <2>1, <4>1, <4>3
      <3>3. QED
        BY <3>1, <3>2
    <2>3. ASSUME \A r \in Proc : pc'[r] \notin Acting
          PROVE  file'.applied \in {"none", mode'}
      <3>1. CASE pc[p] \in Acting
        <4>1. Outcome(p) \/ Applied(p)
          BY <1>0, <1>3, <2>3, <3>1
             DEF Step, ReadStep, Read, Ask, SetWrite, Check, Lock, Defer, LockBusy, Take,
                 Begin, Gate, Finish, Pending, NextRequest, Reconcile,
                 Exit, AlignLock, AlignBegin, AlignEnd, GoTo, TypeOK, Acting
        <4>2. CASE Applied(p)
          <5>1. mode' = mode
            BY <4>2 DEF Applied
          <5>2. QED
            BY <2>0, <2>1, <3>1, <4>2, <5>1
        <4>3. CASE Outcome(p)
          <5>1. pc[p] = "switching" /\ ~Applied(p)
            BY <4>3 DEF Outcome, Applied
          <5>2. mode' = cfg[p] /\ mishap' = mishap \cup
                    (IF cfg[p] # before THEN {"stale_config"} ELSE {})
            BY <1>0, <2>3, <4>3 DEF Outcome, GoTo, TypeOK, Acting
          <5>3. mode' = before
            BY <1>3, <5>2
          <5>4. QED
            BY <2>0, <2>1, <5>1, <5>3
        <4>4. QED
          BY <4>1, <4>2, <4>3
      <3>2. CASE pc[p] \notin Acting
        <4>1. \A r \in Proc : pc[r] \notin Acting
          BY <2>0, <2>3, <3>2
        <4>2. ~Outcome(p) /\ ~Applied(p)
          BY <3>2 DEF Outcome, Applied, Acting
        <4>3. mode' = mode
          <5>1. Gate(p) => mode' = mode
            BY <1>0, <2>3 DEF Gate, GoTo, TypeOK, Acting
          <5>2. QED
            BY <2>0, <4>2, <5>1
        <4>4. QED
          BY <2>0, <2>1, <4>1, <4>2, <4>3
      <3>3. QED
        BY <3>1, <3>2
    <2>4. QED
      BY <2>2, <2>3
  <1>4. QED
    BY <1>1, <1>2, <1>3 DEF Next, AppliedInForce

\* A switch at the newest generation that is past its outcome has served the
\* newest request.
LEMMA ConcludedServes ==
    ASSUME Asked, Current, InForce, mishap = {}, NEW p \in Proc,
           pc[p] \in Concluding, gen[p] = file.gen
    PROVE  Served
  <1>1. pc[p] \in Waiting \cup Working
    BY DEF Concluding, Working
  <1>2. task[p] = file.requested /\ (mode = task[p] \/ task[p] \in failed)
    BY <1>1 DEF Current, InForce
  <1>3. QED
    BY <1>2 DEF Asked, Served

\* The task a request is left to answers for it.
LEMMA TrustedAnswers ==
    ASSUME QueueInv, Asked, Current, InForce, mishap = {}, InProgress, LeftToAlign = {}
    PROVE  file.pid \in Proc /\ (Served \/ Responsible(file.pid))
  <1> DEFINE q == file.pid
  <1>1. q \in Proc /\ pc[q] \in Running \ Aligning
    BY DEF QueueInv, Published, InProgress, LeftToAlign
  <1>2. CASE pc[q] \in {"gate", "switching"}
    BY <1>1, <1>2 DEF Responsible
  <1>3. CASE pc[q] \in {"applied_read", "applied_write", "finish_read", "finish_write"}
    <2>1. pc[q] \in Working /\ pc[q] \in Concluding
      BY <1>3 DEF Working, Concluding
    <2>2. gen[q] \in Nat /\ file.gen \in Nat /\ gen[q] <= file.gen
      BY <1>1, <2>1, FileFields DEF QueueInv, TypeOK, Generations
    <2>3. CASE gen[q] = file.gen
      BY <1>1, <2>1, <2>3, ConcludedServes
    <2>4. CASE gen[q] < file.gen
      BY <1>1, <1>3, <2>4 DEF Responsible
    <2>5. QED
      BY <1>1, <2>2, <2>3, <2>4
  <1>4. QED
    BY <1>1, <1>2, <1>3 DEF Running, Aligning

\* A process that runs the newest request, or looks for it, goes on doing so
\* until the request is served.
LEMMA ResponsibleStep ==
    ASSUME QueueInv, Asked, Current, InForce, AppliedInForce, NEW p \in Proc, Step(p),
           mishap' = {}, latest' = latest, latest \in Request, Responsible(p)
    PROVE  Served' \/ \E r \in Proc : Responsible(r)'
  <1>0. /\ TypeOK /\ Control /\ Generations /\ Holders /\ mishap = {}
        /\ gen[p] \in Nat /\ file.gen \in Nat
        /\ ~SetWrite(p) => file'.gen = file.gen /\ file'.requested = file.requested
    BY FileChanges DEF QueueInv
  <1>1. ask[latest] \in Mode /\ file.requested = ask[latest]
    BY <1>0 DEF Asked
  <1>2. pc[p] \in Waiting \cup Working
    BY DEF Responsible, Waiting, Working
  <1>3. ~SetWrite(p) /\ ask' = ask /\ gen[p] <= file.gen
    <2>1. ~SetWrite(p) /\ ~Ask(p)
      BY <1>2 DEF SetWrite, Ask, Waiting, Working
    <2>2. ask' = ask
      BY <2>1 DEF Step, ReadStep, Read, Check, Lock, Defer, LockBusy, Take, Begin, Gate,
                  Outcome, Applied, Finish, Pending, NextRequest, Reconcile, Exit,
                  AlignLock, AlignBegin, AlignEnd
    <2>3. QED
      BY <1>0, <1>2, <2>1, <2>2 DEF Generations
  <1>4. gen[p] = file.gen => task[p] = ask[latest]
    BY <1>0, <1>1, <1>2 DEF Current
  <1>5. /\ mode' = ask[latest] => Served'
        /\ ask[latest] \in failed' => Served'
    BY <1>3 DEF Served
  <1>6. CASE Lock(p) \/ Take(p)
    <2>1. pc'[p] \in {"take", "defer", "begin_read"}
      BY <1>0, <1>6 DEF Lock, Take, GoTo, TypeOK
    <2>2. QED
      BY <2>1 DEF Responsible, Waiting
  <1>7. CASE Defer(p)
    <2>1. CASE InProgress /\ Quit(p) /\ mishap' = mishap \cup LeftToAlign
      <3>1. LeftToAlign = {}
        BY <2>1
      <3>2. file.pid \in Proc /\ (Served \/ Responsible(file.pid))
        BY <1>0, <2>1, <3>1, TrustedAnswers
      <3>3. UNCHANGED <<file, mode, failed>>
        BY <1>7 DEF Defer, history
      <3>4. CASE Served
        BY <1>3, <3>3, <3>4 DEF Served
      <3>5. CASE Responsible(file.pid)
        <4>1. file.pid # p
          <5>1. pc[p] = "defer"
            BY <1>7 DEF Defer
          <5>2. pc[file.pid] \in Running
            BY <1>0, <2>1 DEF QueueInv, Published, InProgress
          <5>3. QED
            BY <5>1, <5>2 DEF Running
        <4>2. /\ pc'[file.pid] = pc[file.pid] /\ gen'[file.pid] = gen[file.pid]
              /\ pending'[file.pid] = pending[file.pid]
          BY <1>0, <3>2, <4>1, OthersStay, OthersLocals
        <4>3. Responsible(file.pid)'
          BY <3>3, <3>5, <4>2 DEF Responsible
        <4>4. \E r \in Proc : Responsible(r)'
          BY <3>2, <3>3, <4>2, <3>5 DEF Responsible
        <4>5. QED
          BY <4>4
      <3>6. QED
        BY <3>2, <3>4, <3>5
    <2>2. CASE ~InProgress
      <3>1. pc'[p] \in {"lock", "busy_read"}
        BY <1>0, <1>7, <2>2 DEF Defer, GoTo, TypeOK
      <3>2. QED
        BY <3>1 DEF Responsible, Waiting
    <2>3. QED
      BY <1>7, <2>1, <2>2 DEF Defer
  <1>8. CASE LockBusy(p)
    <2>1. gen[p] >= file.gen
      BY <1>8, Writes, <1>0
    <2>2. ask[latest] \in failed'
      BY <1>0, <1>3, <1>4, <1>8, <2>1 DEF LockBusy
    <2>3. QED
      BY <1>5, <2>2
  <1>9. CASE ReadStep(p) \/ Begin(p) \/ Applied(p) \/ Finish(p)
    <2>1. /\ gen' = gen /\ mode' = mode /\ failed' = failed
          /\ file'.gen = file.gen
      BY <1>0, <1>3, <1>9 DEF ReadStep, Read, Begin, Applied, Finish, locals, history
    <2>2. \/ pc'[p] \in Waiting \cup {"begin_write", "gate"}
          \/ /\ pc'[p] \in {"applied_read", "applied_write", "finish_read", "finish_write",
                            "pending"}
             /\ gen[p] < file.gen
          \/ pc[p] = "begin_write" /\ out[p] = "ok"
      <3>1. CASE ReadStep(p)
        BY <1>0, <1>2, <3>1
           DEF ReadStep, Read, GoTo, TypeOK, Responsible, Waiting, Working
      <3>2. CASE Begin(p)
        BY <1>0, <3>2 DEF Begin, GoTo, TypeOK
      <3>3. CASE Applied(p) \/ Finish(p)
        BY <1>0, <3>3 DEF Applied, Finish, GoTo, TypeOK, Responsible, Waiting
      <3>4. QED
        BY <1>9, <3>1, <3>2, <3>3
    <2>3. CASE pc[p] = "begin_write" /\ out[p] = "ok"
      <3>1. mode = task[p]
        BY <1>0, <2>3 DEF InForce
      <3>2. pc'[p] = "applied_read"
        <4>1. Begin(p)
          BY <1>9, <2>3 DEF ReadStep, Read, Applied, Finish
        <4>2. QED
          BY <1>0, <2>3, <4>1 DEF Begin, GoTo, TypeOK
      <3>3. CASE gen[p] = file.gen
        BY <1>4, <1>5, <2>1, <3>1, <3>3
      <3>4. CASE gen[p] < file.gen
        BY <2>1, <3>2, <3>4 DEF Responsible
      <3>5. QED
        BY <1>0, <1>3, <3>3, <3>4
    <2>4. CASE ~(pc[p] = "begin_write" /\ out[p] = "ok")
      BY <2>1, <2>2, <2>4 DEF Responsible
    <2>5. QED
      BY <2>3, <2>4
  <1>10. CASE Gate(p)
    <2>1. /\ gen' = gen /\ file' = file
          /\ \/ pc'[p] = "switching"
             \/ pc'[p] = "finish_read" /\ file.gen > gen[p]
             \/ pc'[p] = "finish_read" /\ task[p] \in failed'
      BY <1>0, <1>10 DEF Gate, Superseded, GoTo, TypeOK
    <2>2. CASE gen[p] = file.gen
      BY <1>0, <1>4, <1>5, <2>1, <2>2 DEF Responsible
    <2>3. CASE gen[p] < file.gen
      BY <1>0, <2>1, <2>3 DEF Responsible
    <2>4. QED
      BY <1>0, <1>3, <2>2, <2>3
  <1>11. CASE Outcome(p)
    <2>1. /\ gen' = gen /\ file' = file /\ pc[p] = "switching"
          /\ \/ pc'[p] = "applied_read" /\ mode' = mode
             \/ pc'[p] = "finish_read" /\ task[p] \in failed'
      BY <1>0, <1>11 DEF Outcome, GoTo, TypeOK
    <2>2. mode = task[p]
      BY <1>0, <2>1 DEF InForce, Acting
    <2>3. CASE gen[p] = file.gen
      BY <1>4, <1>5, <2>1, <2>2, <2>3
    <2>4. CASE gen[p] < file.gen
      BY <2>1, <2>4 DEF Responsible
    <2>5. QED
      BY <1>0, <1>3, <2>3, <2>4
  <1>12. CASE Pending(p)
    <2>1. /\ gen' = gen /\ file' = file /\ pc'[p] = "newer"
          /\ pending'[p] = file.requested /\ pc[p] = "pending"
      BY <1>0, <1>12 DEF Pending, GoTo, TypeOK
    <2>2. gen[p] < file.gen
      BY <2>1 DEF Responsible, Waiting
    <2>3. QED
      BY <2>1, <2>2 DEF Responsible
  <1>13. CASE NextRequest(p)
    <2>1. /\ pc[p] = "newer" /\ gen[p] < file.gen /\ pending[p] = ask[latest]
      BY <1>1, <1>13 DEF NextRequest, Responsible, Waiting
    <2>2. CASE Newer(p)
      <3>1. loops[p] < LoopLimit /\ GoTo(p, "take")
        BY <1>13, <2>2 DEF NextRequest
      <3>2. pc'[p] = "take"
        BY <1>0, <3>1 DEF GoTo, TypeOK
      <3>3. QED
        BY <3>2 DEF Responsible
    <2>3. CASE ~Newer(p)
      <3>1. file.applied = ask[latest]
        BY <1>1, <2>1, <2>3 DEF Newer
      <3>2. \A q \in Proc : pc[q] \notin Acting
        <4>1. pc[p] \in Working /\ pc[p] \notin Acting
          BY <2>1 DEF Working, Acting
        <4>2. \A q \in Proc : pc[q] \in Acting => pc[q] \in Working
          BY DEF Working, Acting
        <4>3. QED
          BY <1>0, <4>1, <4>2, HolderAlone
      <3>3. ask[latest] = mode
        <4>1. file.applied \in {"none", mode}
          BY <1>0, <3>2 DEF AppliedInForce
        <4>2. ask[latest] # "none"
          BY <1>1 DEF Mode
        <4>3. QED
          BY <3>1, <4>1, <4>2
      <3>4. mode' = mode
        BY <1>13 DEF NextRequest
      <3>5. QED
        BY <1>5, <3>3, <3>4
    <2>4. QED
      BY <2>2, <2>3
  <1>14. ~(\/ Ask(p) \/ Check(p) \/ Reconcile(p) \/ Exit(p) \/ AlignLock(p)
           \/ AlignBegin(p) \/ AlignEnd(p))
    BY <1>2 DEF Ask, Check, Reconcile, Exit, AlignLock, AlignBegin, AlignEnd, Waiting, Working
  <1>15. QED
    BY <1>3, <1>6, <1>7, <1>8, <1>9, <1>10, <1>11, <1>12, <1>13, <1>14 DEF Step

LEMMA AnsweredStep ==
    ASSUME QueueInv, Asked, Current, InForce, AppliedInForce, Answered, [Next]_vars
    PROVE  Answered'
  <1>0. TypeOK /\ Control /\ Generations /\ Holders
    BY DEF QueueInv
  <1>1. CASE UNCHANGED vars
    BY <1>1 DEF vars, locals, history, Answered, Served, Responsible
  <1>2. CASE WatchTick
    <2>1. UNCHANGED <<file, mode, ask, gen, pending, latest, failed, mishap>>
      BY <1>0, <1>2, TickKeeps
    <2>2. \A r \in Proc : Responsible(r) => Responsible(r)'
      <3>1. ~Responsible(Watch)
        BY <1>0, <1>2, TickKeeps DEF Responsible, Waiting
      <3>2. ASSUME NEW r \in Proc, r # Watch, Responsible(r)
            PROVE  Responsible(r)'
        BY <1>0, <1>2, <2>1, <3>2, TickKeeps DEF Responsible
      <3>3. QED
        BY <3>1, <3>2
    <2>3. pc[latest] = "check" => pc'[latest] = "check"
      BY <1>0, <1>2, TickKeeps DEF TypeOK
    <2>4. Served => Served'
      BY <2>1 DEF Served
    <2>5. QED
      BY <2>1, <2>2, <2>3, <2>4 DEF Answered
  <1>3. ASSUME NEW p \in Proc, Step(p), mishap' = {}
        PROVE  Served' \/ pc'[latest'] = "check" \/ \E r \in Proc : Responsible(r)'
    <2>0. /\ mishap = {} /\ gen[p] \in Nat /\ file.gen \in Nat
          /\ SetWrite(p) =>
               /\ file'.gen = gen[p] /\ gen[p] > file.gen
               /\ file'.requested = IF ask[p] = "align" THEN file.requested ELSE ask[p]
          /\ ~SetWrite(p) => file'.gen = file.gen /\ file'.requested = file.requested
      BY <1>0, <1>3, FileChanges
    <2>1. CASE SetWrite(p) /\ ask[p] # "align"
      <3>1. latest' = p /\ pc'[p] = "check"
        BY <1>0, <2>1 DEF SetWrite, GoTo, TypeOK
      <3>2. QED
        BY <3>1
    <2>2. CASE ~(SetWrite(p) /\ ask[p] # "align")
      <3>1. latest' = latest /\ failed \subseteq failed' /\ latest \in Proc
        BY <1>0, <1>3, <2>2, PolicyChanges DEF TypeOK
      <3>2. CASE latest \notin Request
        BY <3>1, <3>2 DEF Served
      <3>3. CASE latest \in Request /\ \E r \in Proc : Responsible(r)
        <4>1. PICK r \in Proc : Responsible(r)
          BY <3>3
        <4>2. CASE r = p
          BY <1>3, <3>1, <3>3, <4>1, <4>2, ResponsibleStep
        <4>3. CASE r # p
          <5>1. pc'[r] = pc[r] /\ gen'[r] = gen[r] /\ pending'[r] = pending[r]
            BY <1>0, <1>3, <4>3, OthersStay, OthersLocals
          <5>2. gen[r] \in Nat /\ file'.requested = file.requested
            BY <1>0, <2>0, <2>2 DEF TypeOK
          <5>3. gen[r] < file.gen => gen[r] < file'.gen
            BY <2>0, <5>2
          <5>4. QED
            BY <4>1, <5>1, <5>2, <5>3 DEF Responsible
        <4>4. QED
          BY <4>2, <4>3
      <3>4. CASE latest \in Request /\ pc[latest] = "check"
        <4>1. CASE latest # p
          <5>1. pc'[latest] = pc[latest]
            BY <1>0, <1>3, <3>1, <4>1, OthersStay
          <5>2. QED
            BY <3>1, <3>4, <5>1
        <4>2. CASE latest = p
          <5>0. Check(p) /\ ask[p] \in Mode
            BY <1>3, <3>4, <4>2
               DEF Step, ReadStep, Read, Ask, SetWrite, Lock, Defer, LockBusy, Take, Begin,
                   Gate, Outcome, Applied, Finish, Pending, NextRequest, Reconcile, Exit,
                   AlignLock, AlignBegin, AlignEnd, Asked
          <5>1. CASE InProgress /\ Quit(p) /\ mishap' = mishap \cup LeftToAlign
            <6>1. LeftToAlign = {}
              BY <1>3, <5>1
            <6>2. file.pid \in Proc /\ (Served \/ Responsible(file.pid))
              BY <2>0, <5>1, <6>1, TrustedAnswers
            <6>3. UNCHANGED <<file, mode, failed, ask>>
              BY <5>0 DEF Check, history
            <6>4. CASE Served
              BY <3>1, <6>3, <6>4 DEF Served
            <6>5. CASE Responsible(file.pid)
              <7>1. file.pid # p
                BY <3>4, <4>2, <6>5 DEF Responsible, Waiting
              <7>2. /\ pc'[file.pid] = pc[file.pid] /\ gen'[file.pid] = gen[file.pid]
                    /\ pending'[file.pid] = pending[file.pid]
                BY <1>0, <1>3, <6>2, <7>1, OthersStay, OthersLocals
              <7>3. QED
                BY <6>2, <6>3, <6>5, <7>2 DEF Responsible
            <6>6. QED
              BY <6>2, <6>4, <6>5
          <5>2. CASE ~InProgress
            <6>1. ask[p] # "align"
              BY <5>0 DEF Mode
            <6>2. pc'[p] = "lock"
              BY <1>0, <5>0, <5>2, <6>1 DEF Check, GoTo, TypeOK
            <6>3. QED
              BY <6>2 DEF Responsible, Waiting
          <5>3. QED
            BY <5>0, <5>1, <5>2 DEF Check
        <4>3. QED
          BY <4>1, <4>2
      <3>5. CASE latest \in Request /\ Served
        <4>1. ask'[latest] = ask[latest]
          <5>1. CASE latest # p
            BY <1>0, <1>3, <3>1, <5>1, OthersStay
          <5>2. CASE latest = p
            <6>1. ~Ask(p)
              BY <3>5, <5>2 DEF Asked, Ask
            <6>2. QED
              BY <1>3, <5>2, <6>1
                 DEF Step, ReadStep, Read, SetWrite, Check, Lock, Defer, LockBusy, Take,
                     Begin, Gate, Outcome, Applied, Finish, Pending, NextRequest,
                     Reconcile, Exit, AlignLock, AlignBegin, AlignEnd
          <5>3. QED
            BY <5>1, <5>2
        <4>2. CASE mode' = mode
          BY <3>1, <3>5, <4>1, <4>2 DEF Served
        <4>3. CASE mode' # mode
          <5>1. Gate(p) \/ Outcome(p)
            BY <1>3, <4>3, PolicyChanges
          <5>2. Responsible(p)
            BY <5>1 DEF Gate, Outcome, Responsible
          <5>3. QED
            BY <1>3, <3>1, <3>5, <5>2, ResponsibleStep
        <4>4. QED
          BY <4>2, <4>3
      <3>6. QED
        BY <2>0, <3>2, <3>3, <3>4, <3>5 DEF Answered
    <2>3. QED
      BY <2>1, <2>2
  <1>4. QED
    BY <1>1, <1>2, <1>3 DEF Next, Answered

ServedInv == QueueInv /\ Asked /\ Current /\ InForce /\ AppliedInForce /\ Answered

\* For any number of requests, workers and alignments: when nothing runs any
\* more, the newest request is in force or its failure was recorded, unless one
\* of the named mishaps has happened.
THEOREM LatestServedSafe == Spec => []LatestServed
  <1>1. QueueInv /\ Init => Asked /\ Current /\ InForce /\ AppliedInForce /\ Answered
    <2> SUFFICES ASSUME Init PROVE Asked /\ Current /\ InForce /\ AppliedInForce /\ Answered
      OBVIOUS
    <2>1. latest \notin Request /\ \A p \in Proc : pc[p] = "ask"
      BY QueueAssumption DEF Init
    <2>2. file.applied = "none"
      BY DEF Init, EmptyFile
    <2>3. QED
      BY <2>1, <2>2
         DEF Asked, Current, InForce, AppliedInForce, Answered, Served, Waiting, Working,
             Acting, Concluding
  <1>2. ServedInv /\ QueueInv' /\ [Next]_vars => ServedInv'
    BY AskedStep, CurrentStep, InForceStep, AppliedStep, AnsweredStep DEF ServedInv
  <1>3. ServedInv => LatestServed
    <2> SUFFICES ASSUME ServedInv, Quiet, mishap = {}, latest \in Request
                 PROVE  Served
      BY DEF LatestServed, Served
    <2>1. pc[latest] # "check"
      BY DEF Quiet
    <2>2. ASSUME NEW p \in Proc
          PROVE  ~Responsible(p)
      <3>1. p \in Request => pc[p] \in {"ask", "done"}
        BY DEF Quiet
      <3>2. p = Watch => pc[p] \in {"ask"} \cup Ending
        BY DEF ServedInv, QueueInv, Control
      <3>3. QED
        BY <3>1, <3>2 DEF Proc, Responsible, Waiting, Ending
    <2>3. QED
      BY <2>1, <2>2 DEF ServedInv, Answered
  <1>4. ServedInv => QueueInv
    BY DEF ServedInv
  <1>5. QueueInv /\ Asked /\ Current /\ InForce /\ AppliedInForce /\ Answered => ServedInv
    BY DEF ServedInv
  <1>6. QED
    BY <1>1, <1>2, <1>3, <1>4, <1>5, QueueInvariant, PTL DEF Spec
=============================================================================
