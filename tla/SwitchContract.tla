--------------------------- MODULE SwitchContract ---------------------------
(***************************************************************************)
(* What a switch promises whoever asks for it, without routes, waits or    *)
(* probes.  It prepares; until it decides, a newer request may take its    *)
(* place.  Once decided the new policy is in force, and the switch ends by *)
(* moving every required family and reporting ok, or by putting the policy *)
(* back and reporting the failure: a newer request does not stop it half   *)
(* way.  Only a crash leaves it where it was.                              *)
(***************************************************************************)
EXTENDS NetmodeTypes

VARIABLES
    stage,     \* where the switch is
    required,  \* families it must move, fixed
    mode,      \* the policy in force
    asked,     \* the policy asked for
    base,      \* the policy a failure puts back
    newer,     \* a newer request has come
    decided,   \* the new policy was put in force
    moved,     \* families moved to the new exit
    report     \* how the last switch ended

vars == <<stage, required, mode, asked, base, newer, decided, moved, report>>

Stage  == {"idle", "preparing", "committing", "undoing"}
Report == {"none", "ok", "failed", "superseded", "crashed"}

\* A worker takes a request up, with the policy in force as what a failure
\* puts back, or with the one it has kept from the request before; if that is
\* the policy asked for, the switch may have nothing to do.
Request(m) ==
    /\ stage = "idle"
    /\ asked' = m
    /\ base' \in {mode, base}
    /\ newer' = FALSE /\ decided' = FALSE /\ moved' = {}
    /\ \/ stage' = "preparing" /\ report' = "none"
       \/ stage' = "idle" /\ report' = "ok" /\ base' = m
    /\ UNCHANGED <<required, mode>>

\* A newer request arrives, at any time.
Arrive ==
    /\ stage # "idle" /\ ~newer
    /\ newer' = TRUE
    /\ UNCHANGED <<stage, required, mode, asked, base, decided, moved, report>>

\* It takes the place of a switch that has not decided.
Supersede ==
    /\ stage = "preparing" /\ newer
    /\ stage' = "idle" /\ report' = "superseded"
    /\ UNCHANGED <<required, mode, asked, base, newer, decided, moved>>

\* The point of no return.
Decide ==
    /\ stage = "preparing" /\ ~newer
    /\ stage' = "committing" /\ decided' = TRUE /\ mode' = asked
    /\ UNCHANGED <<required, asked, base, newer, moved, report>>

\* IPv4 first: no family moves ahead of it.
Move(f) ==
    /\ stage = "committing"
    /\ f = "v6" => "v4" \in moved
    /\ moved' = moved \cup {f}
    /\ UNCHANGED <<stage, required, mode, asked, base, newer, decided, report>>

Succeed ==
    /\ stage = "committing" /\ required \subseteq moved
    /\ stage' = "idle" /\ report' = "ok"
    /\ UNCHANGED <<required, mode, asked, base, newer, decided, moved>>

GiveUp ==
    /\ stage \in {"preparing", "committing"}
    /\ stage' = "undoing"
    /\ UNCHANGED <<required, mode, asked, base, newer, decided, moved, report>>

\* The policy is put back, if it was replaced.
Restore ==
    /\ stage = "undoing" /\ decided
    /\ mode' = base
    /\ UNCHANGED <<stage, required, asked, base, newer, decided, moved, report>>

\* A failure is reported when the policy is back, or nothing was done.
Failed ==
    /\ stage = "undoing"
    /\ IF decided THEN mode = base ELSE moved = {}
    /\ stage' = "idle" /\ report' = "failed"
    /\ UNCHANGED <<required, mode, asked, base, newer, decided, moved>>

Crash ==
    /\ stage # "idle"
    /\ stage' = "idle" /\ report' = "crashed" /\ newer' = FALSE
    /\ UNCHANGED <<required, mode, asked, base, decided, moved>>

Init ==
    /\ stage = "idle" /\ report = "none"
    /\ required \subseteq Family
    /\ mode \in Mode /\ asked \in Mode /\ base \in Mode
    /\ newer = FALSE /\ decided = FALSE /\ moved = {}

Next ==
    \/ \E m \in Mode : Request(m)
    \/ Arrive \/ Supersede \/ Decide
    \/ \E f \in Family : Move(f)
    \/ Succeed \/ GiveUp \/ Restore \/ Failed \/ Crash

Spec == Init /\ [][Next]_vars
=============================================================================
