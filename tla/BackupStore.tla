----------------------------- MODULE BackupStore -----------------------------
(***************************************************************************)
(* What a backup job promises: every target is archived and its archive    *)
(* comes to the storages, and a run that has not complained has stored all *)
(* of them everywhere.  Nothing is said of calls, copies or directories.   *)
(***************************************************************************)
CONSTANTS Targets, Storages

VARIABLES stage,      \* of each target
          held,       \* pairs of a storage and a target it can give back
          complained, \* an error was reported
          ended

vars == <<stage, held, complained, ended>>

Init ==
    /\ stage = [t \in Targets |-> "waiting"]
    /\ held = {} /\ complained = FALSE /\ ended = FALSE

Everywhere(t) == Storages \X {t} \subseteq held

Archive(t) ==
    /\ stage[t] = "waiting"
    /\ stage' = [stage EXCEPT ![t] = "archived"]
    /\ UNCHANGED <<held, complained, ended>>

\* Nothing is given up without a complaint.
GiveUp(t) ==
    /\ stage[t] = "waiting"
    /\ stage' = [stage EXCEPT ![t] = "missing"]
    /\ complained' = TRUE
    /\ UNCHANGED <<held, ended>>

\* An archive comes to a storage; when that breaks off it may be there or not.
Upload(s, t) ==
    /\ stage[t] = "archived"
    /\ held' \in {held \cup {<<s, t>>}, held \ {<<s, t>>}}
    /\ UNCHANGED <<stage, complained, ended>>

\* The archive has been offered everywhere.  It is stored when it is somewhere;
\* unless it is everywhere somebody has to know.
Settle(t) ==
    /\ stage[t] = "archived"
    /\ \/ /\ \E s \in Storages : <<s, t>> \in held
          /\ stage' = [stage EXCEPT ![t] = "stored"]
       \/ UNCHANGED stage
    /\ complained' \in {TRUE} \cup (IF Everywhere(t) /\ stage' # stage THEN {complained} ELSE {})
    /\ UNCHANGED <<held, ended>>

\* The rules take copies away only when no archive is on its way.
Expire ==
    /\ \A t \in Targets : stage[t] # "archived" \/ complained
    /\ held' \in SUBSET held
    /\ complained' \in {complained, TRUE}
    /\ UNCHANGED stage

\* The run may end before it has begun when nothing is due, but not in between.
End ==
    /\ ended' = TRUE
    /\ \/ complained'
       \/ \A t \in Targets : stage[t] = "stored"
       \/ \A t \in Targets : stage[t] = "waiting"
    /\ UNCHANGED stage

Next ==
    \/ \E t \in Targets : Archive(t) \/ GiveUp(t) \/ Settle(t) \/ \E s \in Storages : Upload(s, t)
    \/ Expire /\ UNCHANGED ended
    \/ End /\ (Expire \/ UNCHANGED <<held, complained>>)

Spec == Init /\ [][Next]_vars
=============================================================================
