----------------------------- MODULE DurableLog -----------------------------
(***************************************************************************)
(* What a state store promises the windows that call it: commands that     *)
(* took effect form one log which only grows, each of them once; a command *)
(* answered "ok" is in it and one answered "refused" never will be.  It    *)
(* promises nothing about a command answered "failed" or not at all.       *)
(***************************************************************************)
EXTENDS Sequences, SequencesExt

CONSTANT Commands

VARIABLES log, told

logVars == <<log, told>>

LogInit ==
    /\ log = << >>
    /\ told = [c \in Commands |-> "none"]

(* One write may carry the effects of several commands. *)
Take ==
    /\ IsStrictPrefix(log, log')
    /\ IsInjective(log')
    /\ \A c \in ToSet(log') \ ToSet(log) :
         c \in Commands /\ told[c] \in {"none", "failed"}
    /\ UNCHANGED told

Tell(c, answer) ==
    /\ told[c] = "none"
    /\ answer = "ok" => c \in ToSet(log)
    /\ answer = "refused" => c \notin ToSet(log)
    /\ told' = [told EXCEPT ![c] = answer]
    /\ UNCHANGED log

LogNext ==
    Take \/ \E c \in Commands, answer \in {"ok", "refused", "failed"} : Tell(c, answer)

LogSpec == LogInit /\ [][LogNext]_logVars

=============================================================================
