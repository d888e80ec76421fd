---------------------------- MODULE AtomicMode ----------------------------
(***************************************************************************)
(* What the "Thread-safe atomic controller" of Swarm Mode promises its     *)
(* callers: every enable and disable takes effect at one moment between    *)
(* its call and its answer, every status answers the mode of such a        *)
(* moment, an answered call is still in effect after a restart, and a call *)
(* that failed or was cut off by a crash leaves only its own value in      *)
(* doubt: nothing else can be the mode after the next restart.             *)
(***************************************************************************)
CONSTANTS Clients

VARIABLES
    mode,     \* Swarm Mode is on
    doubt,    \* values a failed call may still turn out to have stored
    call,     \* call[c]: what c is waiting for, and whether it took effect
    reply     \* reply[c]: what its last call answered

vars == <<mode, doubt, call, reply>>

Wants == [enable_swarm |-> TRUE, disable_swarm |-> FALSE]

Init ==
    /\ mode \in BOOLEAN
    /\ doubt = {}
    /\ call = [c \in Clients |-> "none"]
    /\ reply = [c \in Clients |-> "none"]

Call(c) ==
    /\ call[c] = "none"
    /\ \E o \in {"enable_swarm", "disable_swarm", "status"} : call' = [call EXCEPT ![c] = o]
    /\ reply' = [reply EXCEPT ![c] = "none"]
    /\ UNCHANGED <<mode, doubt>>

TakesEffect(c) ==
    /\ call[c] \in DOMAIN Wants
    /\ mode' = Wants[call[c]]
    /\ doubt' = {}
    /\ call' = [call EXCEPT ![c] = "done"]
    /\ UNCHANGED reply

Answers(c) ==
    /\ \/ call[c] = "done" /\ reply' = [reply EXCEPT ![c] = "ok"]
       \/ call[c] = "status" /\ reply' = [reply EXCEPT ![c] = IF mode THEN "on" ELSE "off"]
    /\ call' = [call EXCEPT ![c] = "none"]
    /\ UNCHANGED <<mode, doubt>>

Fails(c) ==
    /\ call[c] \in DOMAIN Wants \cup {"done"}
    /\ doubt' \in SUBSET (doubt \cup {Wants[o] : o \in {call[c]} \cap DOMAIN Wants})
    /\ call' = [call EXCEPT ![c] = "none"]
    /\ reply' = [reply EXCEPT ![c] = "failed"]
    /\ UNCHANGED mode

\* The store settles what was in doubt.
Settles ==
    /\ doubt' \in SUBSET doubt
    /\ UNCHANGED <<mode, call, reply>>

Restarts ==
    /\ mode' \in {mode} \cup doubt
                 \cup {Wants[call[c]] : c \in {d \in Clients : call[d] \in DOMAIN Wants}}
    /\ doubt' = {}
    /\ call' = [c \in Clients |-> "none"]
    /\ reply' = [c \in Clients |-> "none"]

Next ==
    \/ \E c \in Clients : Call(c) \/ TakesEffect(c) \/ Answers(c) \/ Fails(c)
    \/ Settles
    \/ Restarts

Spec == Init /\ [][Next]_vars
===========================================================================
