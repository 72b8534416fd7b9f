------------------------------ MODULE JobBoard ------------------------------
(***************************************************************************)
(* What a job queue promises while its workers keep their leases: a job is *)
(* in the hands of one worker at a time; who has it in hand decides what   *)
(* becomes of it, and puts it back only if it may be taken once more; one  *)
(* that was let go without a word may be taken again, or is given up when  *)
(* it was taken too often; a job that is over stays so.                    *)
(***************************************************************************)
EXTENDS Integers

CONSTANTS
    Jobs,
    Workers,
    Tries       \* how often a job may be taken

VARIABLES
    state,      \* absent, waiting, out or over
    hands,      \* the living workers who have a job in hand
    taken       \* how often it was taken

board == <<state, hands, taken>>

Init ==
    /\ state = [j \in Jobs |-> "absent"]
    /\ hands = [j \in Jobs |-> {}]
    /\ taken = [j \in Jobs |-> 0]

Become(j, value) == state' = [state EXCEPT ![j] = value]

Post(j) ==
    /\ state[j] = "absent"
    /\ Become(j, "waiting")
    /\ UNCHANGED <<hands, taken>>

Withdraw(j) ==
    /\ state[j] = "waiting"
    /\ Become(j, "over")
    /\ UNCHANGED <<hands, taken>>

Take(w, j) ==
    /\ state[j] \in {"waiting", "out"}
    /\ hands[j] = {}
    /\ taken[j] < Tries[j]
    /\ Become(j, "out")
    /\ hands' = [hands EXCEPT ![j] = {w}]
    /\ taken' = [taken EXCEPT ![j] = taken[j] + 1]

PutBack(w, j) ==
    /\ hands[j] = {w}
    /\ taken[j] < Tries[j]
    /\ Become(j, "waiting")
    /\ hands' = [hands EXCEPT ![j] = {}]
    /\ UNCHANGED taken

Finish(w, j) ==
    /\ hands[j] = {w}
    /\ Become(j, "over")
    /\ hands' = [hands EXCEPT ![j] = {}]
    /\ UNCHANGED taken

\* The worker loses some of what it has in hand, or dies.
LetGo(w, some) ==
    /\ \A j \in some : hands[j] = {w}
    /\ hands' = [j \in Jobs |-> IF j \in some THEN {} ELSE hands[j]]
    /\ UNCHANGED <<state, taken>>

GiveUp(j) ==
    /\ state[j] = "out"
    /\ hands[j] = {}
    /\ taken[j] >= Tries[j]
    /\ Become(j, "over")
    /\ UNCHANGED <<hands, taken>>

Next ==
    \/ \E j \in Jobs : Post(j) \/ Withdraw(j) \/ GiveUp(j)
    \/ \E w \in Workers, j \in Jobs : Take(w, j) \/ PutBack(w, j) \/ Finish(w, j)
    \/ \E w \in Workers, some \in SUBSET Jobs : LetGo(w, some)

Spec == Init /\ [][Next]_board
=============================================================================
