----------------------------- MODULE HAPCommands -----------------------------
(***************************************************************************)
(* What HAPLib promises about a command, whatever the tree it crosses: the  *)
(* fate of each command and the slot in which a parent holds it for a       *)
(* sleeping child.  HAPStack implements it.                                 *)
(***************************************************************************)
CONSTANTS Command,  \* the commands that may be issued
          Slot      \* where a frame may wait: one per node and child

VARIABLES fate,     \* what became of each command
          slots     \* the slots that hold it

vars == <<fate, slots>>

Fates == {"none", "travelling", "held", "ran", "refused", "lost"}

TypeOK ==
  /\ fate \in [Command -> Fates]
  /\ slots \in [Command -> SUBSET Slot]

Init ==
  /\ fate = [k \in Command |-> "none"]
  /\ slots = [k \in Command |-> {}]

Free(s) == \A k \in Command : s \notin slots[k]

\* What a node makes of a command it is asked for or is sent: it passes it on,
\* runs it, refuses it or holds it in a slot that is free; one that was sent it
\* may drop it.
Handled(k, f, S) ==
  \/ /\ fate[k] \in {"none", "travelling"}
     /\ \/ f \in {"travelling", "ran", "refused"} /\ S = {}
        \/ f = "held" /\ \E s \in Slot : Free(s) /\ S = {s}
  \/ fate[k] = "travelling" /\ f = "lost" /\ S = {}

AtMostOne == {{}} \cup {{s} : s \in Slot}

Handle(k) ==
  \E f \in Fates, S \in AtMostOne :
    /\ Handled(k, f, S)
    /\ fate' = [fate EXCEPT ![k] = f]
    /\ slots' = [slots EXCEPT ![k] = S]

Release(j) ==
  /\ fate[j] = "held"
  /\ fate' = [fate EXCEPT ![j] = "travelling"]
  /\ slots' = [slots EXCEPT ![j] = {}]

\* The frame handled shows its sender to be awake, so what is held for that
\* sender goes too.
HandleAndRelease(k, j) ==
  /\ k # j /\ fate[j] = "held"
  /\ \E f \in Fates, S \in AtMostOne :
       /\ Handled(k, f, S)
       /\ fate' = [fate EXCEPT ![k] = f, ![j] = "travelling"]
       /\ slots' = [slots EXCEPT ![k] = S, ![j] = {}]

\* The node that holds the commands K restarts.
Forget(K) ==
  /\ K # {} /\ \A k \in K : fate[k] = "held"
  /\ fate' = [k \in Command |-> IF k \in K THEN "lost" ELSE fate[k]]
  /\ slots' = [k \in Command |-> IF k \in K THEN {} ELSE slots[k]]

Next ==
  \/ \E k \in Command : Handle(k) \/ Release(k)
  \/ \E j, k \in Command : HandleAndRelease(k, j)
  \/ \E K \in SUBSET Command : Forget(K)

Spec == Init /\ [][Next]_vars
=============================================================================
