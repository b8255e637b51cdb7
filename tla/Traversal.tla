------------------------------ MODULE Traversal ------------------------------
(***************************************************************************)
(* What the engine promises the code that walks a list of instances (the   *)
(* instances of one object, or those that registered one event) while the *)
(* body of the walk creates and destroys instances.  Entries are numbered *)
(* in the order they were appended.  A walk has a position and a set of    *)
(* entries it still owes a visit: those that were on the list when it      *)
(* started, that are still on it, and that it has not reached.             *)
(*                                                                         *)
(* A Registered walk (enigma::iterator) stops only at entries that are on  *)
(* the list at that moment; a Raw walk (instance_event_iterator) may also  *)
(* stop at an entry taken off since the walk began.  Neither skips an      *)
(* entry that it owes, and neither goes back.                              *)
(***************************************************************************)
EXTENDS Naturals

CONSTANTS Registered,   \* walks made with a registered enigma::iterator
          Raw,          \* walks made with a bare inst_iter pointer
          MaxNode       \* bound on the number of entries ever appended

Cursor == Registered \cup Raw
Done   == MaxNode + 1   \* the walk is over (or has not begun)

VARIABLES used,   \* entries appended so far: 1 .. used
          live,   \* those still on the list
          pos,    \* walk -> entry it stops at, or Done
          due,    \* walk -> entries it still owes a visit
          scope   \* walk -> entries on the list at some time since it began

absVars == <<used, live, pos, due, scope>>

Init == /\ used = 0
        /\ live = {}
        /\ pos = [c \in Cursor |-> Done]
        /\ due = [c \in Cursor |-> {}]
        /\ scope = [c \in Cursor |-> {}]

Append == /\ used < MaxNode
          /\ used' = used + 1
          /\ live' = live \cup {used + 1}
          /\ scope' = [c \in Cursor |->
                         IF pos[c] = Done THEN {} ELSE scope[c] \cup {used + 1}]
          /\ UNCHANGED <<pos, due>>

Remove(w) == /\ w \in live
             /\ live' = live \ {w}
             /\ due' = [c \in Cursor |-> due[c] \ {w}]
             /\ UNCHANGED <<used, pos, scope>>

\* A walk begins at the first entry of the list and owes the others.
Begin(c) == /\ pos[c] = Done
            /\ \/ live = {} /\ UNCHANGED <<pos, due, scope>>
               \/ \E f \in live :
                    /\ \A j \in live : f <= j
                    /\ pos' = [pos EXCEPT ![c] = f]
                    /\ due' = [due EXCEPT ![c] = live \ {f}]
                    /\ scope' = [scope EXCEPT ![c] = live]
            /\ UNCHANGED <<used, live>>

Reachable(c) == IF c \in Registered THEN live ELSE scope[c]

\* It moves forward over no entry that it owes, or ends when it owes none.
Advance(c) == /\ pos[c] # Done
              /\ \/ \E j \in Reachable(c) :
                      /\ pos[c] < j
                      /\ \A d \in due[c] : j <= d
                      /\ pos' = [pos EXCEPT ![c] = j]
                      /\ due' = [due EXCEPT ![c] = @ \ {j}]
                      /\ UNCHANGED scope
                 \/ /\ due[c] = {}
                    /\ pos' = [pos EXCEPT ![c] = Done]
                    /\ scope' = [scope EXCEPT ![c] = {}]
                    /\ UNCHANGED due
              /\ UNCHANGED <<used, live>>

\* A walk is given up half-way (a return, a break, a change of room).
Abandon(c) == /\ pos[c] # Done
              /\ pos' = [pos EXCEPT ![c] = Done]
              /\ due' = [due EXCEPT ![c] = {}]
              /\ scope' = [scope EXCEPT ![c] = {}]
              /\ UNCHANGED <<used, live>>

Next == \/ Append
        \/ \E w \in live : Remove(w)
        \/ \E c \in Cursor : Begin(c) \/ Advance(c) \/ Abandon(c)

AbsSpec == Init /\ [][Next]_absVars
=============================================================================
