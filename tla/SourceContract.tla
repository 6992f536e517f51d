---------------------------- MODULE SourceContract ----------------------------
(***************************************************************************)
(* What the host relies on when it calls a source plugin's Match: the      *)
(* answer replaces every row the index holds for that webspace and source, *)
(* so it is the whole current membership or an error, never a part.  The   *)
(* plugins' Search asks the same of the members its terms select (before   *)
(* the host's own limit).  The source may change while it is being read;   *)
(* what a change touched during the call may or may not be in the answer.  *)
(* (plugins/silverbullet/plugin.go, plugins/filesystem/walk.go and         *)
(* plugins/proton/plugin.go state it where they list their source.)        *)
(***************************************************************************)
CONSTANTS
    Callers,            \* the calls that may overlap
    Items               \* what an answer may list

VARIABLES
    members,            \* what each call should list, as the source stands now
    stirred,            \* what has changed since the call began
    reply               \* the call: its state, and the items of its answer

Replies == [state : {"none", "pending", "failed", "given"}, items : SUBSET Items]
Nothing == [c \in Callers |-> {}]

Init ==
    /\ members \in [Callers -> SUBSET Items]
    /\ stirred = Nothing
    /\ reply = [c \in Callers |-> [state |-> "none", items |-> {}]]

\* A call asks for a membership of its own.
Begin(c) ==
    /\ reply[c].state # "pending"
    /\ \E M \in SUBSET Items : members' = [members EXCEPT ![c] = M]
    /\ stirred' = [stirred EXCEPT ![c] = {}]
    /\ reply' = [reply EXCEPT ![c] = [state |-> "pending", items |-> {}]]

Differ(A, B) == (A \ B) \cup (B \ A)

\* The source changes, for every call in progress.
Stir ==
    /\ UNCHANGED reply
    /\ members' \in [Callers -> SUBSET Items]
    /\ stirred' \in [Callers -> SUBSET Items]
    /\ \A c \in Callers : reply[c].state = "pending" =>
          stirred[c] \cup Differ(members[c], members'[c]) \subseteq stirred'[c]

Refuse(c) ==
    /\ reply[c].state = "pending"
    /\ reply' = [reply EXCEPT ![c] = [state |-> "failed", items |-> {}]]
    /\ UNCHANGED <<members, stirred>>

Give(c) ==
    /\ reply[c].state = "pending"
    /\ \E I \in SUBSET Items :
          /\ members[c] \ stirred[c] \subseteq I
          /\ I \subseteq members[c] \cup stirred[c]
          /\ reply' = [reply EXCEPT ![c] = [state |-> "given", items |-> I]]
    /\ UNCHANGED <<members, stirred>>

\* The plugin's process ends.
Forget ==
    /\ members' \in [Callers -> SUBSET Items]
    /\ stirred' = Nothing
    /\ reply' = [c \in Callers |-> [state |-> "none", items |-> {}]]

Next == Stir \/ Forget \/ \E c \in Callers : Begin(c) \/ Refuse(c) \/ Give(c)

Spec == Init /\ [][Next]_<<members, stirred, reply>>
=============================================================================
