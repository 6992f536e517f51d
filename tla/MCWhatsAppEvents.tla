--------------------------- MODULE MCWhatsAppEvents ---------------------------
(***************************************************************************)
(* Instances of WhatsAppEvents for TLC.  The rows of a 1:1 chat and those  *)
(* of a group have no statement in common, so that TLC follows one of them *)
(* at a time: in the scene of the chat the group is at rest and no         *)
(* joined-groups sync runs, in the scene of the group the chat is at rest. *)
(***************************************************************************)
EXTENDS WhatsAppEvents, TLC

CONSTANTS
    m1, m2, g1, c1, \* the instance's messages, group and contact
    GroupEvents     \* bound: changes of the account in the scene of the group

\* A message in a 1:1 chat and one in a group.
MCChatOf == [m \in Msgs |-> IF m = m2 THEN g1 ELSE c1]

VARIABLE scene

\* Names are interchangeable: what is saved or at rest to begin with is one.
First == CHOOSE n \in Names : TRUE

Silent(m) == said[m] = Unsent

SceneInit ==
    /\ Init
    /\ scene \in {"chat", "group"}
    /\ saved[c1] \in {Blank, First}
    /\ scene = "chat"  => Silent(m2) /\ subject[g1] = First
    /\ scene = "group" => Silent(m1) /\ saved[c1] = Blank

SceneNext ==
    /\ Next
    /\ UNCHANGED scene
    /\ scene = "chat"  => Silent(m2)' /\ UNCHANGED <<subject, sync>>
    /\ scene = "group" => Silent(m1)' /\ UNCHANGED saved /\ Len(log') <= GroupEvents

\* A scene holds back the account and the connection only, of which FairSpec
\* asks nothing.
SceneSpec ==
    /\ SceneInit /\ [][SceneNext]_<<vars, scene>>
    /\ \A t \in Threads : WF_vars(Handle(t))
    /\ \A s \in Syncs : WF_vars(Runs(s))
=============================================================================
